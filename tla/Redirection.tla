----------------------------- MODULE Redirection -----------------------------
(***************************************************************************)
(* The life of a redirection in the UsbDk kernel driver: a client asks the *)
(* control device to acquire a USB device (IOCTL_USBDK_ADD_REDIRECT), the  *)
(* driver cycles the device's port so that Windows enumerates it again,    *)
(* attaches a redirector filter to the new device object while the hub     *)
(* answers the enumeration, opens that filter on behalf of the client and  *)
(* hands the handle over; closing the handle undoes all of it.             *)
(*                                                                         *)
(* Four kinds of threads interleave here, each step of the model being one *)
(* critical section or one call out of the driver:                         *)
(*   - ctl:       the control device's sequential queue (AddRedirect);     *)
(*   - closer[p]: IRP_MJ_CLOSE on the redirector over PDO p (OnClose);     *)
(*   - pnp[d]:    the PnP worker enumerating the port of device d, i.e.    *)
(*                the hub filter's QUERY_DEVICE_RELATIONS post-processing, *)
(*                AddDevice and the start of the new stack;                *)
(*   - the bus, the client process and the removal of a dead stack.        *)
(***************************************************************************)
EXTENDS Naturals, FiniteSets

CONSTANTS
    Devices,      \* device identities (DeviceID, InstanceID)
    Pids,         \* client processes
    Pdos,         \* physical device objects; one filter at most sits on each
    Redirs,       \* memory for CUsbDkRedirection objects
    NoPdo, NoRedir, NoPid, NoDevice,   \* nullptr, m_OwnerPid = 0, ...
    MaxRetries,   \* extra attempts of CreateRedirectorHandle (500 in the code)
    Hubs,         \* devices whose descriptor says USB_DEVICE_CLASS_HUB
    MayHide,      \* devices that a hide rule may match
    Unpluggable,  \* devices the user may unplug
    KeepsPower,   \* devices whose drivers may never complete a power IRP
    Faults        \* what may go wrong outside the driver

AllFaults == {"cycle", "relations", "descriptors", "attach", "start", "open",
              "duplicate", "attachTimeout", "detachTimeout", "context"}

ASSUME RedirectionAssumption ==
    /\ NoPdo \notin Pdos /\ NoRedir \notin Redirs
    /\ NoPid \notin Pids /\ NoDevice \notin Devices
    /\ MaxRetries \in Nat
    /\ Hubs \subseteq Devices /\ MayHide \subseteq Devices
    /\ Unpluggable \subseteq Devices /\ KeepsPower \subseteq Devices
    /\ Faults \subseteq AllFaults

VARIABLES
    bus,       \* the PDO the hub reports for a device now
    invalidated, \* the port of a device has changed since it was last queried
    child,     \* the PDO of the device's entry in the hub filter's Children()
    pnp,       \* what the PnP worker is doing for a device
    filter,    \* the CUsbDkFilterDevice over a PDO
    handle,    \* the process that holds an open handle to the filter over a PDO
    entries,   \* m_Redirections, by device identity
    redir,     \* the CUsbDkRedirection objects
    ctl,       \* the AddRedirect call in progress
    closer     \* the OnClose call in progress on the filter over a PDO

vars == <<bus, invalidated, child, pnp, filter, handle, entries, redir, ctl, closer>>

-----------------------------------------------------------------------------
FilterDevice ==
    [strategy: {"none", "hub", "redirector", "hider"}, id: Devices \cup {NoDevice},
     live: BOOLEAN, started: BOOLEAN, refs: Nat]

NoFilter == [strategy |-> "none", id |-> NoDevice,
             live |-> FALSE, started |-> FALSE, refs |-> 0]

CUsbDkRedirection ==
    [redirectorDevice: Pdos \cup {NoPdo}, ownerPid: Pids \cup {NoPid},
     removalInProgress: BOOLEAN, created: BOOLEAN, removed: BOOLEAN, refs: Nat]

FreeRedirection ==
    [redirectorDevice |-> NoPdo, ownerPid |-> NoPid, removalInProgress |-> FALSE,
     created |-> FALSE, removed |-> FALSE, refs |-> 0]

NewRedirection == [FreeRedirection EXCEPT !.refs = 1]

IdleCtl == [pc |-> "idle", dev |-> NoDevice, pid |-> NoPid, redir |-> NoRedir,
            pdo |-> NoPdo, withReset |-> FALSE, left |-> 0]

CtlPc == {"idle", "add", "ref", "find", "power", "cycle", "attach", "open", "dup", "own",
          "rollback", "rbfind", "rbcycle", "release"}

AddRedirectCall ==
    [pc: CtlPc, dev: Devices \cup {NoDevice}, pid: Pids \cup {NoPid},
     redir: Redirs \cup {NoRedir}, pdo: Pdos \cup {NoPdo},
     withReset: BOOLEAN, left: 0 .. MaxRetries]

IdleCloser == [pc |-> "idle", pid |-> NoPid, pdo |-> NoPdo, redir |-> NoRedir]

CloserPc == {"idle", "match", "find", "cycle", "failed", "lookup", "wait", "delete"}

OnCloseCall == [pc: CloserPc, pid: Pids \cup {NoPid}, pdo: Pdos \cup {NoPdo},
                redir: Redirs \cup {NoRedir}]

IdlePnp == [pc |-> "idle", pdo |-> NoPdo]

PnpPc == {"idle", "drop", "notify", "register", "policy", "adddevice", "start"}

PnpWork == [pc: PnpPc, pdo: Pdos \cup {NoPdo}]

Types ==
    /\ bus \in [Devices -> Pdos \cup {NoPdo}]
    /\ child \in [Devices -> Pdos \cup {NoPdo}]
    /\ pnp \in [Devices -> PnpWork]
    /\ filter \in [Pdos -> FilterDevice]
    /\ handle \in [Pdos -> Pids \cup {NoPid}]
    /\ entries \in [Devices -> Redirs \cup {NoRedir}]
    /\ redir \in [Redirs -> CUsbDkRedirection]
    /\ ctl \in AddRedirectCall
    /\ closer \in [Pdos -> OnCloseCall]

TypeOK == Types /\ invalidated \in [Devices -> BOOLEAN]

Init ==
    /\ bus = [d \in Devices |-> NoPdo]
    /\ invalidated = [d \in Devices |-> FALSE]
    /\ child = [d \in Devices |-> NoPdo]
    /\ pnp = [d \in Devices |-> IdlePnp]
    /\ filter = [p \in Pdos |-> NoFilter]
    /\ handle = [p \in Pdos |-> NoPid]
    /\ entries = [d \in Devices |-> NoRedir]
    /\ redir = [r \in Redirs |-> FreeRedirection]
    /\ ctl = IdleCtl
    /\ closer = [p \in Pdos |-> IdleCloser]

-----------------------------------------------------------------------------
(* Helpers of the two object types and of the set m_Redirections.          *)

\* CUsbDkFilterDevice: the last Release deletes the object.
AfterFilterRelease(p) ==
    IF filter[p].refs = 1 THEN [filter EXCEPT ![p] = NoFilter]
                          ELSE [filter EXCEPT ![p].refs = @ - 1]

\* CUsbDkRedirection: the last Release runs the destructor, which releases
\* the redirector device.
ReleaseRedirection(r) ==
    \/ /\ redir[r].refs = 1
       /\ redir' = [redir EXCEPT ![r] = FreeRedirection]
       /\ filter' = IF redir[r].redirectorDevice = NoPdo THEN filter
                    ELSE AfterFilterRelease(redir[r].redirectorDevice)
    \/ /\ redir[r].refs # 1
       /\ redir' = [redir EXCEPT ![r].refs = @ - 1]
       /\ UNCHANGED filter

\* m_Redirections.Delete(&ID): detach under the lock, destroy outside of it.
DeleteEntry(d) ==
    IF entries[d] = NoRedir
    THEN UNCHANGED <<entries, redir, filter>>
    ELSE /\ entries' = [entries EXCEPT ![d] = NoRedir]
         /\ ReleaseRedirection(entries[d])

IsRedirected(r) == redir[r].redirectorDevice # NoPdo

IsPreparedForRemove(r) == redir[r].removalInProgress

\* Mutant: the process is not compared.
MatchProcess_Any(r, pid) == TRUE

MatchProcess(r, pid) == redir[r].ownerPid = pid

\* Mutant: a redirection that is being removed still attracts its device.
ShouldRedirect_Removing(d) == entries[d] # NoRedir /\ ~IsRedirected(entries[d])

ShouldRedirect(d) ==
    /\ entries[d] # NoRedir
    /\ ~(IsRedirected(entries[d]) \/ IsPreparedForRemove(entries[d]))

\* Verdicts the hide rules may give for a device at this moment.
HideVerdicts(d) == IF d \in MayHide THEN BOOLEAN ELSE {FALSE}

Fault(f) == f \in Faults

\* The hub reports another PDO for the device, or none, and invalidates its
\* relations: a query is due.
BusReports(d, p) ==
    /\ bus' = [bus EXCEPT ![d] = p]
    /\ invalidated' = [invalidated EXCEPT ![d] = TRUE]

\* Outcomes of IOCTL_INTERNAL_USB_CYCLE_PORT sent to PDO p of device d: it
\* succeeds only for the PDO the bus still reports.
CycleSucceeds(d, p) ==
    /\ bus[d] = p
    /\ BusReports(d, NoPdo)

CycleFails(d, p) ==
    /\ bus[d] # p \/ Fault("cycle")
    /\ UNCHANGED <<bus, invalidated>>

-----------------------------------------------------------------------------
(* The bus and the PnP worker.                                             *)

Unused(p) ==
    /\ filter[p] = NoFilter
    /\ handle[p] = NoPid
    /\ closer[p] = IdleCloser
    /\ ctl.pdo # p
    /\ \A q \in Pdos : closer[q].pdo # p
    /\ \A d \in Devices : p \notin {bus[d], child[d], pnp[d].pdo}

\* The device (re)appears on its port with a new PDO.
Plug(d) ==
    /\ bus[d] = NoPdo
    /\ \E p \in Pdos : Unused(p) /\ BusReports(d, p)
    /\ UNCHANGED <<child, pnp, filter, handle, entries, redir, ctl, closer>>

Unplug(d) ==
    /\ d \in Unpluggable /\ bus[d] # NoPdo
    /\ BusReports(d, NoPdo)
    /\ UNCHANGED <<child, pnp, filter, handle, entries, redir, ctl, closer>>

\* QUERY_DEVICE_RELATIONS completes; the relations are a snapshot of the bus. A
\* query may also come because of another port. When the copy of the relations
\* fails nothing is dropped or added, and the query has been answered.
QueryDeviceRelations(d) ==
    /\ pnp[d].pc = "idle" /\ child[d] # bus[d]
    /\ \/ pnp' = [pnp EXCEPT ![d] = [pc |-> IF child[d] = NoPdo THEN "register" ELSE "drop",
                                     pdo |-> bus[d]]]
       \/ Fault("relations") /\ UNCHANGED pnp
    /\ invalidated' = [invalidated EXCEPT ![d] = FALSE]
    /\ UNCHANGED <<bus, child, filter, handle, entries, redir, ctl, closer>>

\* Mutant: the redirections of dropped children are not told.
DropRemovedDevices_NoNotify(d) ==
    /\ pnp[d].pc = "drop"
    /\ child' = [child EXCEPT ![d] = NoPdo]
    /\ pnp' = [pnp EXCEPT ![d] = IF @.pdo = NoPdo THEN IdlePnp ELSE [@ EXCEPT !.pc = "register"]]
    /\ UNCHANGED <<bus, invalidated, filter, handle, entries, redir, ctl, closer>>

\* DropRemovedDevices, first pass: children that are gone leave the list.
DropRemovedDevices(d) ==
    /\ pnp[d].pc = "drop"
    /\ child' = [child EXCEPT ![d] = NoPdo]
    /\ pnp' = [pnp EXCEPT ![d].pc = "notify"]
    /\ UNCHANGED <<bus, invalidated, filter, handle, entries, redir, ctl, closer>>

\* DropRemovedDevices, second pass: their redirections are told.
NotifyRedirectionRemoved(d) ==
    /\ pnp[d].pc = "notify"
    /\ redir' = IF entries[d] # NoRedir /\ IsPreparedForRemove(entries[d])
                THEN [redir EXCEPT ![entries[d]].removed = TRUE]
                ELSE redir
    /\ pnp' = [pnp EXCEPT ![d] = IF @.pdo = NoPdo THEN IdlePnp ELSE [@ EXCEPT !.pc = "register"]]
    /\ UNCHANGED <<bus, invalidated, child, filter, handle, entries, ctl, closer>>

\* RegisterNewChild up to Children().PushBack; any query of the device may fail.
RegisterNewChild(d) ==
    /\ pnp[d].pc = "register"
    /\ \/ /\ child' = [child EXCEPT ![d] = pnp[d].pdo]
          /\ pnp' = [pnp EXCEPT ![d].pc = "policy"]
       \/ /\ Fault("descriptors") \/ bus[d] # pnp[d].pdo
          /\ pnp' = [pnp EXCEPT ![d] = IdlePnp]
          /\ UNCHANGED child
    /\ UNCHANGED <<bus, invalidated, filter, handle, entries, redir, ctl, closer>>

ApplyRedirectionPolicy(d) ==
    /\ pnp[d].pc = "policy"
    /\ \E hide \in HideVerdicts(d) :
          pnp' = [pnp EXCEPT ![d] = IF ShouldRedirect(d) \/ hide
                                    THEN [@ EXCEPT !.pc = "adddevice"] ELSE IdlePnp]
    /\ UNCHANGED <<bus, invalidated, child, filter, handle, entries, redir, ctl, closer>>

\* The verdict is taken again here, not carried over from ApplyRedirectionPolicy.
SelectStrategy(d, hide) ==
    IF child[d] = NoPdo \/ d \in Hubs THEN "hub"
    ELSE IF ShouldRedirect(d) THEN "redirector"
    ELSE IF hide THEN "hider" ELSE "none"

\* UsbDkEvtDeviceAdd: an object that is not attached is released at once.
AddDevice(d) ==
    /\ pnp[d].pc = "adddevice"
    /\ \E hide \in HideVerdicts(d), ok \in {TRUE} \cup {~Fault("attach")} :
          LET s == SelectStrategy(d, hide)
          IN IF ok /\ s # "none"
             THEN /\ filter' = [filter EXCEPT ![pnp[d].pdo] =
                         [strategy |-> s, id |-> d, live |-> TRUE, started |-> FALSE, refs |-> 1]]
                  /\ pnp' = [pnp EXCEPT ![d].pc = "start"]
             ELSE /\ pnp' = [pnp EXCEPT ![d] = IdlePnp]
                  /\ UNCHANGED filter
    /\ UNCHANGED <<bus, invalidated, child, handle, entries, redir, ctl, closer>>

\* CUsbDkRedirection::NotifyRedirectorCreated
NotifyRedirectorCreated(r, p) ==
    redir' = [redir EXCEPT ![r].redirectorDevice = p, ![r].created = TRUE]

\* The new stack starts: MakeAvailable, then NotifyRedirectorAttached. A
\* redirection that is not in the set any more is not an error for the code.
MakeAvailable(d) ==
    LET p == pnp[d].pdo
        r == entries[filter[p].id]
    IN /\ pnp[d].pc = "start"
       /\ \/ /\ filter[p].strategy = "redirector" /\ r # NoRedir
             /\ filter' = [filter EXCEPT ![p].started = TRUE, ![p].refs = @ + 1]
             /\ NotifyRedirectorCreated(r, p)
          \/ /\ filter[p].strategy # "redirector" \/ r = NoRedir
             /\ filter' = [filter EXCEPT ![p].started = TRUE]
             /\ UNCHANGED redir
          \/ /\ Fault("start")
             /\ UNCHANGED <<filter, redir>>
       /\ pnp' = [pnp EXCEPT ![d] = IdlePnp]
       /\ UNCHANGED <<bus, invalidated, child, handle, entries, ctl, closer>>

\* PnP removes a stack whose PDO is gone, or that failed to start, once nothing
\* is open on it: ContextCleanup releases the framework's reference.
RemoveStack(p) ==
    /\ filter[p].live
    /\ \A d \in Devices : pnp[d].pdo # p
    /\ (\A d \in Devices : child[d] # p /\ bus[d] # p) \/ ~filter[p].started
    /\ handle[p] = NoPid /\ closer[p].pc = "idle"
    /\ filter' = [AfterFilterRelease(p) EXCEPT ![p].live = FALSE]
    /\ UNCHANGED <<bus, invalidated, child, pnp, handle, entries, redir, ctl, closer>>

-----------------------------------------------------------------------------
(* AddRedirect: the control queue is sequential, one call at a time.       *)

CtlFrame == UNCHANGED <<child, pnp>>

\* AddRedirectionToSet, first check: a device that is not there is rejected.
AddRedirect(d, pid) ==
    /\ ctl.pc = "idle" /\ child[d] # NoPdo
    /\ ctl' = [IdleCtl EXCEPT !.pc = "add", !.dev = d, !.pid = pid]
    /\ CtlFrame /\ UNCHANGED <<bus, invalidated, filter, handle, entries, redir, closer>>

\* m_Redirections.Add fails for a device that has an entry already.
AddToSet ==
    /\ ctl.pc = "add"
    /\ \/ /\ entries[ctl.dev] # NoRedir
          /\ ctl' = IdleCtl
          /\ UNCHANGED <<entries, redir>>
       \/ /\ entries[ctl.dev] = NoRedir
          /\ \E r \in Redirs :
                /\ redir[r].refs = 0
                /\ redir' = [redir EXCEPT ![r] = NewRedirection]
                /\ entries' = [entries EXCEPT ![ctl.dev] = r]
                /\ ctl' = [ctl EXCEPT !.pc = "ref", !.redir = r]
    /\ CtlFrame /\ UNCHANGED <<bus, invalidated, filter, handle, closer>>

\* Mutant: the caller of Add uses the pointer without a reference of its own.
TakeReference_Missing ==
    /\ ctl.pc = "ref"
    /\ ctl' = [ctl EXCEPT !.pc = "find"]
    /\ CtlFrame /\ UNCHANGED <<bus, invalidated, filter, handle, entries, redir, closer>>

TakeReference ==
    /\ ctl.pc = "ref"
    /\ redir' = [redir EXCEPT ![ctl.redir].refs = @ + 1]
    /\ ctl' = [ctl EXCEPT !.pc = "find"]
    /\ CtlFrame /\ UNCHANGED <<bus, invalidated, filter, handle, entries, closer>>

\* ResetUsbDevice, first half: GetPDOByDeviceID under the children's lock. No
\* child: STATUS_NO_SUCH_DEVICE, rolled back without a reset. A device that is
\* not in D0 is sent a power IRP first, unless the request of it fails.
FindDevice ==
    /\ ctl.pc = "find"
    /\ \/ /\ child[ctl.dev] = NoPdo
          /\ ctl' = [ctl EXCEPT !.pc = "rollback"]
       \/ /\ child[ctl.dev] # NoPdo
          /\ \E pc \in {"power", "cycle"} :
                ctl' = [ctl EXCEPT !.pc = pc, !.pdo = child[ctl.dev]]
    /\ CtlFrame /\ UNCHANGED <<bus, invalidated, filter, handle, entries, redir, closer>>

\* Reset(ForceD0) waits for the power IRP without a timeout and goes on whatever
\* the IRP's status is.
PowerRequestCompletion ==
    /\ ctl.pc = "power"
    /\ ctl' = [ctl EXCEPT !.pc = "cycle"]
    /\ CtlFrame /\ UNCHANGED <<bus, invalidated, filter, handle, entries, redir, closer>>

\* ResetUsbDevice, second half: the port of the PDO found before is cycled.
CyclePort ==
    /\ ctl.pc = "cycle"
    /\ \/ /\ CycleSucceeds(ctl.dev, ctl.pdo)
          /\ ctl' = [ctl EXCEPT !.pc = "attach", !.pdo = NoPdo]
       \/ /\ CycleFails(ctl.dev, ctl.pdo)
          /\ ctl' = [ctl EXCEPT !.pc = "rollback", !.pdo = NoPdo]
    /\ CtlFrame /\ UNCHANGED <<filter, handle, entries, redir, closer>>

RollBack == [ctl EXCEPT !.pc = "rollback", !.withReset = TRUE, !.left = 0]

\* Mutants: the outcome of the wait is not looked at; the wait has no timeout.
WaitForAttachment_Ignored ==
    /\ ctl.pc = "attach"
    /\ redir[ctl.redir].created \/ Fault("attachTimeout")
    /\ ctl' = [ctl EXCEPT !.pc = "open", !.left = MaxRetries]
    /\ CtlFrame /\ UNCHANGED <<bus, invalidated, filter, handle, entries, redir, closer>>

WaitForAttachment_Forever ==
    /\ ctl.pc = "attach" /\ redir[ctl.redir].created
    /\ ctl' = [ctl EXCEPT !.pc = "open", !.left = MaxRetries]
    /\ CtlFrame /\ UNCHANGED <<bus, invalidated, filter, handle, entries, redir, closer>>

WaitForAttachment ==
    /\ ctl.pc = "attach"
    /\ \/ /\ redir[ctl.redir].created
          /\ ctl' = [ctl EXCEPT !.pc = "open", !.left = MaxRetries]
       \/ /\ ~redir[ctl.redir].created /\ Fault("attachTimeout")
          /\ ctl' = RollBack
    /\ CtlFrame /\ UNCHANGED <<bus, invalidated, filter, handle, entries, redir, closer>>

\* Mutant: one attempt too many.
NextAttempt_OffByOne == [ctl EXCEPT !.pc = "open", !.left = @ - 1]

\* The retry loop of CreateRedirectorHandle: one attempt is used up.
NextAttempt == IF ctl.left = 0 THEN RollBack
               ELSE [ctl EXCEPT !.pc = "open", !.left = @ - 1]

\* ZwOpenFile finds a stack that is started and not removed.
CanOpen(p) == filter[p].live /\ filter[p].started

\* One iteration of CreateRedirectorHandle. When the handle cannot be
\* duplicated into the client it is closed again, which runs OnClose.
CreateRedirectorHandle ==
    LET r == ctl.redir
        p == redir[r].redirectorDevice
    IN /\ ctl.pc = "open"
       /\ \/ /\ ~IsPreparedForRemove(r) /\ CanOpen(p)
             /\ handle' = [handle EXCEPT ![p] = ctl.pid]
             /\ ctl' = [ctl EXCEPT !.pc = "own"]
             /\ UNCHANGED closer
          \/ /\ ~IsPreparedForRemove(r) /\ CanOpen(p) /\ Fault("duplicate")
             /\ closer' = [closer EXCEPT ![p].pc = "match", ![p].pid = ctl.pid]
             /\ ctl' = [ctl EXCEPT !.pc = "dup", !.pdo = p]
             /\ UNCHANGED handle
          \/ /\ IsPreparedForRemove(r) \/ ~CanOpen(p) \/ Fault("open")
             /\ ctl' = IF IsPreparedForRemove(r) THEN RollBack ELSE NextAttempt
             /\ UNCHANGED <<handle, closer>>
       /\ CtlFrame /\ UNCHANGED <<bus, invalidated, filter, entries, redir>>

\* ZwClose of the kernel handle returned: OnClose has finished.
DuplicateFailed ==
    /\ ctl.pc = "dup" /\ closer[ctl.pdo].pc = "idle"
    /\ ctl' = [NextAttempt EXCEPT !.pdo = NoPdo]
    /\ CtlFrame /\ UNCHANGED <<bus, invalidated, filter, handle, entries, redir, closer>>

SetOwnerPid ==
    /\ ctl.pc = "own"
    /\ redir' = [redir EXCEPT ![ctl.redir].ownerPid = ctl.pid]
    /\ ctl' = [ctl EXCEPT !.pc = "release"]
    /\ CtlFrame /\ UNCHANGED <<bus, invalidated, filter, handle, entries, closer>>

\* AddRedirectRollBack: the entry goes first, the reset follows.
AddRedirectRollBack ==
    /\ ctl.pc = "rollback"
    /\ DeleteEntry(ctl.dev)
    /\ ctl' = [ctl EXCEPT !.pc = IF ctl.withReset THEN "rbfind" ELSE "release"]
    /\ CtlFrame /\ UNCHANGED <<bus, invalidated, handle, closer>>

RollBackFindDevice ==
    /\ ctl.pc = "rbfind"
    /\ ctl' = IF child[ctl.dev] = NoPdo
              THEN [ctl EXCEPT !.pc = "release"]
              ELSE [ctl EXCEPT !.pc = "rbcycle", !.pdo = child[ctl.dev]]
    /\ CtlFrame /\ UNCHANGED <<bus, invalidated, filter, handle, entries, redir, closer>>

RollBackCyclePort ==
    /\ ctl.pc = "rbcycle"
    /\ CycleSucceeds(ctl.dev, ctl.pdo) \/ CycleFails(ctl.dev, ctl.pdo)
    /\ ctl' = [ctl EXCEPT !.pc = "release", !.pdo = NoPdo]
    /\ CtlFrame /\ UNCHANGED <<filter, handle, entries, redir, closer>>

\* The dereferencer of AddRedirect goes out of scope and the request completes.
ReturnFromAddRedirect ==
    /\ ctl.pc = "release"
    /\ ReleaseRedirection(ctl.redir)
    /\ ctl' = IdleCtl
    /\ CtlFrame /\ UNCHANGED <<bus, invalidated, handle, entries, closer>>

-----------------------------------------------------------------------------
(* Closing a redirector: OnClose runs RemoveRedirect for the filter's ID.  *)

CloserFrame == UNCHANGED <<child, pnp, ctl>>

CloserAt(p, pc) == closer[p].pc = pc

\* The client learns its handle when AddRedirect returns; the close may run in
\* the context of another process.
CloseHandle(p) ==
    /\ handle[p] # NoPid
    /\ ~(ctl.pc \in {"own", "release"} /\ redir[ctl.redir].redirectorDevice = p)
    /\ \E pid \in {handle[p]} \cup (IF Fault("context") THEN Pids ELSE {}) :
          closer' = [closer EXCEPT ![p].pc = "match", ![p].pid = pid]
    /\ handle' = [handle EXCEPT ![p] = NoPid]
    /\ CloserFrame /\ UNCHANGED <<bus, invalidated, filter, entries, redir>>

\* NotifyRedirectorRemovalStarted: the entry must belong to the closing process.
NotifyRedirectionRemovalStarted(p) ==
    LET r == entries[filter[p].id]
    IN /\ CloserAt(p, "match")
       /\ \/ /\ r # NoRedir /\ MatchProcess(r, closer[p].pid)
             /\ redir' = [redir EXCEPT ![r].removalInProgress = TRUE,
                                       ![r].redirectorDevice = NoPdo,
                                       ![r].created = FALSE]
             /\ filter' = AfterFilterRelease(redir[r].redirectorDevice)
             /\ closer' = [closer EXCEPT ![p].pc = "find"]
          \/ /\ r = NoRedir \/ ~MatchProcess(r, closer[p].pid)
             /\ closer' = [closer EXCEPT ![p] = IdleCloser]
             /\ UNCHANGED <<redir, filter>>
       /\ CloserFrame /\ UNCHANGED <<bus, invalidated, handle, entries>>

\* Mutant: a device that is gone is treated like any other failure.
CloserFindDevice_Fails(p) ==
    LET pdo == child[filter[p].id]
    IN /\ CloserAt(p, "find")
       /\ closer' = [closer EXCEPT ![p] = IF pdo = NoPdo THEN IdleCloser
                                          ELSE [@ EXCEPT !.pc = "cycle", !.pdo = pdo]]
       /\ CloserFrame /\ UNCHANGED <<bus, invalidated, filter, handle, entries, redir>>

\* STATUS_NO_SUCH_DEVICE here means there is no detachment to wait for.
CloserFindDevice(p) ==
    LET pdo == child[filter[p].id]
    IN /\ CloserAt(p, "find")
       /\ closer' = [closer EXCEPT ![p].pc = IF pdo = NoPdo THEN "delete" ELSE "cycle",
                                   ![p].pdo = pdo]
       /\ CloserFrame /\ UNCHANGED <<bus, invalidated, filter, handle, entries, redir>>

\* A reset that fails with STATUS_NO_SUCH_DEVICE counts as detached; any other
\* failure, which a port may answer with whose device is gone as well, ends
\* RemoveRedirect and leaves the entry as it is.
CloserCyclePort(p) ==
    LET d == filter[p].id
    IN /\ CloserAt(p, "cycle")
       /\ \/ /\ CycleSucceeds(d, closer[p].pdo)
             /\ closer' = [closer EXCEPT ![p].pc = "lookup", ![p].pdo = NoPdo]
          \/ /\ CycleFails(d, closer[p].pdo)
             /\ \E pc \in {"delete", "failed"} :
                   closer' = [closer EXCEPT ![p].pc = pc, ![p].pdo = NoPdo]
       /\ CloserFrame /\ UNCHANGED <<filter, handle, entries, redir>>

\* RemoveRedirect returns the status of the reset, and OnClose with it.
RemoveRedirectFails(p) ==
    /\ CloserAt(p, "failed")
    /\ closer' = [closer EXCEPT ![p] = IdleCloser]
    /\ CloserFrame /\ UNCHANGED <<bus, invalidated, filter, handle, entries, redir>>

\* WaitForDetachment finds the entry again and keeps it alive while it waits.
LookupRedirection(p) ==
    LET r == entries[filter[p].id]
    IN /\ CloserAt(p, "lookup")
       /\ closer' = [closer EXCEPT ![p] = IF r = NoRedir THEN IdleCloser
                                          ELSE [@ EXCEPT !.pc = "wait", !.redir = r]]
       /\ redir' = IF r = NoRedir THEN redir ELSE [redir EXCEPT ![r].refs = @ + 1]
       /\ CloserFrame /\ UNCHANGED <<bus, invalidated, filter, handle, entries>>

\* PnP has nothing to do for the device any more.
Settled(d) == pnp[d].pc = "idle" /\ ~invalidated[d]

\* Mutant: the wait has no timeout.
WaitForDetachment_Forever(p) ==
    LET r == closer[p].redir
    IN /\ CloserAt(p, "wait") /\ redir[r].removed
       /\ closer' = [closer EXCEPT ![p].pc = "delete", ![p].redir = NoRedir]
       /\ ReleaseRedirection(r)
       /\ CloserFrame /\ UNCHANGED <<bus, invalidated, handle, entries>>

\* The 120 seconds are enough for what PnP has to do, short of the fault.
WaitForDetachment(p) ==
    LET r == closer[p].redir
    IN /\ CloserAt(p, "wait")
       /\ \/ /\ redir[r].removed
             /\ closer' = [closer EXCEPT ![p].pc = "delete", ![p].redir = NoRedir]
          \/ /\ ~redir[r].removed
             /\ Fault("detachTimeout") \/ Settled(filter[p].id)
             /\ closer' = [closer EXCEPT ![p] = IdleCloser]
       /\ ReleaseRedirection(r)
       /\ CloserFrame /\ UNCHANGED <<bus, invalidated, handle, entries>>

RemoveEntry(p) ==
    /\ CloserAt(p, "delete")
    /\ DeleteEntry(filter[p].id)
    /\ closer' = [closer EXCEPT ![p] = IdleCloser]
    /\ CloserFrame /\ UNCHANGED <<bus, invalidated, handle>>

-----------------------------------------------------------------------------
PnpStep(d) ==
    \/ QueryDeviceRelations(d) \/ DropRemovedDevices(d) \/ NotifyRedirectionRemoved(d)
    \/ RegisterNewChild(d) \/ ApplyRedirectionPolicy(d) \/ AddDevice(d) \/ MakeAvailable(d)

CtlStep ==
    \/ AddToSet \/ TakeReference \/ FindDevice \/ CyclePort \/ WaitForAttachment
    \/ CreateRedirectorHandle \/ DuplicateFailed \/ SetOwnerPid
    \/ AddRedirectRollBack \/ RollBackFindDevice \/ RollBackCyclePort
    \/ ReturnFromAddRedirect

CloserStep(p) ==
    \/ NotifyRedirectionRemovalStarted(p) \/ CloserFindDevice(p) \/ CloserCyclePort(p)
    \/ RemoveRedirectFails(p) \/ LookupRedirection(p) \/ WaitForDetachment(p) \/ RemoveEntry(p)

Next ==
    \/ \E d \in Devices : Plug(d) \/ Unplug(d) \/ PnpStep(d)
    \/ \E d \in Devices, pid \in Pids : AddRedirect(d, pid)
    \/ CtlStep \/ PowerRequestCompletion
    \/ \E p \in Pdos : CloseHandle(p) \/ CloserStep(p) \/ RemoveStack(p)

Spec == Init /\ [][Next]_vars

\* Threads of the driver are scheduled, waits with a timeout end however often
\* the port changes meanwhile, power IRPs are completed except by the drivers
\* that may keep them, and Windows queries an invalidated port once, removes dead
\* stacks and brings a cycled device back; nothing is assumed of the user or of
\* the clients.
FairSpec ==
    /\ Spec
    /\ WF_vars(CtlStep)
    /\ WF_vars(ctl.dev \notin KeepsPower /\ PowerRequestCompletion)
    /\ \A d \in Devices : WF_vars(~Settled(d) /\ PnpStep(d))
    /\ \A d \in Devices \ Unpluggable : WF_vars(Plug(d))
    /\ \A p \in Pdos :
          WF_vars(CloserStep(p)) /\ SF_vars(WaitForDetachment(p)) /\ WF_vars(RemoveStack(p))

-----------------------------------------------------------------------------
(* Safety.                                                                 *)

\* m_RedirectorDevice is dereferenced without a check in two places: in the
\* retry loop of CreateRedirectorHandle, which runs outside of every lock, and
\* in NotifyRedirectionRemovalStarted. It is never null there.
NoNullRedirector ==
    /\ ctl.pc = "open" => IsRedirected(ctl.redir) /\ ~IsPreparedForRemove(ctl.redir)
    /\ \A p \in Pdos : CloserAt(p, "match") =>
          LET r == entries[filter[p].id]
          IN r # NoRedir /\ MatchProcess(r, closer[p].pid) => IsRedirected(r)

\* Who holds a reference to a redirection and to a filter device. None of the
\* holders can be there twice.
HeldByCtl(r) == ctl.redir = r /\ ctl.pc \notin {"idle", "add", "ref"}

One(condition) == IF condition THEN 1 ELSE 0

RedirectionRefs ==
    /\ \A r \in Redirs :
          redir[r].refs = One(\E d \in Devices : entries[d] = r)
                          + One(HeldByCtl(r))
                          + One(\E p \in Pdos : closer[p].redir = r)
    /\ \A d, e \in Devices : entries[d] = entries[e] /\ entries[d] # NoRedir => d = e
    /\ \A p, q \in Pdos :
          closer[p].redir = closer[q].redir /\ closer[p].redir # NoRedir => p = q

FilterRefs ==
    /\ \A p \in Pdos :
          filter[p].refs = One(filter[p].live)
                           + One(\E r \in Redirs : redir[r].redirectorDevice = p)
    /\ \A r, s \in Redirs :
          redir[r].redirectorDevice = redir[s].redirectorDevice /\ IsRedirected(r) => r = s

\* The reference counts of redirections and of filter devices count exactly the
\* pointers the set, the threads, the framework and m_RedirectorDevice keep: an
\* object in use is never deleted and none is left behind. In the window between
\* Add and AddRef the caller's pointer is covered by the reference of the set.
RefCountsExact ==
    /\ RedirectionRefs /\ FilterRefs
    /\ ctl.pc = "ref" => entries[ctl.dev] = ctl.redir

\* A close that waits for the detachment of its device cannot have missed the
\* event: it is set, or the child is still listed although its PDO is gone, or
\* the worker has dropped the child and is about to notify.
NoLostDetachment ==
    \A p \in Pdos : closer[p].pc \in {"lookup", "wait"} =>
        LET d == filter[p].id
        IN /\ entries[d] # NoRedir
           /\ \/ redir[entries[d]].removed
              \/ child[d] # NoPdo /\ child[d] # bus[d]
              \/ pnp[d].pc = "notify"

\* When an acquisition was rolled back with a reset, and when a close is about
\* to drop the redirection, no device the bus still reports sits under a
\* redirector. Expected only where a port can always be cycled.
GivenBack ==
    \A d \in Devices :
        LET p == child[d]
        IN /\ p # NoPdo /\ bus[d] = p
           /\ \/ ctl.dev = d /\ ctl.pc = "release" /\ ctl.withReset
              \/ \E q \in Pdos : filter[q].id = d /\ CloserAt(q, "delete")
           => filter[p].strategy # "redirector"

\* UsbDkHelper.h promises a handle to the acquired device: when AddRedirect
\* succeeds, the stack behind the handle is over the PDO the bus reports.
AcquiredOnSuccess ==
    ctl.pc = "release" /\ redir[ctl.redir].ownerPid # NoPid =>
        bus[ctl.dev] = redir[ctl.redir].redirectorDevice

-----------------------------------------------------------------------------
(* Liveness.                                                               *)

\* The control queue is sequential, so an AddRedirect that does not return
\* blocks every client. Its waits and retries are bounded but for one: the wait
\* of the reset for a power IRP the lower drivers keep.
AddRedirectReturns ==
    ctl.pc # "idle" ~> \/ ctl.pc = "idle"
                       \/ ctl.pc = "power" /\ ctl.dev \in KeepsPower

\* A close always comes back to the process that closes its handle, also when
\* the detachment is never seen because the copy of the relations failed.
CloseReturns == \A p \in Pdos : closer[p].pc # "idle" ~> closer[p].pc = "idle"

\* UsbDkHelper.h: the device is returned to the system when the handle is
\* closed, i.e. a redirection whose removal started leaves the set.
Returning(d) == entries[d] # NoRedir /\ redir[entries[d]].removalInProgress

ReturnedAfterClose == \A d \in Devices : Returning(d) ~> ~Returning(d)

\* The close has started the removal of its redirection and goes on with it.
Removing == {"find", "cycle", "failed", "lookup", "wait", "delete"}

Closers(d) == {p \in Pdos : filter[p].id = d /\ closer[p].pc \in Removing}

\* What keeps a close from that: a reset that fails, and a child that stays in
\* the list although its PDO is gone, since the copy of the relations failed and
\* no other query is due. Nothing else does.
ResetFailed(d) == \E p \in Closers(d) : CloserAt(p, "failed")

Overlooked(d) == child[d] \notin {NoPdo, bus[d]} /\ Settled(d)

ReturnedUnlessHindered ==
    \A d \in Devices :
        Closers(d) # {} ~> (~Returning(d) \/ ResetFailed(d) \/ Overlooked(d))

-----------------------------------------------------------------------------
(* What the rest of the system may rely on: the life of an acquisition.    *)

acquisition == [d \in Devices |->
    IF entries[d] = NoRedir THEN "free"
    ELSE IF redir[entries[d]].removalInProgress THEN "returning"
    ELSE IF redir[entries[d]].ownerPid # NoPid THEN "owned" ELSE "requested"]

owner == [d \in Devices |-> IF entries[d] = NoRedir THEN NoPid
                            ELSE redir[entries[d]].ownerPid]

closing == [d \in Devices |-> {closer[p].pid : p \in Closers(d)}]

Ownership == INSTANCE DeviceOwnership

\* Only a close in the name of the owner begins the return of a device, and only
\* that close ends it.
OwnershipSpec == Ownership!Spec
=============================================================================
