# UsbDk in TLA+

UsbDk is a Windows kernel driver, with a user-mode helper library, that lets a
program take a USB device away from Windows and talk to it directly. This
directory holds a formal model of it: TLA+ modules translated from the source,
TLC configurations that check them on small instances, and theorems checked by
TLAPS. Line numbers refer to the files under `src/`.

## 1. The system

### 1.1 Components

| Component | State | Operations | What makes it correct |
|---|---|---|---|
| **Redirection protocol** (`ControlDevice.*`, `RedirectorStrategy.*`, `FilterDevice.*`, `Driver.cpp`) | `m_Redirections` (a set of `CUsbDkRedirection` by device identity), per redirection its redirector, owner, removal flag and two events; the children of each hub filter; the filter over each PDO; reference counts | `AddRedirect` and its rollback, `RemoveRedirect` (run by the close of a redirector), the post-processing of bus relations by the hub filter, `UsbDkEvtDeviceAdd` with `SelectStrategy`, `MakeAvailable`, context cleanup | one process at a time owns a device; no null or deleted object is used; every wait ends and no event is lost; a device is given back |
| **Hide rules** (`ControlDevice.*`, `HiderDevice.cpp`) | four rule sets: dynamic, extended dynamic, persistent, extended persistent | add, clear (also by closing the hider device), reload from the registry, `ShouldHideDevice` | a verdict reflects rules that were in force during the pass; a rule is in force as long as its owner wants it |
| **Persistent rules in the helper** (`RuleManager.cpp`, `RegAccess.cpp`, `UsbDkHelper.cpp`) | the subkeys of a registry key and their values | add, delete, delete all, each followed by a reload in the driver | what a call reports is so; no rule twice |
| **Filter devices and the control device** (`FilterDevice.*`, `FilterStrategy.cpp`, `Alloc.h`) | strategy of each filter, reference count and pointer of the singleton, lists of hubs and hidden devices, serial numbers | `AddDevice`, `DefineStrategy`, `Reference`, `Release`, registration in the lists, deletion, driver reload | created once, deleted once, never used before or after; no dangling pointer; serial numbers unique and reused |
| **Data path of a redirector** (`RedirectorStrategy.cpp`, `UsbTarget.*`, `WdfRequest.*`) | two queues, interfaces, pipes and the lock over them, requests in flight | read, write, control and isochronous transfers; abort and reset of pipes; alternate settings; reset | no array of pipes is replaced while a handler is in it; driver and device agree on the setting; every request completes once |
| **Device list** (`CUsbDkControlDeviceQueue`, `DriverAccess.cpp`, `DriverFile.cpp`) | filters and children, the exclusive control device | count, enumerate, begin and end of a redirection | the list is one the system had; a call leaves nothing open and ends |
| **Installer** (`Installer.cpp`, `ServiceManager.cpp`, `WdfCoinstaller.cpp`, `DeviceMgr.cpp`, the MSI helper) | driver file, service, `UpperFilters` of the class, running stacks | install, uninstall, rollback | whatever breaks off, no filter is listed that cannot be loaded; a later installation succeeds |
| **Device classes** (`DetermineDeviceClasses`) | class mask of a child | walk of the configuration descriptors | the walk ends and stays in the buffer |
| **Infrastructure** (`UsbDkUtil.h`, `Irp.*`, `DeviceAccess.*`, `Wdf*`) | lists, sets, locks, counters, events | container operations, IRP forwarding | an operation on a locked set is one atomic step |
| **Not behaviour**: argument parsing of the controller, tracing, build and packaging files, documents | – | – | – |

### 1.2 How they interact

    client --IOCTL--> control queue (sequential) --> AddRedirect --+--> m_Redirections <--+
       |                                                           | cycle port           |
       | close handle                                              v                      |
       +-----------> redirector OnClose --> RemoveRedirect --> bus driver                 |
       |                                                           | new bus relations    |
       | transfers   hide rules <--- SelectStrategy <--- AddDevice <--- hub filter -------+
       v                 ^                                  |
    redirector queues    | reload                           +--> redirector or hider over
       |                 |                                       the new PDO
       v              registry <--- helper processes
    USB target

The control queue handles one request at a time, at passive level and for the
one handle the exclusive control device admits. Closes run in the thread of the
process that closes its handle. Enumeration runs in PnP worker threads, one at a
time for a port. Only single operations on `m_Redirections`, on the children
and on the rule sets are locked (spin locks in `CWdmSet` and `CWdmList`);
everything between two of them may interleave with everything else. The
components meet in `m_Redirections`, in the child lists, in the reference counts
of `CUsbDkRedirection` and `CUsbDkFilterDevice`, and through the two events of a
redirection. The helper library meets the driver in the registry, which both
read and only the helper writes, and at the exclusive control device.

### 1.3 What is hard

- `AddRedirect` waits for something only the PnP worker can do, caused by a port
  cycle, found through an entry that other threads may see at any moment.
- `CreateRedirectorHandle` polls through `m_RedirectorDevice` outside of locks.
- A close prepares the removal, resets, looks the redirection up again and waits
  for an event, each a separate critical section.
- Every call out of the driver may fail, waits may time out, the device may be
  unplugged between any two steps.
- A transfer may be completed by the target before the handler that sent it has
  let it go, and while another thread replaces the pipes of its interface: the
  drain before a change of the setting waits for nobody.
- Rules are written value by value, enumerated by index and deleted by several
  processes while the driver reads them.
- An installation is spread over four places of the system and may be broken off
  anywhere.

`PROJECT.json` lists these and the other hazards at the line where they bite,
with the properties that cover them.

## 2. Modules

| Module | Role |
|---|---|
| `DeviceOwnership` | what the driver promises of a device: the life of an acquisition (free, requested, owned, returning) and its owner |
| `Redirection` | the redirection protocol: state, actions, `Spec`, `FairSpec`, properties |
| `RedirectionInvariant` | the inductive invariant `IInv` of `Redirection`, in named parts, and `RollBackInv` and `ReturningInv` beside it |
| `RedirectionProofs` | its theorems, and that it implements `DeviceOwnership` |
| `HideRules` | the four rule sets, the hider device, the reload from the registry, the pass of `ShouldHideDevice` |
| `HideRulesHistory` | `HideRules` with the rules seen, and steady, during a pass |
| `HideVisitor` | the visitor loop over one set, compared with `HideRules!Visit` |
| `HideRulesProofs` | the theorems about `HideRules`, `HideRulesHistory` and `HideVisitor` |
| `RuleTools` | `HideRules` composed with the processes that edit persistent rules |
| `RuleToolsProofs` | its inductive invariants and theorems |
| `FilterDevices` | the life of filter devices and of the control device, the lists, serial numbers |
| `FilterDevicesProofs` | its inductive invariant and theorems |
| `PipeTransfers` | the two queues of a redirector, its requests and pipes |
| `PipeTransfersProofs` | its inductive invariant and theorems |
| `DeviceList` | the calls through the exclusive control device |
| `DeviceListProofs` | its theorems |
| `Installation` | installation, removal, rollback, crashes and restarts |
| `InstallationProofs` | its inductive invariant and theorems |
| `Loops` | lemmas about loops over lists, on which `HideRulesProofs` and `InstallationProofs` rest |
| `MC...` | constants and symmetry for TLC, one module for each specification that is checked |

The runs, with the number of distinct states:

| Run | Checks | Result |
|---|---|---|
| `redirection_safety` | `TypeOK`, `NoNullRedirector`, `RefCountsExact`, `NoLostDetachment`, `OwnershipSpec`; all faults, unplugging, hide verdicts | holds, 112 694 |
| `redirection_liveness` | `GivenBack`, `AddRedirectReturns`, `CloseReturns`, `ReturnedUnlessHindered`; all faults but "cycle", "detachTimeout" and "context" | holds, 107 816 |
| `redirection_acquired` | `AcquiredOnSuccess` | violated, 2.1 |
| `redirection_not_returned` | `ReturnedAfterClose` where a reset may fail | violated, 2.1 |
| `hide_verdicts` | `TypeOK`, `VisitIsForEach`, `HiddenForAReason`, `HiddenWhenSteady`; failing allocations and registry calls | holds, 437 640 |
| `hide_rules_not_cleared` | `ExtendedRulesEndWithClient` | violated, 2.2 |
| `rule_tools` | `ToolsTypeOK`, `DeletedRulesLeave`, `KeptRulesAreLoaded`, `NoDuplicates`, `AddedRuleIsInForce`, `DeletedIsGone`; overlapping reloads, failing enumerations and reads | holds, 1 257 174 |
| `persistent_rules_skipped` | `RulesStayUntilDeleted`; no fault at all | violated, 2.3 |
| `filter_devices` | `TypeOK`, `CountIsExact`, `HoldersAreServed`, `NoDanglingFilters`, `UniqueInstanceIds`, `SerialsAreReused` | holds, 64 517 |
| `pipe_transfers` | `TypeOK`, `OneOwner`, `PipeStaysInUse`, `PipesFollowDevice`, `RequestsEnd`, `DrainEnds`; all faults | holds, 131 744 |
| `device_list` | `TypeOK`, `ListResultIsTrue`, `OpenOnlyInCalls`, `CallsReturn` | holds, 381 564 |
| `installation` | `TypeOK`, `ListedDriverIsInstalled`, `ResultIsTrue`, `CleanInstallSucceeds`, `OtherFiltersKept` | holds, 352 204 |

Every property of a passing run has a mutant of the code, an operator before the
definition it replaces with a comment that says which bug it is.

Every invariant, action property and refinement of the passing runs is also a
theorem, listed in `PROJECT.json`, for every value of the constants that meets the
module's assumption; only `DevicesAreGivenBack` excludes a fault ("cycle"), and
`ToolsKeepToHideRules`, which states no property of a run, takes a rule to have more
than one value. What is left to TLC alone is liveness: `AddRedirectReturns`,
`CloseReturns`, `ReturnedUnlessHindered`, `RequestsEnd`, `DrainEnds` and
`CallsReturn`, for which the prover has neither fairness nor `ENABLED`.

### 2.1 Redirection

State: `bus[d]` is the PDO the hub reports for device identity `d` (device and
instance ID), `invalidated[d]` whether the port has changed since PnP last asked
for it, `child[d]` the PDO of the entry in the hub filter's `Children()`,
`pnp[d]` the progress of the PnP worker on that port with the PDO of its
snapshot, `filter[p]` the `CUsbDkFilterDevice` over PDO `p`, `handle[p]` the
process with an open handle to it, `entries` the set `m_Redirections`, `redir`
the redirection objects, `ctl` the call of `AddRedirect` in progress and
`closer[p]` the call of `OnClose` in progress.

Each action is one critical section or one call out of the driver, in the order
of the code:

- `AddRedirect`, `AddToSet`, `TakeReference`, `FindDevice`,
  `PowerRequestCompletion` (`DeviceAccess.cpp:253-267`), `CyclePort`,
  `WaitForAttachment`, `CreateRedirectorHandle` (an attempt of the retry loop),
  `DuplicateFailed`, `SetOwnerPid`, `AddRedirectRollBack`, `RollBackFindDevice`,
  `RollBackCyclePort`, `ReturnFromAddRedirect`: `ControlDevice.cpp:697-765`,
  `991-1026`, `1192-1230`.
- `CloseHandle`, `NotifyRedirectionRemovalStarted`, `CloserFindDevice`,
  `CloserCyclePort`, `RemoveRedirectFails`, `LookupRedirection`,
  `WaitForDetachment`, `RemoveEntry`:
  `RedirectorStrategy.cpp:629-640`, `ControlDevice.cpp:1028-1103`.
- `QueryDeviceRelations`, `DropRemovedDevices`, `NotifyRedirectionRemoved`,
  `RegisterNewChild`, `ApplyRedirectionPolicy`, `AddDevice`, `MakeAvailable`:
  `FilterDevice.cpp:244-461`, `586-682`, `Driver.cpp:104-133`,
  `RedirectorStrategy.cpp:39-61`.
- `RemoveStack` is the removal of a device object by PnP, which ends in
  `ContextCleanup`. `Plug` and `Unplug` are the bus. These, the outcome of a
  port cycle and the choice of an unused PDO are the external part of the model.

`Faults` names what may go wrong outside of the driver: a port cycle fails on a
device that is there (`cycle`), the copy of the bus relations fails (`relations`),
descriptors cannot be read, the filter cannot be
attached, the stack does not start, the redirector cannot be opened, its handle
cannot be duplicated, either wait times out, or the close runs in the context of
another process (`context`: `IRP_MJ_CLOSE` comes with the last reference to the
file object, whoever drops it, and `MatchProcess` looks at the current process).

Abstractions: a device is on one port and its identity does not change over a
port cycle; the identity stands for the pair of IDs the code compares. The first
pass of `DropRemovedDevices` and its notifications are two actions, because the
second runs after the lock of the list is gone. The verdict of the hide rules is
any verdict a rule for the device may give (`MayHide`).

Three ways the environment can hinder the protocol deserve a word:

- *The power IRP.* `AddRedirect` resets with `ForceD0`: a device that is not in D0 is
  first sent a power IRP, whose completion `DeviceAccess.cpp:266` awaits without a
  timeout and whose status it does not look at. `KeepsPower` are the devices whose
  lower drivers may keep that IRP forever; the control queue then stands still.
  `AddRedirectReturns` excepts just that.
- *The copy of the relations.* When the list of the relations cannot be copied,
  `QueryDeviceRelations` skips both the removal of
  old children and the registration of new ones (`FilterDevice.cpp:255-261`), and
  nobody asks again until the port changes: `invalidated` is consumed. The child then
  stays listed with a PDO that is gone (`Overlooked`), and the event of a detachment
  does not come.
- *The status of a reset.* `CloserCyclePort` lets a reset of a PDO that is gone fail
  with `STATUS_NO_SUCH_DEVICE`, after which the entry is deleted, or with any other
  status, on which `RemoveRedirect` returns and leaves the entry in the set
  (`ControlDevice.cpp:1049-1053`, `RemoveRedirectFails`).

The 120 seconds of `WaitForDetachment` pass only when PnP is done with the device
(`Settled`: no enumeration is under way and none is due) or, with the fault
"detachTimeout", at any time. `redirection_liveness` leaves that fault out: where PnP
keeps up, a close must not end by its timeout while the detachment is still to come.
`CloseReturns` says that a close returns at all; `ReturnedUnlessHindered` says what it
achieves: the redirection of a closed handle leaves the set unless the reset fails
or the copy of the relations failed when it was needed. The run also leaves out
"cycle" and "context": `GivenBack` needs ports that can be cycled, and its one client
closes its handles itself. `AddRedirectReturns` keeps the timeout of the wait for
the attachment, since the attachment may well never happen.

Bounds: one device, two clients (one where liveness is checked), two redirection
objects, one retry in place of 500, and four PDOs (three for liveness). Two
redirections let a new entry exist while the old object is still referenced; the
PDOs let the PDO the bus reports, the one of the child list, the one of an
enumeration under way and the one under an old redirector all differ. PDOs,
redirections and clients are symmetric in the safety run; symmetry is not used
for liveness. Threads of different devices share nothing but the set and the
sequential queue; an instance with two devices is out of TLC's reach, and the
theorems cover every number of them. Deadlock is checked in every run.

Fairness. `FairSpec` assumes that a thread of the driver that can go on does so (`CtlStep`,
`CloserStep`), that power IRPs are completed (`PowerRequestCompletion`) except for
devices in `KeepsPower`, that the PnP worker serves a port whose relations were
invalidated (`PnpStep` while not `Settled`; the bus driver invalidates them on every
change, and one answered query is all there is for a change), that Windows
removes a dead stack nothing is open on (`RemoveStack`), and that a device the
user does not unplug comes back after its port was cycled (`Plug`). These are weak:
each of the steps stays enabled until it is taken. `WaitForDetachment` is strongly fair:
the user may plug and unplug forever, which makes the port settled and unsettled in
turn, and the wait ends on the clock all the same. Nothing is assumed of clients: no
new `AddRedirect` need come, no handle need ever be closed, no fault need strike.

Findings:

1. **Success without the device** (`redirection_acquired`). An enumeration that is
   under way when `AddRedirect` adds its entry already attaches a redirector to
   the current PDO and sets the creation event. The reset that follows kills that
   PDO; `WaitForAttachment` returns at once and the handle is opened on the dying
   stack. `m_RedirectorDevice` is set, so the new PDO is not redirected.
2. **A redirection nobody can remove** (`redirection_not_returned`). When the reset
   in `RemoveRedirect` fails other than by a missing device, the entry stays in
   the set, marked as being removed, with no handle left to close.

Theorems. `RedirectionProofs` proves, from `RedirectionAssumption` alone (the null values are
no devices, clients, PDOs or redirections; `MaxRetries` is a natural number), for
any number of devices, clients, PDOs and retries and any set of faults:

- `Invariance`: `Spec => []IInv`;
- `TypeCorrect`, `ReferencesCorrect`, `DetachmentNotLost`, `RedirectorNotNull`:
  `TypeOK`, `RefCountsExact`, `NoLostDetachment` and `NoNullRedirector` hold in
  every reachable state.

The argument of `IInv`: while `AddRedirect` works on its entry, the entry has no
owner, so no close matches it and nobody else can delete it (`CtlInv`). A filter
with an open handle, or with a close that has not looked yet, is the redirector of
its device's entry, and that entry is either owned or the one the control queue
is working on (`HandleInv`). Once a close has matched, the entry is marked and no
other close can match it (`CloserInv`), so lookups by identity find the same object
until that close deletes it. A redirector sits over a PDO of the device its
entry is for (`PlaceInv`), and PDOs are never shared between devices (`PdosInv`).
The worker's progress determines how `child` and its snapshot relate (`PnpInv`), and
the filter it is about to start is nobody's redirector yet (`FreshInv`), which is
what keeps the count of references to filters exact. `NoNullRedirector` alone is not
inductive: that `m_RedirectorDevice` stays set during the retry loop rests on the
owner being unset until the loop is left.

`DevicesAreGivenBack` proves `GivenBack` where a port can always be cycled, that is
for every set of faults without "cycle"; with it the property is false, since a reset
that fails leaves the redirector where it is. While a rollback with a reset, or a
close, is on its way, no redirector can come to its device: the entry is deleted or
marked as being removed, so `ShouldRedirect` is false (`UnderRedirectorStep`). A
redirector that is there sits on a PDO that is listed (`UnderRedirectorListed`, from
`FreshInv`), so the reset looks up that PDO and takes it off the bus; if the cycle
fails, the PDO was off the bus already. `RollBackInv` says so for the control queue,
`ReturningInv` for the closes.

`ImplementsOwnership` is `Spec => OwnershipSpec`. `DeviceOwnership` names the actor of
each step: `Grant(d, pid)` makes a process the owner, `BeginReturn(d, pid)` is for that
process only (`MatchProcess`, `UsbDkUtil.h:422`), `Return(d)` is a step of the close
that began the return (`closing`), and after `GiveUp(d)`, when that close ended
without having returned the device, nobody can. The abstract state of a device
follows from its entry and the closes in progress; with `IInv` every action is shown to
be an abstract step of its device or to leave its abstract state alone.

There is one lemma per action; `ReleaseIInv`, `DeleteEntryEffect`, `CtlMoveIInv` and
`CloserMoveIInv` carry what several of them share.

Model-checked only: `AddRedirectReturns`, `CloseReturns` and `ReturnedUnlessHindered`,
which are liveness.

### 2.2 HideRules

State: `rules[s]` is one of the sets `m_HideRules` ("dynamic"),
`m_PersistentHideRules`, `m_ExtHideRules` and `m_PersistentExtHideRules`;
`verdict[d]` the call of `ShouldHideDevice` for a device with the set it is about
to visit; `hiderOpen` whether a client has the exclusive hider device; `keys` the
subkeys of the registry key in the order of `ZwEnumerateKey`, `content` the rule
of each; `reload[t]` the call of `ReloadPersistentHideRules` in `Register` and in
the control queue, with its index and the name and rule it holds.

| Actions | Code |
|---|---|
| `ShouldHideDevice`, `VisitSet`, `ReturnVerdict` | `ControlDevice.cpp:317-376`; one visit is one critical section of `CWdmSet::ForEach` |
| `OpenHider`, `AddHideRule`, `ClearByClient`, `CloseHider` | `HiderDevice.cpp:44-148`, `ControlDevice.cpp:799-803`, `1271-1282` |
| `ReloadClear`, `ReloadClearExt`, `OpenRulesKey`, `QuerySubkey`, `ReadRule`, `AddPersistentHideRule` | `ControlDevice.cpp:805-989`, `1284-1295`, `Registry.h:34-57` |
| `UpdateRegistryParameters` | `ControlDevice.cpp:137-142` |
| `CreateKey`, `CompleteKey`, `DeleteKey` | what the helper library does to the registry, `RuleManager.cpp:97-147`; `RuleTools` has its calls and `ToolsKeepToHideRules` shows that they do no more |

Abstractions: a rule is a record; the class of a rule is compared with the class
of the device or, for determinative types, is one of the masks that share a bit
with the device's mask. The values of a key are read one by one while a writer
adds them one by one, the class last on both sides, so a read that succeeds is a
read of the complete rule: `ReadRule` is one step. The order of the rules in a set
is left out, which `HideVisitor` justifies: it runs the loop of `CWdmList` with
the early exit of a do-not-hide rule over every order of every set TLC meets.

Bounds: one device, three or four rules, one key, overlapping reloads of one key.
Verdicts of different devices share only the sets. One rule of either kind and
type is enough for every way one rule overrules another; `hide_verdicts` has no
default do-not-hide rule to keep its space small; the theorems cover it. The
reload over several keys, and what other processes do to them meanwhile, is the
subject of `RuleTools`. Nothing here is a liveness property: a reload ends when
the enumeration does.

Findings:

1. **Extended rules outlive their client** (`hide_rules_not_cleared`):
   `ClearHideRules` clears the dynamic set and not the extended one.
2. **Do-not-hide is terminal within its set only.** `Hider.txt:16` and the comment
   at `ControlDevice.h:135` ("All do-not-hide rules are terminal") call it terminal,
   but a set visited later may hide the device again (`ControlDevice.cpp:352`).
   `DoNotHideIsTerminal` of `HideRulesHistory` states these words where they leave no
   doubt, for a do-not-hide rule that is in the first set throughout. It is false of
   the code and not among the runs: with the constants of `HideVerdicts.cfg`, but
   `Rules <- MatchingRules`, and `INVARIANT DoNotHideIsTerminal` TLC reports a trace of
   nine states, in which `KeepStorage` is in the dynamic set and `HideMask` in the
   extended one, and the device is hidden. `HiddenWhenSteady` therefore leaves open
   which of two sets has the last word: it claims that a steady hide rule hides
   its devices unless a matching do-not-hide rule, of whatever set, was seen.

Theorems. `HideRulesProofs` proves `TypeCorrect` (`Spec => []TypeOK`), `VerdictsHaveReasons`
(`HistorySpec => []HiddenForAReason`) and `SteadyRulesHide` (`HistorySpec =>
[]HiddenWhenSteady`), from `HideRulesAssumption`: `Partial` is no rule, `NoKey` no
name, and the registry starts with sequences of names. The
invariant `PassInv` says, for each place of the pass, what the sets behind it allow
to conclude, and that the history brackets the rules: `steady` is contained in
`rules` and `rules` in `seen` while the pass is under way. `seen` only grows and
`steady` only shrinks, so a conclusion once drawn stays true whatever changes the
rules; each visit adds the conclusion for its set.

`OrderDoesNotMatter` proves `VisitIsForEach`, for sets of any size. The loop is a
recursive function on the positions of the list: `Loops` shows, from the least
element of a set of numbers, that such a function exists and that what each of its
steps preserves holds at every position. The loop goes on as long as it has met no
do-not-hide rule that matches, and has hidden the device if it met a rule that
matches (`VisitedFacts`); a list of all rules of a set meets every one of them
(`ListOfAll`: an injection of a finite set into one of the same size is onto). The
sets stay finite, since each step adds one rule (`FiniteRules`).

### 2.3 RuleTools

The processes that call the persistent-rule functions of the helper library
(`UsbDkHelper.cpp:357-429`, `RuleManager.cpp`, `RegAccess.cpp`) beside the reloads
of `HideRules`. `tool[p]` is the call of a process with the key its loop has
reached, the value it writes next and the names it has still to delete; `written`
holds the values each key has, `keys` and `content` are those of `HideRules`. One
registry access is one action: `FindRule` and `CompareRule` are the loop of
`CRulesManager::FindRule`, `AddKey` and `WriteDword` add a rule value by value,
`DeleteRule`, `ListKeys` and `DeleteEach` delete, `OpenDriver`, `Reloaded` and
`NeedReboot` ask the driver for the reload. A key whose values are read is read in
one step, since its values never change once written. `RegCreateKeyEx` creates a
key again that was deleted between two writes, with the values still to come.

The library does not tell a failure from the end: an enumeration that fails ends the
loop as if there were no more keys (`EnumerationFails`, `ListingFails`,
`RegAccess.cpp:296-315`, `626-636`), and a key that cannot be read is passed over like
one that lacks a value (`ReadFails`, `RuleManager.cpp:70-86`). A call that misread the
registry in this way (`Misreads`) may write a rule that is there already, or
report the deletion of one it has not found.

The history variables bracket a reload and a call. `registered` is what was complete
in the registry at some time since the reload began, `kept` what was so all the
time, and `undisturbed` says that since then no key was deleted and no call of the
driver failed. `contested` are the rules that were added while another process added
them too or deleted a key, or by a call that misread the registry; `calm[p]` says
that no other process disturbed the call of `p` and, if it deletes, that it did not
misread the registry.

- `DeletedRulesLeave`: a rule whose deletion was over before the first of a group of
  overlapping reloads began is not in force after it. The reload at the end of
  `Register` overlaps with one a client asks for, because `FinishInitializing`
  precedes it ("early" in `Faults`): a rule deleted between the two may stay.
- `KeptRulesAreLoaded`: rules that stay are in force, if the reload was undisturbed.
- `NoDuplicates`: only two concurrent additions, a deletion during an addition or an
  addition that misread the registry put a rule into it twice (`contested`).
- `AddedRuleIsInForce`, `DeletedIsGone`: what the success of a call means as long as
  it is `calm`. The first needs the last reload to be undisturbed as well:
  `ReloadPersistentHideRules` does not look at the status of `AddPersistentHideRule`
  (`ControlDevice.cpp:978`), so a call may report success for a rule the driver could
  not read or had no memory for, and nothing tells the client.

Finding (`persistent_rules_skipped`): a reload that enumerates by index while a
key is deleted leaves out a rule nobody deleted (`Registry.h:38`); the run has no
fault and two processes.

Bounds: two processes of one call each, one rule they add and delete beside another
one that may be there already, two key names (GUIDs, symmetric, enumerated in any
order; three in `persistent_rules_skipped`), two values of a key instead of six. Two
keys are what a duplicate, a key skipped by an enumeration and a key left by a
deletion take; two values are enough for a key to be incomplete, or to be created
again in the middle. The processes exit, so the system may stop.

Theorems. `RuleToolsProofs` proves all six properties of the run for any number of
processes, keys, rules and values of a key, from `RuleToolsAssumption` (a rule has
values, and calls are calls) and `HideRulesAssumption`. A step is restated first,
field by field (`Transition`, `ReloadTransition`), so that each invariant is shown
from those facts:

- `Core`: the types; the keys in the list differ; a key that holds a rule is in the
  list with all values written; two calls never write the same key, and each writes
  its values in order. A key that is created moves the others onward in the
  enumeration (`InsertEffect`), a deletion may move them back (`RemoveEffect`).
- `RegisteredInv`: a set that no reload has still to empty holds registered rules
  only, and so does what a reload has read. It gives `DeletedRulesLeave`.
- `LoadedInv`: a rule that stayed, while nothing disturbed the reload, is in its set, or
  some reload has still to empty the set, holds the rule, or has its key ahead of it. It
  gives `KeptRulesAreLoaded`, and with `AddingInv` (the key a call adds is complete
  when the call asks for the reload) `AddedRuleIsInForce`.
- `DuplicatesInv`: unless its rule is contested, a call that adds has no key with the
  rule behind it in its loop. It gives `NoDuplicates`; the same fact about a calm call
  that deletes is `DeletingInv`, and `ClearingInv` says of `DeleteAllRules` that the
  keys in the list are those it has noted or has still to enumerate. They give
  `DeletedIsGone`.

All of them hold for every set of faults: what a failing call may do to a property is
part of its statement. TLC checked the invariants before they were proved.

`ToolsKeepToHideRules` (`ToolsSpec => Spec`) joins the two modules: `HideRules` lets
other processes create, complete and delete keys as they like, and the calls of the
library do nothing else, so that what `HideRulesProofs` shows holds beside them. It
assumes that a rule has more than one value (the code writes six), since a write
that creates a key again must not complete it at once; `ValuesAreInKeys` (a key that
is gone has no values) says that it then lacks the others. TLC found the step that an
earlier `CreateKey` did not allow: a writer that creates its deleted key again while
a reload has got its name.

Visible in the model and in no property: a failed addition leaves a key with some
values, which is never loaded and only `DeleteAllRules` removes; `UsbDk_DeleteAllPersistentRules` reloads also when a key could not be
deleted (`UsbDkHelper.cpp:412`).

### 2.4 FilterDevices

Filter devices come one after another (`UsbDkEvtDeviceAdd`; PnP serialises the
calls for a driver), and go in any thread with their last reference. `filter[f]` is
the thread that creates or destroys a filter with its strategy, the control device
the strategy refers to and its serial number; `refCount` and `obj` are the members
of `CRefCountingHolder`; `live` are the control devices that exist, `hubs[o]` and
`hidden[o]` their lists, `reported[f]` the number PnP has last been told.

| Actions | Code |
|---|---|
| `AddDevice`, `SelectStrategy`, `NullStrategyCreated`, `ReferenceFailed` | `FilterDevice.cpp:515-574`, `FilterStrategy.cpp:59-78` |
| `Reference`, `CreateControl`, `RegisterControl` | `ControlDevice.cpp:498-555`, `641-695`, `Alloc.h:207-217` |
| `Release`, `DeleteControl` | `Alloc.h:219-225`, `ControlDevice.cpp:488-496`; the decrement and the deletion are two steps |
| `CreateHub`, `CreateHider` | `FilterDevice.cpp:105-115`, `HiderStrategy.cpp:33-44`, `RedirectorStrategy.cpp:63-84`, `ControlDevice.cpp:274-309` |
| `QueryId`, `Remove`, `Destroy` | `HiderStrategy.cpp:46-253`, `FilterDevice.h:179-189` |
| `ReloadDriver` | `Driver.cpp:34-102` |

Two behaviours of the code end in a crash, and the model has them; the history
variable `spoiled` marks them and the properties except what follows:

- `Release` decrements and then deletes what `m_Obj` points to (`Alloc.h:219-225`). A
  device added in between finds the count zero and creates a new control device,
  which is the one that is deleted.
- `m_Obj` is never cleared. When a control device cannot be created after another
  one was deleted, the release of the failed reference deletes the old one again.
  One `AddDevice` is enough for that: the null strategy drops the only reference
  before the strategy proper takes its own (`FilterDevice.cpp:515-539`).

Without these, `CountIsExact`, `HoldersAreServed` and `NoDanglingFilters` say that the
singleton is created and deleted once and that its lists name no filter that is
gone, `UniqueInstanceIds` and `SerialsAreReused` what the comment at
`RegisterHiddenDevice` promises of serial numbers.

Bounds: three filters (four pass, too, in two minutes), two places for control
devices, so that a new one can be told from an old one, symmetry of both. A crash
stops the system.

Left out: a second reference while the first one still creates the control device
would get a null pointer (`ControlDevice.cpp:643-650`); it needs two concurrent
calls of `AddDevice`. The WDF device of the control device is not an object of its
own: when the hider device cannot be created (`ControlDevice.cpp:520-530`), the
`CUsbDkControlDevice` is deleted and the cleanup of the WDF device deletes it again
later. A `Create` that fails destroys the filter before it has a strategy
(`AddDevice`), except at `FilterDevice.cpp:564-568`, which returns before the WDF device
knows the filter, whose cleanup then dereferences null; that takes a stack without a
lower device and is left out. A
redirector whose data queue could not be created is attached all the same if its
configuration queue could (`RedirectorStrategy.cpp:72-83`); the model has it, no
list can tell. Without memory the ID of a hidden device stays as it was
(`HiderStrategy.cpp:85`); the model has that as well. The reference the close
callback of the hider device takes (`HiderDevice.cpp:57-67`) is left out: the
hider device exists only as long as the control device.

Theorems. `FilterDevicesProofs` proves `TypeOK` and the five properties above for any
finite set of filters and any set of control devices, from `FilterDevicesAssumption`:
`TypeCorrect`, `ReferencesAreCounted` (`CountIsExact`), `ReferencesAreGood`
(`HoldersAreServed`), `ListsAreGood` (`NoDanglingFilters`), `InstanceIdsAreUnique`
(`UniqueInstanceIds`) and `SerialsStaySmall` (`SerialsAreReused`). `CountIsExact` is not
inductive: that the first reference finds no control device, and every later one
finds the one that serves all, rests on there being one `AddDevice` at a time
(`AddingInv`), so that nobody refers to the control device while it is created, and
on no reference being taken between the last decrement and the deletion. That
part, `Sound`, is claimed only until the holder is spoiled; what else is needed of
the fields of a filter (`ShapeInv`),
of the lists (`ListsInv`) and of the numbers PnP knows (`ReportedInv`) holds after
that, too, and so does `CountInv`: the count never falls below the number of
references, which keeps it a natural number. `SerialsAreReused` is the pigeonhole
argument in `NextSerialBound`: all numbers below the smallest free one are taken by
different devices of the list, so it is less than the length of the list with the
new device in it.

### 2.5 PipeTransfers

The two queues of a redirector (`RedirectorStrategy.cpp`), the USB target
(`UsbTarget.*`) and the objects that own requests (`WdfRequest.*`). `req[r]` is what
a request asks for, where it is and whether a transfer was aborted; `thread[r]` the
handler of a read or a write, with the interface and the pipe it has reached and
whether its `CWdfRequest` still holds the request; `pipes` and `selected` the pipes
the driver has for an interface and the setting the device has; `config` the thread
of the sequential queue.

| Actions | Code |
|---|---|
| `Ask` with `IoInCallerContext` | `RedirectorStrategy.cpp:117-297`, `RedirectorAccess.cpp:28-76`, `UsbDkHelper.cpp:192-278` |
| `IoDeviceControl` with `StartTransfer`, `FindPipe`, `Submit`, `Return` | `RedirectorStrategy.cpp:313-591`, `UsbTarget.h:117-215`, `UsbTarget.cpp:132-209`, `WdfRequest.cpp:64-80` |
| `CompleteTransferRequest` | `RedirectorStrategy.cpp:299-311` |
| `IoDeviceControlConfig`, `AbortPipe`, `ResetPipe`, `ResetDevice`, `ForwardRequest` | `RedirectorStrategy.cpp:391-437`, `UsbTarget.cpp:72-91`, `211-229`, `388-434` |
| `StopDataQueue`, `SetInterfaceAltSetting`, `SetAltSetting`, `StartDataQueue` | `RedirectorStrategy.cpp:419-427`, `WdfDevice.h:175-181`, `UsbTarget.cpp:31-70`, `311-322` |

A change of the setting begins with `CWdfQueue::StopSync`, which in spite of its name
is `WdfIoQueueDrain(m_Queue, nullptr, nullptr)` (`WdfDevice.h:180-181`). It returns at
once. The queue completes new requests with `STATUS_INVALID_DEVICE_STATE` until it is
started again, still delivers those it has, and nobody waits for those it has
delivered. `dataQueue` is therefore "started" or "draining", `Ask` fails while it drains,
and transfers are searched, sent and completed while the setting changes.
`WdfUsbInterfaceSelectSetting` (`SetInterfaceAltSetting`) cancels the transfers on the
pipes of the old setting and deletes those pipes; until `SetAltSetting` has the
exclusive lock, the array of the driver still names them (`PipesDeleted(i)`), and a
handler in one of them has its request refused or uses an object that is gone
(`Submit`).

`Faults` are the calls that may fail: the framework skips the preprocessing for lack
of memory, buffers cannot be locked or parameters are wrong, requests cannot be
enqueued, forwarded or sent, input cannot be fetched, an abort fails, the setting
is refused, the array of pipes cannot be allocated.

- `OneOwner`: the target may complete a request before its handler has detached it.
- `PipeStaysInUse`: a handler may be in a pipe when the setting changes; the lock is
  what keeps the array until it leaves, and only in the window just described is its
  pipe not one of the setting in force.
- `PipesFollowDevice`: the success of a change of the setting means that both sides
  have it.
- `RequestsEnd`: every request is completed, but for a transfer on an endpoint that
  never answers and that no abort, reset or change of the setting has ended.
- `DrainEnds`: on every path of a change the queue is started again; a silent endpoint
  cannot keep it from that, since no handler waits for an answer under the lock.

When the array cannot be allocated, `m_NumPipes` is already set
(`UsbTarget.cpp:52-58`) and the next search dereferences null: the model stops in
"crashed", as it does after the use of a deleted pipe, and the two liveness
properties except that.

Fairness, all of it weak: a handler and the thread of the sequential queue go on; the
parallel queue delivers what it has, draining or not; the target answers a transfer
unless the endpoint is silent and nobody aborted it. Nothing is assumed of clients.

Bounds: three requests, one of which may be anything while the others are mostly
transfers, two interfaces, one of them with two settings, one pipe for each, one
silent endpoint. Two interfaces are what the search of a pipe and the reset of the
device loop over; a third request is needed for a transfer that runs, a change
beside it, and an abort behind that.

Theorems. `PipeTransfersProofs` proves, from `PipeTransfersAssumption` and for any
requests, interfaces, settings, endpoints and faults, `TypeCorrect`,
`RequestsHaveOneOwner` (`OneOwner`), `PipesStayInUse` (`PipeStaysInUse`), `PipesAgree`
(`PipesFollowDevice`) and `DrainsDuringChanges`, that the parallel queue refuses
requests only during a change. The parts of `IInv`: `OpsInv` and `QueueInv` say
which requests are where; `HandlerInv` and `LockInv` keep a handler, also one that has
been overtaken by the completion of its request, in a pipe of the array it found,
which the exclusive lock does not let anybody replace; `ConfigInv` and `ChangeInv` say
how far the sequential thread has come and what it has done to the setting. `Agreement`
is `PipesFollowDevice` between requests: the pipes are those of the setting in force,
unless a change has set the device and not yet the driver. `RequestsEnd` and
`DrainEnds` are model-checked only.

### 2.6 DeviceList

`UsbDk_GetDevicesList` asks for the number of devices and then for the devices,
while hubs register and children come and go (`DriverAccess.cpp:29-57`,
`ControlDevice.cpp:144-169`, `261-272`, `378-402`); `UsbDk_StartRedirect` and
`UsbDk_StopRedirect` use the control device in between, which is exclusive, so that
a call finds it busy and fails. Each walk goes over the hubs in any order, hub by
hub: `ForEach` keeps hubs from coming and going, each hub has a lock of its own for
its children.

The loop repeats on `ERROR_MORE_DATA` (`DriverAccess.cpp:33-53`, `DriverFile.cpp:69`),
but the driver answers `STATUS_BUFFER_TOO_SMALL`, which arrives as
`ERROR_INSUFFICIENT_BUFFER`: the repetition never happens and the call fails when a
device came after the count. `Win32Error` has that translation.
`ListResultIsTrue` says what a list contains and that the call fails for no other
reason; `OpenOnlyInCalls` that no way out of a call leaves the device open;
`CallsReturn` that every call ends, under weak fairness of the thread that makes it.
`UsbDk_StopRedirect` fails, and leaves the redirector open, while another call has
the control device open (`UsbDkHelper.cpp:180`).

Any request of the driver may fail (`RequestFails`). When the object of a new handle
cannot be allocated (`UsbDkHelper.cpp:162`), the process has a handle that no call knows:
`held` keeps it, with `known` false, until the process exits.

Bounds: one client that lists, one that redirects and holds one handle at a time
(`MaxHandles`), two hubs, two devices that may move between them.

Theorems. `DeviceListProofs` proves `TypeCorrect`, `ListIsTrue` (`ListResultIsTrue`) and
`DriverClosed` (`OpenOnlyInCalls`) for any number of clients and any finite sets of
hubs and devices (`DeviceListAssumption`). The invariant says of each walk what it
has seen and what is still to come: a device that stays is in the list or on a hub
that is left (`EnumerateInv`); unless a device came after the count began, what
was counted covers the devices on the hubs behind the walk (`CountInv`), all devices
between the walks (`AllocateInv`), and what the list will have at its end. A removal
makes these sets smaller and an arrival is excepted, so no step of the bus breaks
them. `CallsReturn` is model-checked only.

### 2.7 Installation

State: the driver file, the service (present, or marked for deletion while the
driver is loaded), `UpperFilters` of the class, what each host controller runs with,
what the machine makes of the driver, and the installing process with the steps of
`Install`, `Uninstall` and the rollback in `UsbDk_InstallDriver`. Every call fails
(`CallFails`) or does its work; the process may be killed, the machine restarted and
other programs may edit the list between any two steps.

- `ListedDriverIsInstalled`: a listed filter that cannot be loaded takes all USB
  devices away; it is excepted after a removal that failed to write the list and
  went on (`Installer.cpp:216-266`, `leftListed`).
- `ResultIsTrue`, `CleanInstallSucceeds`: what a success means, and that an
  installation by the MSI helper gets over everything earlier ones left. A success
  without a reboot means that every controller runs with the driver, unless
  `ResetDeviceByClass` did not notice that one was not restarted (`overlooked`): flags
  that cannot be read count as "no reboot needed" (`DeviceMgr.cpp:70`), and an
  enumeration that fails ends the loop as if it were over (`DeviceMgr.cpp:39`).
- `OtherFiltersKept`: a write of the list keeps the filters of other programs it has
  read. One added between the read and the write is lost: the code reads and writes
  without a lock.

As in the code, the test of the Windows build compares the number of elements read
with `ERROR_SUCCESS` (`Installer.cpp:457`), so that test signing is never attempted
where the build can be read, while `README` and `Documentation/DriverSigning.txt:59`
say it is; a blocked driver is let through (`Installer.cpp:380`); an aborted
installation leaves the driver file behind.

Bounds: two controllers, so that a reset may succeed for one of them only, two other
filters, both symmetric. One installer at a time: nothing in the code excludes a
second one.

Theorems. `InstallationProofs` proves `InstallationTypes`, `ListedDriver`, `TrueResults`,
`CleanInstallation` and `OthersFiltersStay` (the five properties of the run) for any
number of controllers and any finite set of other filters (`InstallationAssumption`;
UsbDk is not one of them). None of the properties is inductive: what a step may do
depends on what the steps before it have put on the machine. `ProgressInv` relates the
step the process has reached to the file, the service and the list: after the file is
copied and until the list is written UsbDk is not listed, unless an earlier removal
could not write the list; a service is present from its creation on. `CleanInv` says
the same of an installation by the MSI helper during which nothing has failed: its
removal has left no file and no service, and no controller that runs with the driver
when the service is deleted. `TrueResults` excepts `overlooked` like the property.
No filter is listed twice (`TypeOK`), so what is removed
from the list is gone; `Loops` carries the argument over the elements of the list.

## 3. Plan

Modelled so far: every component of 1.1 but the device classes. Theorems for every
module that has runs, and for all of their safety and action properties. Left:

1. The safety half of the liveness properties, as invariants that can be proved:
   whenever a call waits (for the lock of an interface, for the close inside a failed
   duplication, for an event), some other actor is at a place whose guard is met. That
   every such step is then taken stays with TLC.
2. The life of the control device: the WDF device object in `FilterDevices`.

## 4. Not modelled

- Device classes (`FilterDevice.cpp:684-800`): tables over a descriptor that is read
  once, without state.
- Formatting, tracing, the texts patched into IRPs, the layout of URBs and
  isochronous packets, the parsing of arguments. The controller takes invalid values
  of a rule for valid ones (`UsbDkController.cpp:214`) and compares a pointer with a
  rule type (`:255`, `:271`); that is about text.
- The request for a configuration descriptor, which is read from a cache, its length
  first (`DriverAccess.cpp:69-84`).
- Build and packaging files.
