----------------------------- MODULE FilterDevices -----------------------------
(***************************************************************************)
(* The life of the filter devices and of the control device they share.    *)
(* PnP adds filter devices one after another (UsbDkEvtDeviceAdd); the last *)
(* reference to one may go in any thread, while another one is added. Each *)
(* device first takes a null strategy, which refers to the control device, *)
(* to find out what it is, then lets it go and takes its own: hub, hider   *)
(* or redirector. The first reference creates the control device, the last *)
(* release deletes it (CRefCountingHolder), and its lists hold the hubs    *)
(* and the hidden devices. A hidden device shows itself to PnP under an    *)
(* instance ID made of a serial number that no other hidden device has.    *)
(* Deleting an object twice, or using a deleted one, stops the system.     *)
(***************************************************************************)
EXTENDS Naturals, FiniteSets

CONSTANTS
    Filters,  \* devices PnP may have UsbDk filter
    Objects,  \* places for CUsbDkControlDevice objects in the pool
    NullPtr,  \* nullptr
    NoSerial

ASSUME FilterDevicesAssumption ==
    /\ NullPtr \notin Objects /\ NoSerial \notin Nat
    /\ IsFiniteSet(Filters)

VARIABLES
    filter,   \* a filter device and the thread that works on it
    refCount, \* CRefCountingHolder::m_RefCount
    obj,      \* CRefCountingHolder::m_Obj
    live,     \* the control devices that exist
    hubs,     \* m_FilterDevices of a control device
    hidden,   \* m_HiddenDevices of a control device
    reported, \* the serial number in the instance ID PnP knows a device by
    crashed,
    \* history
    peak,     \* most devices that were hidden at a time since the driver started
    spoiled   \* the holder was referred to while a release had reached zero, or
              \* a control device could not be created after one was deleted

vars == <<filter, refCount, obj, live, hubs, hidden, reported, crashed, peak, spoiled>>

Strategies == {"null", "hub", "hider", "redirector"}

Hiding == {"hider", "redirector"}

FilterPc == {"gone", "refer", "create", "register", "referred", "select", "attached",
             "destroy", "release", "delete"}

\* next is where the thread goes on after a release; adding: AddDevice has not
\* returned.
FilterType == [pc: FilterPc, next: FilterPc, strategy: Strategies, adding: BOOLEAN,
               control: Objects \cup {NullPtr}, serial: Nat \cup {NoSerial}]

Gone == [pc |-> "gone", next |-> "gone", strategy |-> "null", adding |-> FALSE,
         control |-> NullPtr, serial |-> NoSerial]

Init ==
    /\ filter = [f \in Filters |-> Gone]
    /\ refCount = 0 /\ obj = NullPtr /\ live = {}
    /\ hubs = [o \in Objects |-> {}] /\ hidden = [o \in Objects |-> {}]
    /\ reported = [f \in Filters |-> NoSerial]
    /\ crashed = FALSE /\ peak = 0 /\ spoiled = FALSE

At(f, pc) == filter[f].pc = pc

Set(f, new) == filter' = [filter EXCEPT ![f] = new]

Goto(f, pc) == Set(f, [filter[f] EXCEPT !.pc = pc])

HolderFrame == UNCHANGED <<refCount, obj, live, spoiled>>

ListsFrame == UNCHANGED <<hubs, hidden, peak>>

Crash == crashed' = TRUE

Lives == UNCHANGED crashed

-----------------------------------------------------------------------------
(* CUsbDkControlDevice::Reference and Release.                             *)

\* UsbDkEvtDeviceAdd: a filter device is created and given the null strategy;
\* when Create fails it is destroyed without a strategy.
AddDevice(f) ==
    /\ At(f, "gone") /\ \A g \in Filters : ~filter[g].adding
    /\ \E pc \in {"refer", "destroy"} : Set(f, [Gone EXCEPT !.pc = pc, !.adding = TRUE])
    /\ HolderFrame /\ ListsFrame /\ Lives /\ UNCHANGED reported

\* InitialAddRef: whoever makes the first reference creates the control device.
Reference(f) ==
    /\ At(f, "refer")
    /\ refCount' = refCount + 1
    /\ IF refCount = 0
       THEN Goto(f, "create")
       ELSE Set(f, [filter[f] EXCEPT !.pc = "referred", !.control = obj])
    /\ spoiled' = (spoiled \/ \E g \in Filters : At(g, "delete"))
    /\ ListsFrame /\ Lives /\ UNCHANGED <<obj, live, reported>>

\* The control device and its hider device; when that fails the reference is
\* released and what m_Obj still points to is deleted.
CreateControl(f) ==
    /\ At(f, "create")
    /\ \/ \E o \in Objects \ live :
             /\ obj' = o /\ live' = live \cup {o}
             /\ hubs' = [hubs EXCEPT ![o] = {}] /\ hidden' = [hidden EXCEPT ![o] = {}]
             /\ Goto(f, "register")
             /\ UNCHANGED spoiled
       \/ /\ Set(f, [filter[f] EXCEPT !.pc = "release", !.next = "referred"])
          /\ spoiled' = (spoiled \/ obj # NullPtr)
          /\ UNCHANGED <<obj, live, hubs, hidden>>
    /\ Lives /\ UNCHANGED <<refCount, reported, peak>>

\* Its link and its queue; when that fails the reference is released.
RegisterControl(f) ==
    /\ At(f, "register")
    /\ \/ Set(f, [filter[f] EXCEPT !.pc = "referred", !.control = obj])
       \/ Set(f, [filter[f] EXCEPT !.pc = "release", !.next = "referred"])
    /\ HolderFrame /\ ListsFrame /\ Lives /\ UNCHANGED reported

Continue(f) ==
    Set(f, IF filter[f].next = "gone" THEN Gone
           ELSE [filter[f] EXCEPT !.pc = filter[f].next, !.next = "gone"])

\* Mutant: every release deletes the control device.
Release_Deletes(f) ==
    /\ At(f, "release")
    /\ refCount' = refCount - 1
    /\ Goto(f, "delete")
    /\ ListsFrame /\ Lives /\ UNCHANGED <<obj, live, spoiled, reported>>

\* The decrement of Release; what m_Obj points to is read after it.
Release(f) ==
    /\ At(f, "release")
    /\ refCount' = refCount - 1
    /\ IF refCount = 1 THEN Goto(f, "delete") ELSE Continue(f)
    /\ ListsFrame /\ Lives /\ UNCHANGED <<obj, live, spoiled, reported>>

\* m_Obj keeps the pointer to the deleted object.
DeleteControl(f) ==
    /\ At(f, "delete")
    /\ live' = live \ {obj}
    /\ crashed' = (obj # NullPtr /\ obj \notin live)
    /\ Continue(f)
    /\ ListsFrame /\ UNCHANGED <<refCount, obj, spoiled, reported>>

-----------------------------------------------------------------------------
(* DefineStrategy.                                                         *)

\* Create of a strategy fails without a control device.
ReferenceFailed(f) ==
    /\ At(f, "referred") /\ filter[f].control = NullPtr
    /\ Set(f, [filter[f] EXCEPT !.pc = "destroy"])
    /\ HolderFrame /\ ListsFrame /\ Lives /\ UNCHANGED reported

NullStrategyCreated(f) ==
    /\ At(f, "referred") /\ filter[f].control # NullPtr /\ filter[f].strategy = "null"
    /\ Goto(f, "select")
    /\ HolderFrame /\ ListsFrame /\ Lives /\ UNCHANGED reported

\* Mutant: the null strategy is not deleted.
SelectStrategy_KeepsNull(f) ==
    /\ At(f, "select")
    /\ \/ \E s \in Strategies \ {"null"} :
             Set(f, [filter[f] EXCEPT !.pc = "refer", !.strategy = s, !.control = NullPtr])
       \/ Goto(f, "destroy")
    /\ HolderFrame /\ ListsFrame /\ Lives /\ UNCHANGED reported

\* The strategy follows from the IDs of the device, its cached descriptor, the
\* redirections and the hide rules; without one the device is not filtered. The
\* null strategy is deleted before the new one is created.
SelectStrategy(f) ==
    /\ At(f, "select")
    /\ \/ \E s \in Strategies \ {"null"} :
             Set(f, [filter[f] EXCEPT !.pc = "release", !.next = "refer",
                                      !.strategy = s, !.control = NullPtr])
       \/ Goto(f, "destroy")
    /\ IF filter[f].control \in live THEN Lives ELSE Crash
    /\ HolderFrame /\ ListsFrame /\ UNCHANGED reported

CreateHub(f) ==
    LET o == filter[f].control
    IN /\ At(f, "referred") /\ o # NullPtr /\ filter[f].strategy = "hub"
       /\ Set(f, [filter[f] EXCEPT !.pc = "attached", !.adding = FALSE])
       /\ hubs' = [hubs EXCEPT ![o] = @ \cup {f}]
       /\ IF o \in live THEN Lives ELSE Crash
       /\ HolderFrame /\ UNCHANGED <<hidden, peak, reported>>

Serials(o) == {filter[g].serial : g \in hidden[o]}

\* Mutant: the number of hidden devices is the next serial number.
IsNextSerial_Count(o, n) == n = Cardinality(hidden[o])

\* Mutant: one more than the largest serial number.
IsNextSerial_Largest(o, n) ==
    /\ \A m \in Serials(o) : m < n
    /\ n = 0 \/ n - 1 \in Serials(o)

\* The smallest number no hidden device has.
IsNextSerial(o, n) == n \notin Serials(o) /\ \A m \in 0 .. n : m \in Serials(o) \/ m = n

\* Mutant: the serial number is chosen but not given to the device.
CreateHider_NoNumber(f) ==
    LET o == filter[f].control
    IN /\ At(f, "referred") /\ o # NullPtr /\ filter[f].strategy \in Hiding
       /\ \E n \in 0 .. Cardinality(Filters) : \E pc \in {"attached", "destroy"} :
             /\ IsNextSerial(o, n)
             /\ pc = "destroy" => filter[f].strategy = "redirector"
             /\ Set(f, [filter[f] EXCEPT !.pc = pc, !.adding = (pc = "destroy")])
       /\ hidden' = [hidden EXCEPT ![o] = @ \cup {f}]
       /\ peak' = IF Cardinality(hidden'[o]) > peak THEN Cardinality(hidden'[o]) ELSE peak
       /\ IF o \in live THEN Lives ELSE Crash
       /\ HolderFrame /\ UNCHANGED <<hubs, reported>>

\* RegisterHiddenDevice, under its lock. A redirector then creates its queues;
\* if the second one fails AddDevice does, a failure of the first goes unseen.
CreateHider(f) ==
    LET o == filter[f].control
    IN /\ At(f, "referred") /\ o # NullPtr /\ filter[f].strategy \in Hiding
       /\ \E n \in 0 .. Cardinality(Filters) : \E pc \in {"attached", "destroy"} :
             /\ IsNextSerial(o, n)
             /\ pc = "destroy" => filter[f].strategy = "redirector"
             /\ Set(f, [filter[f] EXCEPT !.pc = pc, !.serial = n, !.adding = (pc = "destroy")])
       /\ hidden' = [hidden EXCEPT ![o] = @ \cup {f}]
       /\ peak' = IF Cardinality(hidden'[o]) > peak THEN Cardinality(hidden'[o]) ELSE peak
       /\ IF o \in live THEN Lives ELSE Crash
       /\ HolderFrame /\ UNCHANGED <<hubs, reported>>

-----------------------------------------------------------------------------
(* PnP and the filter device.                                              *)

\* IRP_MN_QUERY_ID of a hidden device; without memory the ID stays as it was.
QueryId(f) ==
    /\ At(f, "attached") /\ filter[f].strategy \in Hiding
    /\ reported' = [reported EXCEPT ![f] = filter[f].serial]
    /\ HolderFrame /\ ListsFrame /\ Lives /\ UNCHANGED filter

\* PnP removes the device, which a hidden one denies for a while (a request that
\* is denied changes nothing); the last reference to it may go some time later.
Remove(f) ==
    /\ At(f, "attached")
    /\ Goto(f, "destroy")
    /\ reported' = [reported EXCEPT ![f] = NoSerial]
    /\ HolderFrame /\ ListsFrame /\ Lives

\* Mutant: a redirector stays in the list of the hidden devices.
Destroy_StaysListed(f) ==
    LET o == filter[f].control
    IN /\ At(f, "destroy")
       /\ \/ o = NullPtr /\ Set(f, Gone) /\ Lives /\ UNCHANGED <<hubs, hidden>>
          \/ /\ o # NullPtr
             /\ Set(f, [filter[f] EXCEPT !.pc = "release", !.next = "gone", !.control = NullPtr])
             /\ hubs' = [hubs EXCEPT ![o] = @ \ {f}]
             /\ hidden' = [hidden EXCEPT ![o] = IF filter[f].strategy = "hider" THEN @ \ {f} ELSE @]
             /\ IF o \in live THEN Lives ELSE Crash
       /\ HolderFrame /\ UNCHANGED <<peak, reported>>

\* The destructor deletes the strategy: the lists forget the device, then the
\* control device is released, unless the strategy never had one.
Destroy(f) ==
    LET o == filter[f].control
    IN /\ At(f, "destroy")
       /\ \/ o = NullPtr /\ Set(f, Gone) /\ Lives /\ UNCHANGED <<hubs, hidden>>
          \/ /\ o # NullPtr
             /\ Set(f, [filter[f] EXCEPT !.pc = "release", !.next = "gone", !.control = NullPtr])
             /\ hubs' = [hubs EXCEPT ![o] = @ \ {f}]
             /\ hidden' = [hidden EXCEPT ![o] = @ \ {f}]
             /\ IF o \in live THEN Lives ELSE Crash
       /\ HolderFrame /\ UNCHANGED <<peak, reported>>

\* The last device is gone: DriverUnload deletes the holder, and DriverEntry of
\* a later load allocates another one.
ReloadDriver ==
    /\ \A f \in Filters : At(f, "gone")
    /\ refCount' = 0 /\ obj' = NullPtr /\ peak' = 0 /\ spoiled' = (live # {})
    /\ Lives /\ UNCHANGED <<filter, live, hubs, hidden, reported>>

-----------------------------------------------------------------------------
FilterStep(f) ==
    \/ AddDevice(f) \/ Reference(f) \/ CreateControl(f) \/ RegisterControl(f)
    \/ Release(f) \/ DeleteControl(f)
    \/ ReferenceFailed(f) \/ NullStrategyCreated(f) \/ SelectStrategy(f)
    \/ CreateHub(f) \/ CreateHider(f)
    \/ QueryId(f) \/ Remove(f) \/ Destroy(f)

\* A crash stops the system.
Next == ~crashed /\ (ReloadDriver \/ \E f \in Filters : FilterStep(f))

Spec == Init /\ [][Next]_vars

-----------------------------------------------------------------------------
\* The shape of the state; just the devices that hide have a serial number.
TypeOK ==
    /\ filter \in [Filters -> FilterType]
    /\ \A f \in Filters : filter[f].pc = "attached" =>
          (filter[f].serial \in Nat <=> filter[f].strategy \in Hiding)
    /\ refCount \in Nat
    /\ obj \in Objects \cup {NullPtr} /\ live \subseteq Objects
    /\ hubs \in [Objects -> SUBSET Filters] /\ hidden \in [Objects -> SUBSET Filters]
    /\ reported \in [Filters -> Nat \cup {NoSerial}]
    /\ crashed \in BOOLEAN /\ peak \in Nat /\ spoiled \in BOOLEAN

\* A reference is counted from InitialAddRef to the decrement.
Holds(f) ==
    \/ filter[f].pc \in {"create", "register", "release"}
    \/ filter[f].control # NullPtr

Holders == {f \in Filters : Holds(f)}

\* Every reference is counted, and released, exactly once, however AddDevice
\* ends: without one the control device is gone.
CountIsExact ==
    ~spoiled => /\ refCount = Cardinality(Holders)
                /\ refCount = 0 /\ (\A f \in Filters : ~At(f, "delete")) => live = {}

\* Whoever refers to the control device has the only one there is, and nothing
\* is deleted twice or used when it is deleted. The comparison of the count
\* after the decrement, and the pointer that stays, break this once a device
\* is added while the last one goes, or a control device cannot be created.
HoldersAreServed ==
    ~spoiled =>
        /\ ~crashed
        /\ \A f \in Filters : filter[f].control # NullPtr =>
              filter[f].control = obj /\ live = {obj}

\* A filter device that is destroyed is in no list, and a control device that
\* is deleted has left none behind: nobody comes upon a dangling pointer.
NoDanglingFilters ==
    ~spoiled => \A o \in Objects :
        /\ o \notin live => hubs[o] \cup hidden[o] = {}
        /\ \A f \in hubs[o] \cup hidden[o] : filter[f].control = o

\* ControlDevice.cpp: "there should be no multiple devices with the same
\* PID/VID/SN combination at any given moment of time", whatever else happens
\* to the devices.
UniqueInstanceIds ==
    ~spoiled => \A f, g \in Filters :
        reported[f] = reported[g] /\ reported[f] # NoSerial => f = g

\* ControlDevice.cpp: "UsbDk should re-use serial numbers of unplugged devices":
\* Windows never sees more of them than there were hidden devices at a time.
SerialsAreReused ==
    ~spoiled => \A f \in Filters : reported[f] # NoSerial => reported[f] < peak
=============================================================================
