------------------------------ MODULE DeviceList ------------------------------
(* The calls of UsbDkHelper that go through the control device: the list of
   USB devices, which the client asks for in two requests (how many, then
   which), and the begin and the end of a redirection.  The control device is
   exclusive: it is open in one call of one client at a time, and every other
   call fails meanwhile.  Hubs enumerate their ports and come and go while a
   request walks over their filter devices.                                 *)
EXTENDS Naturals, FiniteSets

CONSTANTS Clients, NoClient,
          Hubs,      \* hubs and root hubs a filter may be attached to
          Devices,   \* USB devices, by their IDs
          Calls,     \* the calls a client makes
          MaxHandles \* bound: the redirector handles of a process at a time

ASSUME DeviceListAssumption ==
  /\ NoClient \notin Clients /\ MaxHandles \in Nat
  /\ IsFiniteSet(Hubs) /\ IsFiniteSet(Devices)
  /\ Calls \in [Clients -> SUBSET {"list", "redirect", "stop"}]

VARIABLES
  hubs,      \* m_FilterDevices of the control device
  children,  \* the children of a filter
  opener,    \* the client that has the control device open
  client,    \* the call of a client
  held,      \* redirector handles of a client's process
  past       \* history: what was there since a client's call began

vars == <<hubs, children, opener, client, held, past>>
bus == <<hubs, children>>

Entries == Hubs \X Devices

ClientType ==
  [pc : {"idle", "open", "count", "allocate", "enumerate", "redirect", "stop",
         "returned"},
   call : {"none", "list", "redirect", "stop"},
   left : SUBSET Hubs,          \* filters the request has still to visit
   number : 0 .. Cardinality(Entries),   \* DeviceNumber
   list : SUBSET Entries,       \* DevicesArray
   result : {"none", "success", "failure", "inaccessible", "bufferTooSmall"}]

\* A handle that was opened and then lost is not known to the client.
Handles == [device : Devices, known : BOOLEAN]

IdleClient == [pc |-> "idle", call |-> "none", left |-> {}, number |-> 0,
               list |-> {}, result |-> "none"]

NoPast == [steady |-> {}, seen |-> {}, grown |-> FALSE]

Present == {e \in Entries : e[1] \in hubs /\ e[2] \in children[e[1]]}

Init == /\ hubs \in SUBSET Hubs
        /\ children = [h \in Hubs |-> {}]
        /\ opener = NoClient
        /\ client = [c \in Clients |-> IdleClient]
        /\ held = [c \in Clients |-> {}]
        /\ past = [c \in Clients |-> NoPast]

--------------------------------------------------------------------------------
(* The bus.  ForEach holds the lock of the list of filters to its end, so that
   no hub comes or goes during a walk; children are changed hub by hub.       *)

Walking == \E c \in Clients : client[c].pc \in {"count", "enumerate"}

\* The histories after a change of the bus.
Witness ==
  past' = [c \in Clients |->
    IF client[c].call # "list" \/ client[c].pc \in {"open", "returned"} THEN past[c]
    ELSE [steady |-> past[c].steady \cap Present',
          seen |-> past[c].seen \cup Present',
          grown |-> past[c].grown \/ ~(Present' \subseteq Present)]]

RegisterFilter(h) == /\ ~Walking /\ h \notin hubs
                     /\ hubs' = hubs \cup {h}
                     /\ UNCHANGED children

UnregisterFilter(h) == /\ ~Walking /\ h \in hubs
                       /\ hubs' = hubs \ {h}
                       /\ children' = [children EXCEPT ![h] = {}]

RegisterNewChild(h, d) == /\ h \in hubs /\ \A g \in Hubs : d \notin children[g]
                          /\ children' = [children EXCEPT ![h] = @ \cup {d}]
                          /\ UNCHANGED hubs

DropRemovedDevices(h, d) == /\ d \in children[h]
                            /\ children' = [children EXCEPT ![h] = @ \ {d}]
                            /\ UNCHANGED hubs

BusStep == /\ \E h \in Hubs : \/ RegisterFilter(h)
                              \/ UnregisterFilter(h)
                              \/ \E d \in Devices : \/ RegisterNewChild(h, d)
                                                    \/ DropRemovedDevices(h, d)
           /\ Witness
           /\ UNCHANGED <<opener, client, held>>

--------------------------------------------------------------------------------
(* Opening the control device and sending requests.                           *)

Step(c, pc) == client' = [client EXCEPT ![c].pc = pc]

\* Mutant: the driver is not closed on the way out.
Return_LeavesOpen(c, result) ==
  /\ client' = [client EXCEPT ![c].pc = "returned", ![c].left = {},
                              ![c].result = result]
  /\ UNCHANGED opener

\* The object that has the file open is destroyed before a call returns.
Return(c, result) ==
  /\ client' = [client EXCEPT ![c].pc = "returned", ![c].left = {},
                              ![c].result = result]
  /\ opener' = IF opener = c THEN NoClient ELSE opener

Call(c) ==
  /\ client[c].pc = "idle"
  /\ \E call \in Calls[c] :
       /\ call = "stop" => \E x \in held[c] : x.known
       /\ client' = [client EXCEPT ![c] = [IdleClient EXCEPT !.pc = "open", !.call = call]]
  /\ UNCHANGED <<hubs, children, opener, held, past>>

\* UsbDkDriverFile opens without sharing, and the device is exclusive.  Also
\* the end of a redirection opens the control device, to see that it is there.
OpenDriver(c) ==
  /\ client[c].pc = "open"
  /\ IF opener # NoClient THEN Return(c, "inaccessible") /\ UNCHANGED past
     ELSE /\ opener' = c
          /\ CASE client[c].call = "list" ->
                    client' = [client EXCEPT ![c].pc = "count", ![c].left = hubs]
               [] client[c].call = "redirect" -> Step(c, "redirect")
               [] client[c].call = "stop" -> Step(c, "stop")
          /\ past' = IF client[c].call # "list" THEN past
                     ELSE [past EXCEPT ![c] = [NoPast EXCEPT !.steady = Present,
                                                             !.seen = Present]]
  /\ UNCHANGED <<bus, held>>

\* Mutant: the walk does not go on to the next filter.
CountDevices_Stays(c) ==
  /\ client[c].pc = "count"
  /\ \/ \E h \in client[c].left :
          client' = [client EXCEPT ![c].number = @ + Cardinality(children[h])]
     \/ client[c].left = {} /\ client[c].number > 0 /\ Step(c, "allocate")
  /\ UNCHANGED <<bus, opener, held, past>>

\* IOCTL_USBDK_COUNT_DEVICES
CountDevices(c) ==
  /\ client[c].pc = "count"
  /\ \/ \E h \in client[c].left :
          client' = [client EXCEPT ![c].left = @ \ {h},
                                   ![c].number = @ + Cardinality(children[h])]
     \/ client[c].left = {} /\ client[c].number > 0 /\ Step(c, "allocate")
  /\ UNCHANGED <<bus, opener, held, past>>

\* FetchOutputObject and FetchOutputArray: a request without its buffer fails
\* before the walk.
RequestFails(c) ==
  /\ client[c].pc \in {"count", "enumerate"} /\ client[c].left = hubs
  /\ Return(c, "failure")
  /\ UNCHANGED <<bus, held, past>>

CountedNone(c) ==
  /\ client[c].pc = "count" /\ client[c].left = {} /\ client[c].number = 0
  /\ Return(c, "success")
  /\ UNCHANGED <<bus, held, past>>

Allocate(c) ==
  /\ client[c].pc = "allocate"
  /\ \/ /\ client' = [client EXCEPT ![c].pc = "enumerate", ![c].left = hubs]
        /\ UNCHANGED opener
     \/ Return(c, "failure")
  /\ UNCHANGED <<bus, held, past>>

\* DeviceIoControl gives the client a Win32 error for the status of a request.
Win32Error(status) ==
  CASE status = "STATUS_BUFFER_TOO_SMALL" -> "ERROR_INSUFFICIENT_BUFFER"
    [] status = "STATUS_BUFFER_OVERFLOW" -> "ERROR_MORE_DATA"

\* Mutant: every failure repeats both requests.
IoctlFailed_Repeats(c, status) ==
  /\ client' = [client EXCEPT ![c] =
                  [IdleClient EXCEPT !.pc = "count", !.call = "list", !.left = hubs]]
  /\ UNCHANGED opener

\* Only ERROR_MORE_DATA repeats both requests.
IoctlFailed(c, status) ==
  IF Win32Error(status) = "ERROR_MORE_DATA"
  THEN /\ client' = [client EXCEPT ![c] =
                       [IdleClient EXCEPT !.pc = "count", !.call = "list", !.left = hubs]]
       /\ UNCHANGED opener
  ELSE Return(c, "bufferTooSmall")

\* Mutant: the buffer is taken for full one entry early.
EnumerateDevices_OffByOne(c) ==
  /\ client[c].pc = "enumerate"
  /\ \E h \in client[c].left :
       LET list == client[c].list \cup ({h} \X children[h])
       IN  IF list # {} /\ Cardinality(list) >= client[c].number
           THEN IoctlFailed(c, "STATUS_BUFFER_TOO_SMALL")
           ELSE /\ client' = [client EXCEPT ![c].left = @ \ {h}, ![c].list = list]
                /\ UNCHANGED opener
  /\ UNCHANGED <<bus, held, past>>

\* IOCTL_USBDK_ENUM_DEVICES: the walk ends with the first device that has no
\* place in the buffer.
EnumerateDevices(c) ==
  /\ client[c].pc = "enumerate"
  /\ \E h \in client[c].left :
       LET list == client[c].list \cup ({h} \X children[h])
       IN  IF Cardinality(list) > client[c].number
           THEN IoctlFailed(c, "STATUS_BUFFER_TOO_SMALL")
           ELSE /\ client' = [client EXCEPT ![c].left = @ \ {h}, ![c].list = list]
                /\ UNCHANGED opener
  /\ UNCHANGED <<bus, held, past>>

\* The number of devices is what the second request has returned.
Enumerated(c) ==
  /\ client[c].pc = "enumerate" /\ client[c].left = {}
  /\ client' = [client EXCEPT ![c].pc = "returned", ![c].result = "success",
                              ![c].number = Cardinality(client[c].list)]
  /\ opener' = NoClient
  /\ UNCHANGED <<bus, held, past>>

\* UsbDk_StartRedirect; what AddRedirect does is the subject of Redirection.
\* Without memory for the redirector the call fails although AddRedirect has
\* opened the handle, and nobody closes it.
StartRedirect(c) ==
  /\ client[c].pc = "redirect"
  /\ \/ \E d \in Devices, known \in BOOLEAN :
           /\ Cardinality(held[c]) < MaxHandles
           /\ \A b \in Clients : \A x \in held[b] : x.device # d
           /\ held' = [held EXCEPT ![c] = @ \cup {[device |-> d, known |-> known]}]
           /\ Return(c, IF known THEN "success" ELSE "failure")
     \/ Return(c, "failure") /\ UNCHANGED held
  /\ UNCHANGED <<bus, past>>

\* UsbDk_StopRedirect closes the handle of the redirector.
StopRedirect(c) ==
  /\ client[c].pc = "stop"
  /\ \E x \in held[c] : x.known /\ held' = [held EXCEPT ![c] = @ \ {x}]
  /\ Return(c, "success")
  /\ UNCHANGED <<bus, past>>

\* The client has used the list and releases it.
Release(c) == /\ client[c].pc = "returned"
              /\ client' = [client EXCEPT ![c] = IdleClient]
              /\ past' = [past EXCEPT ![c] = NoPast]
              /\ UNCHANGED <<bus, opener, held>>

\* Windows closes the handles of a process that ends.
ClientExits(c) == /\ client' = [client EXCEPT ![c] = IdleClient]
                  /\ held' = [held EXCEPT ![c] = {}]
                  /\ opener' = IF opener = c THEN NoClient ELSE opener
                  /\ past' = [past EXCEPT ![c] = NoPast]
                  /\ UNCHANGED bus

CallStep(c) == \/ OpenDriver(c) \/ CountDevices(c) \/ RequestFails(c)
               \/ CountedNone(c) \/ Allocate(c) \/ EnumerateDevices(c) \/ Enumerated(c)
               \/ StartRedirect(c) \/ StopRedirect(c)

Next == \/ BusStep
        \/ \E c \in Clients : Call(c) \/ CallStep(c) \/ Release(c) \/ ClientExits(c)

Spec == Init /\ [][Next]_vars

\* A thread that is in a call goes on.
FairSpec == Spec /\ \A c \in Clients : WF_vars(CallStep(c))

--------------------------------------------------------------------------------
(* Properties                                                                 *)

TypeOK ==
  /\ hubs \in SUBSET Hubs
  /\ children \in [Hubs -> SUBSET Devices]
  /\ opener \in Clients \cup {NoClient}
  /\ client \in [Clients -> ClientType]
  /\ held \in [Clients -> SUBSET Handles]
  /\ past \in [Clients -> [steady : SUBSET Entries, seen : SUBSET Entries,
                           grown : BOOLEAN]]

\* The list comes from two walks over hubs that change in between and during
\* either.  What UsbDk_GetDevicesList returns has every device that was there
\* from the beginning to the end, none that never was, and as many entries as
\* it says; it fails for lack of room only if a device came meanwhile.
ListResultIsTrue ==
  \A c \in Clients :
    /\ client[c].call = "list" /\ client[c].result = "success" =>
         /\ past[c].steady \subseteq client[c].list
         /\ client[c].list \subseteq past[c].seen
         /\ client[c].number = Cardinality(client[c].list)
    /\ client[c].result = "bufferTooSmall" => past[c].grown

\* The control device is open exactly during a call that was let in, so that
\* no failing call leaves it open and shuts every later one out.
OpenOnlyInCalls ==
  \A c \in Clients :
    opener = c <=> client[c].pc \notin {"idle", "open", "returned"}

\* Every call returns, whatever the bus does meanwhile.
CallsReturn ==
  \A c \in Clients : client[c].pc = "open" ~> client[c].pc \in {"returned", "idle"}
================================================================================
