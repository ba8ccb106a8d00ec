--------------------------- MODULE DeviceListProofs ---------------------------
(* IInv is an inductive invariant of DeviceList, for any number of clients,
   hubs and devices: what the two walks of UsbDk_GetDevicesList have counted
   and collected so far is compared with what is still to come.              *)
EXTENDS DeviceList, FiniteSetTheorems, TLAPS

\* The devices on some hubs.
On(hs) == {e \in Present : e[1] \in hs}

\* A hub that is gone has no children.
BusInv == \A h \in Hubs \ hubs : children[h] = {}

\* Where a client is in its call.
CallInv(c) ==
  /\ client[c].pc \in {"count", "allocate", "enumerate"} => client[c].call = "list"
  /\ client[c].pc \in {"redirect", "stop"} => client[c].call # "list"
  /\ client[c].pc # "returned" => client[c].result = "none"
  /\ client[c].pc \in {"open", "count", "allocate"} => client[c].list = {}
  /\ client[c].pc = "open" => client[c].number = 0
  /\ client[c].result = "bufferTooSmall" => client[c].call = "list"
  /\ client[c].pc = "idle" <=> client[c].call = "none"

\* The history brackets the devices as long as a request may still look at them.
HistoryInv(c) == client[c].pc \in {"count", "allocate", "enumerate"} =>
  /\ past[c].steady \subseteq Present
  /\ Present \cup client[c].list \subseteq past[c].seen

\* The first walk: what was counted covers the hubs behind it, and while nothing
\* has been counted every steady device is still to come.
CountInv(c) == client[c].pc = "count" =>
  /\ client[c].left \subseteq hubs
  /\ client[c].number <= Cardinality((Hubs \ client[c].left) \X Devices)
  /\ client[c].number = 0 => past[c].steady \subseteq On(client[c].left)
  /\ past[c].grown \/ Cardinality(On(Hubs \ client[c].left)) <= client[c].number

\* Between the walks: unless a device came, the buffer has room for all.
AllocateInv(c) == client[c].pc = "allocate" =>
  past[c].grown \/ Cardinality(Present) <= client[c].number

\* What the list will have if the bus stays as it is.
Reach(c) == client[c].list \cup On(client[c].left)

\* The second walk: no steady device is lost, and unless a device came the
\* list will fit into the buffer.
EnumerateInv(c) == client[c].pc = "enumerate" =>
  /\ client[c].left \subseteq hubs
  /\ past[c].steady \subseteq Reach(c)
  /\ past[c].grown \/ Cardinality(Reach(c)) <= client[c].number

\* What a call has returned is true.
ResultInv(c) ==
  /\ client[c].call = "list" /\ client[c].result = "success" =>
       /\ past[c].steady \subseteq client[c].list
       /\ client[c].list \subseteq past[c].seen
       /\ client[c].number = Cardinality(client[c].list)
  /\ client[c].result = "bufferTooSmall" => past[c].grown

\* What holds of each client.
ClientInv(c) == /\ CallInv(c) /\ HistoryInv(c) /\ CountInv(c) /\ AllocateInv(c)
                /\ EnumerateInv(c) /\ ResultInv(c)

\* The inductive invariant.
IInv == /\ TypeOK /\ OpenOnlyInCalls /\ BusInv
        /\ \A c \in Clients : ClientInv(c)
--------------------------------------------------------------------------------
\* Sets of devices are finite.
LEMMA FiniteEntries ==
  ASSUME NEW S \in SUBSET Entries
  PROVE  /\ IsFiniteSet(S) /\ Cardinality(S) \in Nat
         /\ \A T \in SUBSET S : Cardinality(T) <= Cardinality(S)
<1>1. IsFiniteSet(Entries)
  BY DeviceListAssumption, FS_Product DEF Entries
<1>2. IsFiniteSet(S)
  BY <1>1, FS_Subset
<1> QED BY <1>2, FS_Subset, FS_CardinalityType

\* The children of one hub.
LEMMA Row ==
  ASSUME NEW h \in Hubs, NEW D \in SUBSET Devices
  PROVE  /\ {h} \X D \in SUBSET Entries
         /\ IsFiniteSet(D) /\ Cardinality(D) \in Nat
         /\ Cardinality({h} \X D) = Cardinality(D)
<1>1. {h} \X D \in SUBSET Entries
  BY DEF Entries
<1>2. IsFiniteSet(D) /\ Cardinality(D) \in Nat
  BY DeviceListAssumption, FS_Subset, FS_CardinalityType
<1>3. IsFiniteSet({h}) /\ Cardinality({h}) = 1
  BY FS_Singleton
<1>4. Cardinality({h} \X D) = Cardinality({h}) * Cardinality(D)
  BY <1>2, <1>3, FS_Product
<1>5. 1 * Cardinality(D) = Cardinality(D)
  BY <1>2
<1> QED BY <1>1, <1>2, <1>3, <1>4, <1>5

\* One more hub adds its children to what was counted or collected.
LEMMA AddRow ==
  ASSUME NEW S \in SUBSET Entries, NEW h \in Hubs, NEW D \in SUBSET Devices
  PROVE  /\ S \cup ({h} \X D) \in SUBSET Entries
         /\ Cardinality(S \cup ({h} \X D)) <= Cardinality(S) + Cardinality(D)
         /\ (\A e \in S : e[1] # h) =>
               Cardinality(S \cup ({h} \X D)) = Cardinality(S) + Cardinality(D)
<1> DEFINE R == {h} \X D
<1>1. /\ R \in SUBSET Entries /\ S \cap R \in SUBSET Entries
      /\ Cardinality(R) = Cardinality(D) /\ Cardinality(D) \in Nat
  BY Row
<1>2. IsFiniteSet(S) /\ IsFiniteSet(R) /\ Cardinality(S) \in Nat
  BY <1>1, FiniteEntries
<1>3. Cardinality(S \cap R) \in Nat
  BY <1>1, FiniteEntries
<1>4. Cardinality(S \cup R) = Cardinality(S) + Cardinality(R) - Cardinality(S \cap R)
  BY <1>2, FS_Union
<1>5. (\A e \in S : e[1] # h) => S \cap R = {}
  OBVIOUS
<1>6. Cardinality({}) = 0
  BY FS_EmptySet
<1> HIDE DEF R
<1>7. S \cup R \in SUBSET Entries
  BY <1>1
<1>8. Cardinality(S \cup R) <= Cardinality(S) + Cardinality(D)
  BY <1>1, <1>2, <1>3, <1>4
<1>9. S \cap R = {} => Cardinality(S \cup R) = Cardinality(S) + Cardinality(D)
  BY <1>1, <1>2, <1>3, <1>4, <1>6
<1> QED BY <1>5, <1>7, <1>8, <1>9 DEF R

\* What the steps need of the types.
LEMMA ListTypes ==
  ASSUME IInv
  PROVE  /\ hubs \in SUBSET Hubs /\ children \in [Hubs -> SUBSET Devices]
         /\ client \in [Clients -> ClientType]
         /\ past \in [Clients -> [steady : SUBSET Entries, seen : SUBSET Entries,
                                  grown : BOOLEAN]]
         /\ Present \in SUBSET Entries
         /\ \A hs : On(hs) \in SUBSET Entries /\ On(hs) \subseteq Present
BY DEF IInv, TypeOK, Present, On

\* The children of a registered hub are the devices on it.
LEMMA Rows ==
  ASSUME IInv, NEW h \in hubs
  PROVE  {h} \X children[h] = On({h})
<1>1. h \in Hubs /\ children[h] \in SUBSET Devices
  BY ListTypes
<1> QED BY <1>1 DEF On, Present, Entries

\* The types and fields of a client at rest.
LEMMA Defaults ==
  /\ IdleClient \in ClientType /\ IdleClient.pc = "idle" /\ IdleClient.call = "none"
  /\ IdleClient.result = "none" /\ IdleClient.list = {} /\ IdleClient.number = 0
  /\ IdleClient.left = {}
  /\ NoPast \in [steady : SUBSET Entries, seen : SUBSET Entries, grown : BOOLEAN]
  /\ NoPast.grown = FALSE /\ NoPast.steady = {}
<1>1. Cardinality(Entries) \in Nat
  BY FiniteEntries
<1>2. 0 \in 0 .. Cardinality(Entries)
  BY <1>1
<1> QED BY <1>2 DEF IdleClient, ClientType, NoPast

\* The invariant holds before the first call.
LEMMA InitIInv == Init => IInv
<1> SUFFICES ASSUME Init PROVE IInv
  OBVIOUS
<1>1. TypeOK
  BY Defaults, DeviceListAssumption DEF Init, TypeOK
<1>2. OpenOnlyInCalls
  BY Defaults, DeviceListAssumption DEF Init, OpenOnlyInCalls
<1>3. BusInv
  BY DEF Init, BusInv
<1>4. ASSUME NEW c \in Clients PROVE ClientInv(c)
  <2>1. client[c] = IdleClient
    BY DEF Init
  <2> QED BY <2>1, Defaults DEF ClientInv, CallInv, HistoryInv, CountInv, AllocateInv,
          EnumerateInv, ResultInv
<1> QED BY <1>1, <1>2, <1>3, <1>4 DEF IInv

\* A step of one client says nothing about the others.
LEMMA ClientStep ==
  ASSUME IInv, NEW c \in Clients, UNCHANGED bus,
         TypeOK', OpenOnlyInCalls', ClientInv(c)',
         \A b \in Clients \ {c} : client'[b] = client[b] /\ past'[b] = past[b]
  PROVE  IInv'
<1>1. BusInv'
  BY DEF IInv, BusInv, bus
<1>2. Present' = Present /\ hubs' = hubs
  BY DEF Present, bus
<1>3. ASSUME NEW b \in Clients \ {c} PROVE ClientInv(b)'
  <2>1. client'[b] = client[b] /\ past'[b] = past[b] /\ ClientInv(b)
    BY DEF IInv
  <2>2. CallInv(b)' /\ HistoryInv(b)' /\ ResultInv(b)'
    BY <1>2, <2>1 DEF ClientInv, CallInv, HistoryInv, ResultInv
  <2>3. CountInv(b)' /\ AllocateInv(b)'
    BY <1>2, <2>1 DEF ClientInv, CountInv, AllocateInv, On
  <2>4. EnumerateInv(b)'
    BY <1>2, <2>1 DEF ClientInv, EnumerateInv, Reach, On
  <2> QED BY <2>2, <2>3, <2>4 DEF ClientInv
<1> QED BY <1>1, <1>3 DEF IInv

\* What a step of the bus does: no hub comes or goes during a walk.
LEMMA BusChange ==
  ASSUME IInv, BusStep
  PROVE  /\ hubs' \in SUBSET Hubs /\ children' \in [Hubs -> SUBSET Devices]
         /\ BusInv' /\ (Walking => hubs' = hubs)
         /\ UNCHANGED <<opener, client, held>>
<1> USE ListTypes
<1>1. UNCHANGED <<opener, client, held>>
  BY DEF BusStep
<1>2. ASSUME NEW h \in Hubs, RegisterFilter(h)
      PROVE  /\ hubs' \in SUBSET Hubs /\ children' \in [Hubs -> SUBSET Devices]
             /\ BusInv' /\ (Walking => hubs' = hubs)
  BY <1>2 DEF RegisterFilter, IInv, BusInv
<1>3. ASSUME NEW h \in Hubs, UnregisterFilter(h)
      PROVE  /\ hubs' \in SUBSET Hubs /\ children' \in [Hubs -> SUBSET Devices]
             /\ BusInv' /\ (Walking => hubs' = hubs)
  BY <1>3 DEF UnregisterFilter, IInv, BusInv
<1>4. ASSUME NEW h \in Hubs, NEW d \in Devices, RegisterNewChild(h, d)
      PROVE  /\ hubs' \in SUBSET Hubs /\ children' \in [Hubs -> SUBSET Devices]
             /\ BusInv' /\ (Walking => hubs' = hubs)
  BY <1>4 DEF RegisterNewChild, IInv, BusInv
<1>5. ASSUME NEW h \in Hubs, NEW d \in Devices, DropRemovedDevices(h, d)
      PROVE  /\ hubs' \in SUBSET Hubs /\ children' \in [Hubs -> SUBSET Devices]
             /\ BusInv' /\ (Walking => hubs' = hubs)
  BY <1>5 DEF DropRemovedDevices, IInv, BusInv
<1> QED BY <1>1, <1>2, <1>3, <1>4, <1>5 DEF BusStep

\* What a step of the bus does to the history of a client.
LEMMA WitnessStep ==
  ASSUME IInv, BusStep, NEW c \in Clients
  PROVE  /\ past' \in [Clients -> [steady : SUBSET Entries, seen : SUBSET Entries,
                                   grown : BOOLEAN]]
         /\ IF client[c].pc \in {"count", "allocate", "enumerate"}
            THEN /\ past'[c].steady = past[c].steady \cap Present'
                 /\ past'[c].seen = past[c].seen \cup Present'
                 /\ past'[c].grown = (past[c].grown \/ ~(Present' \subseteq Present))
            ELSE client[c].pc = "returned" => past'[c] = past[c]
<1> DEFINE Extended(b) == [steady |-> past[b].steady \cap Present',
                           seen |-> past[b].seen \cup Present',
                           grown |-> past[b].grown \/ ~(Present' \subseteq Present)]
           Type == [steady : SUBSET Entries, seen : SUBSET Entries, grown : BOOLEAN]
<1>1. Present' \in SUBSET Entries
  BY DEF Present
<1>2. past \in [Clients -> Type]
  BY ListTypes
<1>3. ASSUME NEW b \in Clients PROVE Extended(b) \in Type
  <2>1. past[b].steady \cap Present' \in SUBSET Entries
    BY <1>1
  <2>2. past[b].seen \cup Present' \in SUBSET Entries
    BY <1>1, <1>2
  <2> QED BY <2>1, <2>2
<1>4. /\ Extended(c).steady = past[c].steady \cap Present'
      /\ Extended(c).seen = past[c].seen \cup Present'
      /\ Extended(c).grown = (past[c].grown \/ ~(Present' \subseteq Present))
  OBVIOUS
<1>5. past' = [b \in Clients |->
                 IF client[b].call # "list" \/ client[b].pc \in {"open", "returned"}
                 THEN past[b] ELSE Extended(b)]
  BY DEF BusStep, Witness
<1>6. CallInv(c)
  BY DEF IInv, ClientInv
<1> HIDE DEF Extended, Type
<1>7. past' \in [Clients -> Type]
  BY <1>2, <1>3, <1>5
<1>8. CASE client[c].pc \in {"count", "allocate", "enumerate"}
  <2>1. past'[c] = Extended(c)
    BY <1>5, <1>6, <1>8 DEF CallInv
  <2> QED BY <1>4, <1>7, <1>8, <2>1 DEF Type
<1>9. CASE client[c].pc \notin {"count", "allocate", "enumerate"}
  <2>1. client[c].pc = "returned" => past'[c] = past[c]
    BY <1>5
  <2> QED BY <1>7, <1>9, <2>1 DEF Type
<1> QED BY <1>8, <1>9

\* Hubs and devices that come and go preserve the invariant.
LEMMA BusStepInv ==
  ASSUME IInv, BusStep
  PROVE  IInv'
<1>1. /\ hubs' \in SUBSET Hubs /\ children' \in [Hubs -> SUBSET Devices]
      /\ BusInv' /\ (Walking => hubs' = hubs)
      /\ UNCHANGED <<opener, client, held>>
  BY BusChange
<1>2. past' \in [Clients -> [steady : SUBSET Entries, seen : SUBSET Entries, grown : BOOLEAN]]
  <2>1. CASE Clients = {}
    BY <2>1 DEF BusStep, Witness
  <2>2. CASE Clients # {}
    BY <2>2, WitnessStep
  <2> QED BY <2>1, <2>2
<1>3. TypeOK' /\ OpenOnlyInCalls'
  BY <1>1, <1>2 DEF IInv, TypeOK, OpenOnlyInCalls
<1>4. ASSUME NEW c \in Clients PROVE ClientInv(c)'
  <2>1. IF client[c].pc \in {"count", "allocate", "enumerate"}
        THEN /\ past'[c].steady = past[c].steady \cap Present'
             /\ past'[c].seen = past[c].seen \cup Present'
             /\ past'[c].grown = (past[c].grown \/ ~(Present' \subseteq Present))
        ELSE client[c].pc = "returned" => past'[c] = past[c]
    BY WitnessStep
  <2>2. client' = client /\ ClientInv(c)
    BY <1>1 DEF IInv
  <2>3. Present' \in SUBSET Entries /\ Present \in SUBSET Entries
    BY ListTypes DEF Present
  <2>4. client[c].pc \in {"count", "enumerate"} => hubs' = hubs
    BY <1>1 DEF Walking
  <2>5. \A hs : Present' \subseteq Present => On(hs)' \subseteq On(hs)
    BY DEF On
  <2>6. \A hs : On(hs) \in SUBSET Entries
    BY ListTypes
  <2>7. CallInv(c)'
    BY <2>2 DEF ClientInv, CallInv
  <2>8. HistoryInv(c)'
    BY <2>1, <2>2 DEF ClientInv, HistoryInv
  <2>9. CountInv(c)'
    <3> SUFFICES ASSUME client[c].pc = "count" PROVE CountInv(c)'
      BY <2>2 DEF CountInv
    <3>1. client[c].number = 0 => past'[c].steady \subseteq On(client[c].left)'
      BY <2>1, <2>2 DEF ClientInv, CountInv, On
    <3>2. ~past'[c].grown =>
            /\ ~past[c].grown
            /\ Cardinality(On(Hubs \ client[c].left)') <= Cardinality(On(Hubs \ client[c].left))
      <4>1. Present' \subseteq Present =>
              On(Hubs \ client[c].left)' \in SUBSET On(Hubs \ client[c].left)
        BY <2>2, <2>5 DEF On
      <4>2. ~past'[c].grown =>
              /\ ~past[c].grown
              /\ On(Hubs \ client[c].left)' \in SUBSET On(Hubs \ client[c].left)
        BY <2>1, <4>1
      <4> QED BY <2>6, <4>2, FiniteEntries
    <3>3. Cardinality(On(Hubs \ client[c].left)) \in Nat
      BY <2>6, FiniteEntries
    <3>4. Cardinality(On(Hubs \ client[c].left)') \in Nat
      <4>1. On(Hubs \ client[c].left)' \in SUBSET Entries
        BY <2>3 DEF On
      <4> QED BY <4>1, FiniteEntries
    <3>5. client[c].number \in Nat
      BY ListTypes, FiniteEntries DEF ClientType
    <3>6. ~past'[c].grown => Cardinality(On(Hubs \ client[c].left)') <= client[c].number
      BY <2>2, <3>2, <3>3, <3>4, <3>5 DEF ClientInv, CountInv
    <3> QED BY <2>2, <2>4, <3>1, <3>6 DEF ClientInv, CountInv
  <2>10. AllocateInv(c)'
    <3> SUFFICES ASSUME client[c].pc = "allocate" PROVE AllocateInv(c)'
      BY <2>2 DEF AllocateInv
    <3>1. ~past'[c].grown => ~past[c].grown /\ Cardinality(Present') <= Cardinality(Present)
      BY <2>1, <2>3, FiniteEntries
    <3>2. Cardinality(Present) \in Nat /\ Cardinality(Present') \in Nat
      BY <2>3, FiniteEntries
    <3>3. client[c].number \in Nat
      BY ListTypes, FiniteEntries DEF ClientType
    <3> QED BY <2>2, <3>1, <3>2, <3>3 DEF ClientInv, AllocateInv
  <2>11. EnumerateInv(c)'
    <3> SUFFICES ASSUME client[c].pc = "enumerate" PROVE EnumerateInv(c)'
      BY <2>2 DEF EnumerateInv
    <3>1. past'[c].steady \subseteq Reach(c)'
      BY <2>1, <2>2 DEF ClientInv, EnumerateInv, Reach, On
    <3>2. Reach(c) \in SUBSET Entries
      BY <2>6, ListTypes DEF Reach, ClientType
    <3>3. Present' \subseteq Present => Reach(c)' \in SUBSET Reach(c)
      BY <2>2, <2>5 DEF Reach, On
    <3>4. ~past'[c].grown => ~past[c].grown /\ Reach(c)' \in SUBSET Reach(c)
      BY <2>1, <3>3
    <3>5. ~past'[c].grown => ~past[c].grown /\ Cardinality(Reach(c)') <= Cardinality(Reach(c))
      BY <3>2, <3>4, FiniteEntries
    <3>6. Cardinality(Reach(c)) \in Nat
      BY <3>2, FiniteEntries
    <3>7. ~past'[c].grown => Cardinality(Reach(c)') \in Nat
      <4>1. ~past'[c].grown => Reach(c)' \in SUBSET Entries
        BY <3>2, <3>4
      <4> QED BY <4>1, FiniteEntries
    <3>8. client[c].number \in Nat
      BY ListTypes, FiniteEntries DEF ClientType
    <3>9. ~past'[c].grown => Cardinality(Reach(c)') <= client[c].number
      BY <2>2, <3>5, <3>6, <3>7, <3>8 DEF ClientInv, EnumerateInv
    <3> QED BY <2>2, <2>4, <3>1, <3>9 DEF ClientInv, EnumerateInv
  <2>12. ResultInv(c)'
    <3>1. client[c].result # "none" => client[c].pc = "returned"
      BY <2>2 DEF ClientInv, CallInv
    <3> QED BY <2>1, <2>2, <3>1 DEF ClientInv, ResultInv
  <2> QED BY <2>7, <2>8, <2>9, <2>10, <2>11, <2>12 DEF ClientInv
<1> QED BY <1>1, <1>3, <1>4 DEF IInv

\* A step of one client that keeps its type and its part of the invariant.
LEMMA CallProgress ==
  ASSUME IInv, NEW c \in Clients, UNCHANGED bus,
         client' \in [Clients -> ClientType], held' \in [Clients -> SUBSET Handles],
         opener' \in Clients \cup {NoClient},
         past' \in [Clients -> [steady : SUBSET Entries, seen : SUBSET Entries,
                                grown : BOOLEAN]],
         \A b \in Clients \ {c} : /\ client'[b] = client[b] /\ past'[b] = past[b]
                                  /\ opener' = b <=> opener = b,
         opener' = c <=> client'[c].pc \notin {"idle", "open", "returned"},
         ClientInv(c)'
  PROVE  IInv'
<1>1. TypeOK'
  BY DEF IInv, TypeOK, bus
<1>2. OpenOnlyInCalls'
  BY DEF IInv, OpenOnlyInCalls
<1> QED BY <1>1, <1>2, ClientStep

\* The return of a call preserves the invariant.
LEMMA ReturnStep ==
  ASSUME IInv, NEW c \in Clients,
         NEW result \in {"success", "failure", "inaccessible", "bufferTooSmall"},
         client[c].pc # "idle", Return(c, result), UNCHANGED <<bus, past>>,
         held' \in [Clients -> SUBSET Handles],
         client[c].call = "list" /\ result = "success" =>
           /\ past[c].steady \subseteq client[c].list
           /\ client[c].list \subseteq past[c].seen
           /\ client[c].number = Cardinality(client[c].list),
         result = "bufferTooSmall" => client[c].call = "list" /\ past[c].grown
  PROVE  IInv'
<1>1. /\ client' = [client EXCEPT ![c].pc = "returned", ![c].left = {},
                                  ![c].result = result]
      /\ opener' = IF opener = c THEN NoClient ELSE opener
  BY DEF Return
<1>2. client[c] \in ClientType /\ client \in [Clients -> ClientType]
  BY ListTypes
<1>3. /\ client' \in [Clients -> ClientType]
      /\ client'[c].pc = "returned" /\ client'[c].call = client[c].call
      /\ client'[c].result = result /\ client'[c].list = client[c].list
      /\ client'[c].number = client[c].number
      /\ \A b \in Clients \ {c} : client'[b] = client[b]
  BY <1>1, <1>2 DEF ClientType
<1>4. opener \in Clients \cup {NoClient} /\ NoClient \notin Clients
  BY DeviceListAssumption DEF IInv, TypeOK
<1>5. /\ opener' \in Clients \cup {NoClient} /\ opener' # c
      /\ \A b \in Clients \ {c} : opener' = b <=> opener = b
  BY <1>1, <1>4
<1>6. /\ past' = past
      /\ past \in [Clients -> [steady : SUBSET Entries, seen : SUBSET Entries,
                               grown : BOOLEAN]]
  BY ListTypes
<1>7. ClientInv(c)'
  <2>1. CallInv(c)'
    BY <1>3 DEF IInv, ClientInv, CallInv
  <2>2. ResultInv(c)'
    BY <1>3, <1>6 DEF ResultInv
  <2> QED BY <1>3, <2>1, <2>2 DEF ClientInv, HistoryInv, CountInv, AllocateInv, EnumerateInv
<1> QED BY <1>3, <1>5, <1>6, <1>7, CallProgress

\* A client that is done or gone has nothing open.
LEMMA IdleStep ==
  ASSUME IInv, NEW c \in Clients,
         client' = [client EXCEPT ![c] = IdleClient],
         past' = [past EXCEPT ![c] = NoPast],
         opener' = (IF opener = c THEN NoClient ELSE opener),
         held' \in [Clients -> SUBSET Handles], UNCHANGED bus
  PROVE  IInv'
<1>1. /\ client' \in [Clients -> ClientType] /\ client'[c] = IdleClient
      /\ \A b \in Clients \ {c} : client'[b] = client[b] /\ past'[b] = past[b]
      /\ past' \in [Clients -> [steady : SUBSET Entries, seen : SUBSET Entries,
                                grown : BOOLEAN]]
  BY ListTypes, Defaults
<1>2. opener \in Clients \cup {NoClient} /\ NoClient \notin Clients
  BY DeviceListAssumption DEF IInv, TypeOK
<1>3. /\ opener' \in Clients \cup {NoClient} /\ opener' # c
      /\ \A b \in Clients \ {c} : opener' = b <=> opener = b
  BY <1>2
<1>4. ClientInv(c)'
  BY <1>1, Defaults DEF ClientInv, CallInv, HistoryInv, CountInv, AllocateInv,
     EnumerateInv, ResultInv
<1> QED BY <1>1, <1>3, <1>4, Defaults, CallProgress

\* The release of the list preserves the invariant.
LEMMA ReleaseStep ==
  ASSUME IInv, NEW c \in Clients, Release(c)
  PROVE  IInv'
<1>1. opener # c
  BY DEF Release, IInv, OpenOnlyInCalls
<1>2. held \in [Clients -> SUBSET Handles]
  BY DEF IInv, TypeOK
<1> QED BY <1>1, <1>2, IdleStep DEF Release, bus

\* The end of a client preserves the invariant: Windows closes its handles.
LEMMA ClientExitsStep ==
  ASSUME IInv, NEW c \in Clients, ClientExits(c)
  PROVE  IInv'
<1>1. held' \in [Clients -> SUBSET Handles]
  BY DEF ClientExits, IInv, TypeOK
<1> QED BY <1>1, IdleStep DEF ClientExits

\* The begin of a call preserves the invariant.
LEMMA CallBegins ==
  ASSUME IInv, NEW c \in Clients, Call(c)
  PROVE  IInv'
<1>1. PICK call \in Calls[c] :
        client' = [client EXCEPT ![c] = [IdleClient EXCEPT !.pc = "open", !.call = call]]
  BY DEF Call
<1> DEFINE x == [IdleClient EXCEPT !.pc = "open", !.call = call]
<1>2. call \in {"list", "redirect", "stop"}
  BY DeviceListAssumption
<1>3. /\ x \in ClientType /\ x.pc = "open" /\ x.call = call /\ x.result = "none"
      /\ x.list = {} /\ x.number = 0
  BY <1>2, Defaults DEF ClientType
<1>4. client' = [client EXCEPT ![c] = x]
  BY <1>1
<1> HIDE DEF x
<1>5. /\ client' \in [Clients -> ClientType] /\ client'[c] = x
      /\ \A b \in Clients \ {c} : client'[b] = client[b]
  BY <1>3, <1>4, ListTypes
<1>6. UNCHANGED <<hubs, children, opener, held, past>> /\ client[c].pc = "idle"
  BY DEF Call
<1>7. opener # c
  BY <1>6 DEF IInv, OpenOnlyInCalls
<1>8. ClientInv(c)'
  BY <1>2, <1>3, <1>5 DEF ClientInv, CallInv, HistoryInv, CountInv, AllocateInv,
     EnumerateInv, ResultInv
<1>9. held \in [Clients -> SUBSET Handles] /\ opener \in Clients \cup {NoClient}
  BY DEF IInv, TypeOK
<1> QED BY <1>3, <1>5, <1>6, <1>7, <1>8, <1>9, ListTypes, CallProgress DEF bus

\* UsbDkDriverFile preserves the invariant: a second open of the exclusive
\* device fails.
LEMMA OpenDriverStep ==
  ASSUME IInv, NEW c \in Clients, OpenDriver(c)
  PROVE  IInv'
<1>1. client[c].pc = "open" /\ UNCHANGED <<bus, held>>
  BY DEF OpenDriver
<1>2. held \in [Clients -> SUBSET Handles]
  BY DEF IInv, TypeOK
<1>3. CASE Return(c, "inaccessible") /\ UNCHANGED past
  BY <1>1, <1>2, <1>3, ReturnStep
<1>4. client[c] \in ClientType /\ client[c].result = "none"
  BY <1>1, ListTypes DEF IInv, ClientInv, CallInv
<1>5. ASSUME opener = NoClient, opener' = c,
             client' \in [Clients -> ClientType], ClientInv(c)',
             client'[c].pc \notin {"idle", "open", "returned"},
             past' \in [Clients -> [steady : SUBSET Entries, seen : SUBSET Entries,
                                    grown : BOOLEAN]],
             \A b \in Clients \ {c} : client'[b] = client[b] /\ past'[b] = past[b]
      PROVE  IInv'
  <2>1. \A b \in Clients \ {c} : opener' = b <=> opener = b
    BY <1>5, DeviceListAssumption
  <2> QED BY <1>1, <1>2, <1>5, <2>1, CallProgress
<1>6. ASSUME NEW pc \in {"redirect", "stop"}, client[c].call = pc, Step(c, pc),
             opener = NoClient, opener' = c, UNCHANGED past
      PROVE  IInv'
  <2>1. /\ client' \in [Clients -> ClientType] /\ client'[c].pc = pc
        /\ client'[c].call = pc /\ client'[c].result = "none"
        /\ \A b \in Clients \ {c} : client'[b] = client[b]
    BY <1>4, <1>6, ListTypes DEF Step, ClientType
  <2>2. ClientInv(c)'
    BY <2>1 DEF ClientInv, CallInv, HistoryInv, CountInv, AllocateInv,
       EnumerateInv, ResultInv
  <2> QED BY <1>5, <1>6, <2>1, <2>2, ListTypes
<1>7. ASSUME client[c].call = "list", opener = NoClient, opener' = c,
             client' = [client EXCEPT ![c].pc = "count", ![c].left = hubs],
             past' = [past EXCEPT ![c] = [NoPast EXCEPT !.steady = Present, !.seen = Present]]
      PROVE  IInv'
  <2> DEFINE x == [NoPast EXCEPT !.steady = Present, !.seen = Present]
             Type == [steady : SUBSET Entries, seen : SUBSET Entries, grown : BOOLEAN]
  <2>1. x \in Type /\ x.steady = Present /\ x.seen = Present /\ x.grown = FALSE
    BY Defaults, ListTypes
  <2>2. past' = [past EXCEPT ![c] = x] /\ past \in [Clients -> Type]
    BY <1>7, ListTypes
  <2> HIDE DEF x, Type
  <2>3. /\ past' \in [Clients -> Type] /\ past'[c] = x
        /\ \A b \in Clients \ {c} : past'[b] = past[b]
    BY <2>1, <2>2
  <2>4. /\ client' \in [Clients -> ClientType]
        /\ client'[c].pc = "count" /\ client'[c].left = hubs
        /\ client'[c].call = "list" /\ client'[c].result = "none"
        /\ client'[c].list = client[c].list /\ client'[c].number = client[c].number
        /\ \A b \in Clients \ {c} : client'[b] = client[b]
    BY <1>4, <1>7, ListTypes DEF ClientType
  <2>5. Present' = Present /\ hubs' = hubs
    BY <1>1 DEF bus, Present
  <2>6. client[c].list = {} /\ client[c].number = 0
    BY <1>1 DEF IInv, ClientInv, CallInv
  <2>7. CallInv(c)' /\ AllocateInv(c)' /\ EnumerateInv(c)' /\ ResultInv(c)'
    BY <2>4, <2>6 DEF CallInv, AllocateInv, EnumerateInv, ResultInv
  <2>8. HistoryInv(c)'
    BY <2>1, <2>3, <2>4, <2>5, <2>6 DEF HistoryInv
  <2>9. CountInv(c)'
    <3>1. On(hubs) = Present /\ On(Hubs \ hubs) = {}
      BY DEF On, Present
    <3>2. On(client[c].left)' = Present /\ On(Hubs \ client[c].left)' = {}
      BY <2>4, <2>5, <3>1 DEF On
    <3>3. Cardinality((Hubs \ hubs) \X Devices) \in Nat /\ Cardinality({}) = 0
      BY FiniteEntries, FS_EmptySet DEF Entries
    <3>4. client'[c].number <= Cardinality((Hubs \ client'[c].left) \X Devices)
      BY <2>4, <2>6, <3>3
    <3>5. past'[c].steady = Present
      BY <2>1, <2>3
    <3>6. past'[c].steady \subseteq On(client[c].left)'
      BY <3>2, <3>5
    <3>7. Cardinality(On(Hubs \ client[c].left)') <= client'[c].number
      <4>1. Cardinality(On(Hubs \ client[c].left)') = Cardinality({})
        BY <3>2, Zenon
      <4> QED BY <2>4, <2>6, <3>3, <4>1
    <3> QED BY <2>4, <2>5, <3>4, <3>6, <3>7 DEF CountInv
  <2>10. ClientInv(c)'
    BY <2>7, <2>8, <2>9 DEF ClientInv
  <2> QED BY <1>5, <1>7, <2>3, <2>4, <2>10 DEF Type
<1>8. client[c].call \in {"list", "redirect", "stop"}
  BY <1>1, <1>4 DEF IInv, ClientInv, CallInv, ClientType
<1>9. CASE opener # NoClient
  BY <1>3, <1>9 DEF OpenDriver
<1>10. CASE opener = NoClient /\ client[c].call = "list"
  BY <1>7, <1>10 DEF OpenDriver
<1>11. CASE opener = NoClient /\ client[c].call \in {"redirect", "stop"}
  BY <1>6, <1>11 DEF OpenDriver
<1> QED BY <1>8, <1>9, <1>10, <1>11

\* A step of a request that goes on leaves the control device open.
LEMMA InCall ==
  ASSUME IInv, NEW c \in Clients, client[c].pc \in {"count", "allocate", "enumerate"},
         UNCHANGED <<bus, opener, held, past>>,
         client' \in [Clients -> ClientType],
         client'[c].pc \in {"count", "allocate", "enumerate"},
         client'[c].call = client[c].call, client'[c].result = client[c].result,
         \A b \in Clients \ {c} : client'[b] = client[b],
         client'[c].pc \in {"count", "allocate"} => client'[c].list = {},
         HistoryInv(c)', CountInv(c)', AllocateInv(c)', EnumerateInv(c)'
  PROVE  IInv'
<1>1. opener = c /\ opener \in Clients \cup {NoClient}
  BY DEF IInv, OpenOnlyInCalls, TypeOK
<1>2. client[c].call = "list" /\ client[c].result = "none"
  BY DEF IInv, ClientInv, CallInv
<1>3. CallInv(c)' /\ ResultInv(c)'
  BY <1>2 DEF CallInv, ResultInv
<1>4. ClientInv(c)'
  BY <1>3 DEF ClientInv
<1>5. held \in [Clients -> SUBSET Handles]
  BY DEF IInv, TypeOK
<1> QED BY <1>1, <1>4, <1>5, ListTypes, CallProgress

\* CountDevices at one filter: the count keeps up with the hubs behind it.
LEMMA CountFilter ==
  ASSUME IInv, NEW c \in Clients, NEW h \in client[c].left,
         client[c].pc = "count",
         client' = [client EXCEPT ![c].left = @ \ {h},
                                  ![c].number = @ + Cardinality(children[h])],
         UNCHANGED <<bus, opener, held, past>>
  PROVE  IInv'
<1> DEFINE left == client[c].left
           number == client[c].number
           n == Cardinality(children[h])
           Done == (Hubs \ left) \X Devices
<1>1. /\ CountInv(c) /\ CallInv(c) /\ HistoryInv(c)
      /\ client[c] \in ClientType /\ client \in [Clients -> ClientType]
      /\ hubs \in SUBSET Hubs /\ children \in [Hubs -> SUBSET Devices]
  BY ListTypes DEF IInv, ClientInv
<1>2. h \in hubs /\ h \in Hubs /\ left \in SUBSET Hubs
  BY <1>1 DEF CountInv, ClientType
<1>3. children[h] \in SUBSET Devices /\ IsFiniteSet(children[h]) /\ n \in Nat
  BY <1>1, <1>2, Row
<1>4. number \in Nat /\ Cardinality(Entries) \in Nat
  BY <1>1, FiniteEntries DEF ClientType
<1>5. number + n <= Cardinality((Hubs \ (left \ {h})) \X Devices)
  <2>1. Done \in SUBSET Entries
    BY DEF Entries
  <2>2. Cardinality(Done \cup ({h} \X Devices)) = Cardinality(Done) + Cardinality(Devices)
    <3>1. \A e \in Done : e[1] # h
      OBVIOUS
    <3> HIDE DEF Done
    <3> QED BY <1>2, <2>1, <3>1, AddRow
  <2>3. (Hubs \ (left \ {h})) \X Devices = Done \cup ({h} \X Devices)
    BY <1>2
  <2>4. n <= Cardinality(Devices) /\ Cardinality(Devices) \in Nat
    BY <1>3, DeviceListAssumption, FS_Subset, FS_CardinalityType
  <2>5. number <= Cardinality(Done) /\ Cardinality(Done) \in Nat
    BY <1>1, <2>1, FiniteEntries DEF CountInv
  <2>6. Cardinality((Hubs \ (left \ {h})) \X Devices) = Cardinality(Done \cup ({h} \X Devices))
    BY <2>3, Zenon
  <2> HIDE DEF Done, left, number, n
  <2> QED BY <1>3, <1>4, <2>2, <2>4, <2>5, <2>6
<1>6. Cardinality((Hubs \ (left \ {h})) \X Devices) <= Cardinality(Entries)
  BY FiniteEntries DEF Entries
<1>7. Cardinality((Hubs \ (left \ {h})) \X Devices) \in Nat
  BY FiniteEntries DEF Entries
<1>8. number + n \in 0 .. Cardinality(Entries)
  <2> HIDE DEF number, n, left
  <2> QED BY <1>3, <1>4, <1>5, <1>6, <1>7
<1>9. left \ {h} \in SUBSET Hubs
  BY <1>2
<1>10. /\ client' \in [Clients -> ClientType]
       /\ client'[c].pc = "count" /\ client'[c].left = left \ {h}
       /\ client'[c].number = number + n
       /\ client'[c].call = client[c].call /\ client'[c].result = client[c].result
       /\ client'[c].list = client[c].list
       /\ \A b \in Clients \ {c} : client'[b] = client[b]
  <2> DEFINE s == number + n
             l == left \ {h}
  <2>1. client' = [client EXCEPT ![c].left = l, ![c].number = s]
    BY <1>1
  <2>2. s \in 0 .. Cardinality(Entries) /\ l \in SUBSET Hubs
    BY <1>8, <1>9
  <2> DEFINE x == [client[c] EXCEPT !.left = l, !.number = s]
  <2> HIDE DEF s, l
  <2>4. /\ x \in ClientType /\ x.pc = client[c].pc /\ x.left = l /\ x.number = s
        /\ x.call = client[c].call /\ x.result = client[c].result /\ x.list = client[c].list
    BY <1>1, <2>2 DEF ClientType
  <2>5. client' = [client EXCEPT ![c] = x]
    BY <1>1, <2>1
  <2> HIDE DEF x
  <2>3. /\ client' \in [Clients -> ClientType]
        /\ client'[c].pc = "count" /\ client'[c].left = l /\ client'[c].number = s
        /\ client'[c].call = client[c].call /\ client'[c].result = client[c].result
        /\ client'[c].list = client[c].list
        /\ \A b \in Clients \ {c} : client'[b] = client[b]
    BY <1>1, <2>4, <2>5
  <2> QED BY <2>3 DEF s, l
<1>11. Present' = Present /\ hubs' = hubs /\ past' = past
  BY DEF bus, Present
<1>12. HistoryInv(c)'
  BY <1>1, <1>10, <1>11 DEF HistoryInv
<1>13. On(Hubs \ (left \ {h})) = On(Hubs \ left) \cup ({h} \X children[h])
  <2>1. {h} \X children[h] = On({h})
    BY <1>2, Rows
  <2>2. On(Hubs \ (left \ {h})) = On(Hubs \ left) \cup On({h})
    BY <1>2 DEF On
  <2> QED BY <2>1, <2>2
<1>14. past[c].grown \/ Cardinality(On(Hubs \ (left \ {h}))) <= number + n
  <2>1. On(Hubs \ left) \in SUBSET Entries
    BY ListTypes
  <2>2. Cardinality(On(Hubs \ left) \cup ({h} \X children[h]))
          <= Cardinality(On(Hubs \ left)) + n
    BY <1>2, <1>3, <2>1, AddRow
  <2>3. Cardinality(On(Hubs \ left)) \in Nat
    BY <2>1, FiniteEntries
  <2>4. On(Hubs \ left) \cup ({h} \X children[h]) \in SUBSET Entries
    BY <1>2, <1>3, <2>1, AddRow
  <2>5. Cardinality(On(Hubs \ left) \cup ({h} \X children[h])) \in Nat
    BY <2>4, FiniteEntries
  <2>6. past[c].grown \/ Cardinality(On(Hubs \ left)) <= number
    BY <1>1 DEF CountInv
  <2>7. Cardinality(On(Hubs \ (left \ {h})))
          = Cardinality(On(Hubs \ left) \cup ({h} \X children[h]))
    BY <1>13, Zenon
  <2>8. CASE past[c].grown
    BY <2>8
  <2>9. CASE Cardinality(On(Hubs \ left)) <= number
    <3> HIDE DEF left, number, n
    <3> QED BY <1>3, <1>4, <2>2, <2>3, <2>5, <2>7, <2>9
  <2> QED BY <2>6, <2>8, <2>9
<1>15. number + n = 0 => past[c].steady \subseteq On(left \ {h})
  <2> SUFFICES ASSUME number + n = 0 PROVE past[c].steady \subseteq On(left \ {h})
    OBVIOUS
  <2>1. number = 0 /\ n = 0
    <3> HIDE DEF number, n
    <3> QED BY <1>3, <1>4
  <2>2. children[h] = {}
    BY <1>3, <2>1, FS_EmptySet
  <2>3. On({h}) = {}
    BY <1>2, <2>2, Rows
  <2>4. past[c].steady \subseteq On(left)
    BY <1>1, <2>1 DEF CountInv
  <2> QED BY <2>3, <2>4 DEF On
<1>16. CountInv(c)'
  <2>1. \A hs : On(hs)' = On(hs)
    BY <1>11 DEF On
  <2>2. On(client[c].left)' = On(left \ {h})
    BY <1>10, <1>11 DEF On
  <2>3. On(Hubs \ client[c].left)' = On(Hubs \ (left \ {h}))
    BY <1>10, <1>11 DEF On
  <2>4. client'[c].left \subseteq hubs'
    BY <1>1, <1>10, <1>11 DEF CountInv
  <2>5. client'[c].number <= Cardinality((Hubs \ client'[c].left) \X Devices)
    BY <1>5, <1>10
  <2>6. client'[c].number = 0 => past'[c].steady \subseteq On(client[c].left)'
    BY <1>10, <1>11, <1>15, <2>2
  <2>7. past'[c].grown \/ Cardinality(On(Hubs \ client[c].left)') <= client'[c].number
    <3>1. Cardinality(On(Hubs \ client[c].left)') = Cardinality(On(Hubs \ (left \ {h})))
      BY <2>3, Zenon
    <3> QED BY <1>10, <1>11, <1>14, <3>1
  <2> QED BY <2>4, <2>5, <2>6, <2>7 DEF CountInv
<1>17. AllocateInv(c)' /\ EnumerateInv(c)'
  BY <1>10 DEF AllocateInv, EnumerateInv
<1>18. client[c].list = {}
  BY <1>1 DEF CallInv
<1> QED BY <1>10, <1>12, <1>16, <1>17, <1>18, InCall

\* IOCTL_USBDK_COUNT_DEVICES preserves the invariant.
LEMMA CountDevicesStep ==
  ASSUME IInv, NEW c \in Clients, CountDevices(c)
  PROVE  IInv'
<1>1. client[c].pc = "count" /\ UNCHANGED <<bus, opener, held, past>>
  BY DEF CountDevices
<1>2. ASSUME NEW h \in client[c].left,
             client' = [client EXCEPT ![c].left = @ \ {h},
                                      ![c].number = @ + Cardinality(children[h])]
      PROVE  IInv'
  BY <1>1, <1>2, CountFilter
<1>3. ASSUME client[c].left = {}, client' = [client EXCEPT ![c].pc = "allocate"]
      PROVE  IInv'
  <2>1. /\ CountInv(c) /\ CallInv(c) /\ HistoryInv(c)
        /\ client[c] \in ClientType /\ client \in [Clients -> ClientType]
    BY ListTypes DEF IInv, ClientInv
  <2>2. /\ client' \in [Clients -> ClientType] /\ client'[c].pc = "allocate"
        /\ client'[c].call = client[c].call /\ client'[c].result = client[c].result
        /\ client'[c].list = client[c].list /\ client'[c].number = client[c].number
        /\ \A b \in Clients \ {c} : client'[b] = client[b]
    BY <1>3, <2>1 DEF ClientType
  <2>3. Present' = Present /\ past' = past
    BY <1>1 DEF bus, Present
  <2>4. On(Hubs \ client[c].left) = Present
    BY <1>3 DEF On, Present, Entries
  <2>5. Cardinality(On(Hubs \ client[c].left)) = Cardinality(Present)
    BY <2>4, Zenon
  <2>6. Cardinality(Present') = Cardinality(Present)
    BY <2>3, Zenon
  <2>7. past[c].grown \/ Cardinality(Present) <= client[c].number
    BY <1>1, <2>1, <2>5 DEF CountInv
  <2>8. AllocateInv(c)'
    BY <2>2, <2>3, <2>6, <2>7 DEF AllocateInv
  <2>9. HistoryInv(c)'
    BY <1>1, <2>1, <2>2, <2>3 DEF HistoryInv
  <2>10. CountInv(c)' /\ EnumerateInv(c)'
    BY <2>2 DEF CountInv, EnumerateInv
  <2>11. client'[c].list = {}
    BY <1>1, <2>1, <2>2 DEF CallInv
  <2> QED BY <1>1, <2>2, <2>8, <2>9, <2>10, <2>11, InCall
<1> QED BY <1>2, <1>3 DEF CountDevices, Step

\* A request that fails before its walk preserves the invariant.
LEMMA RequestFailsStep ==
  ASSUME IInv, NEW c \in Clients, RequestFails(c)
  PROVE  IInv'
<1>1. /\ client[c].pc \in {"count", "enumerate"} /\ Return(c, "failure")
      /\ UNCHANGED <<bus, held, past>>
  BY DEF RequestFails
<1>2. held \in [Clients -> SUBSET Handles]
  BY DEF IInv, TypeOK
<1> QED BY <1>1, <1>2, ReturnStep

\* An empty list is true when nothing was counted.
LEMMA CountedNoneStep ==
  ASSUME IInv, NEW c \in Clients, CountedNone(c)
  PROVE  IInv'
<1>1. /\ client[c].pc = "count" /\ client[c].left = {} /\ client[c].number = 0
      /\ Return(c, "success") /\ UNCHANGED <<bus, held, past>>
  BY DEF CountedNone
<1>2. CountInv(c) /\ client[c].list = {}
  BY <1>1 DEF IInv, ClientInv, CallInv
<1>3. past[c].steady \subseteq client[c].list
  BY <1>1, <1>2 DEF CountInv, On
<1>4. Cardinality(client[c].list) = Cardinality({})
  BY <1>2, Zenon
<1>5. client[c].number = Cardinality(client[c].list)
  BY <1>1, <1>4, FS_EmptySet
<1>6. held \in [Clients -> SUBSET Handles]
  BY DEF IInv, TypeOK
<1> QED BY <1>1, <1>2, <1>3, <1>5, <1>6, ReturnStep

\* The allocation of the buffer, and the begin of the second walk, preserve the
\* invariant.
LEMMA AllocateStep ==
  ASSUME IInv, NEW c \in Clients, Allocate(c)
  PROVE  IInv'
<1>1. client[c].pc = "allocate" /\ UNCHANGED <<bus, held, past>>
  BY DEF Allocate
<1>2. held \in [Clients -> SUBSET Handles]
  BY DEF IInv, TypeOK
<1>3. CASE Return(c, "failure")
  BY <1>1, <1>2, <1>3, ReturnStep
<1>4. ASSUME client' = [client EXCEPT ![c].pc = "enumerate", ![c].left = hubs],
             UNCHANGED opener
      PROVE  IInv'
  <2>1. /\ AllocateInv(c) /\ CallInv(c) /\ HistoryInv(c)
        /\ client[c] \in ClientType /\ client \in [Clients -> ClientType]
        /\ hubs \in SUBSET Hubs
    BY ListTypes DEF IInv, ClientInv
  <2>2. /\ client' \in [Clients -> ClientType]
        /\ client'[c].pc = "enumerate" /\ client'[c].left = hubs
        /\ client'[c].call = client[c].call /\ client'[c].result = client[c].result
        /\ client'[c].list = client[c].list /\ client'[c].number = client[c].number
        /\ \A b \in Clients \ {c} : client'[b] = client[b]
    BY <1>4, <2>1 DEF ClientType
  <2>3. Present' = Present /\ hubs' = hubs /\ past' = past
    BY <1>1 DEF bus, Present
  <2>4. client'[c].list = {}
    BY <1>1, <2>1, <2>2 DEF CallInv
  <2>5. Reach(c)' = Present
    BY <2>2, <2>3, <2>4 DEF Reach, On, Present
  <2>6. Cardinality(Reach(c)') = Cardinality(Present)
    BY <2>5, Zenon
  <2>7. past[c].steady \subseteq Present
    BY <1>1, <2>1 DEF HistoryInv
  <2>8. EnumerateInv(c)'
    BY <1>1, <2>1, <2>2, <2>3, <2>5, <2>6, <2>7 DEF EnumerateInv, AllocateInv
  <2>9. HistoryInv(c)'
    BY <1>1, <2>1, <2>2, <2>3 DEF HistoryInv
  <2>10. CountInv(c)' /\ AllocateInv(c)'
    BY <2>2 DEF CountInv, AllocateInv
  <2> QED BY <1>1, <1>4, <2>2, <2>8, <2>9, <2>10, InCall
<1> QED BY <1>3, <1>4 DEF Allocate

\* IOCTL_USBDK_ENUM_DEVICES at one filter: a list that does not fit any more
\* shows that a device came.
LEMMA EnumerateDevicesStep ==
  ASSUME IInv, NEW c \in Clients, EnumerateDevices(c)
  PROVE  IInv'
<1>1. client[c].pc = "enumerate" /\ UNCHANGED <<bus, held, past>>
  BY DEF EnumerateDevices
<1>2. /\ EnumerateInv(c) /\ CallInv(c) /\ HistoryInv(c)
      /\ client[c] \in ClientType /\ client \in [Clients -> ClientType]
  BY ListTypes DEF IInv, ClientInv
<1>3. PICK h \in client[c].left :
        LET list == client[c].list \cup ({h} \X children[h])
        IN  IF Cardinality(list) > client[c].number
            THEN IoctlFailed(c, "STATUS_BUFFER_TOO_SMALL")
            ELSE /\ client' = [client EXCEPT ![c].left = @ \ {h}, ![c].list = list]
                 /\ UNCHANGED opener
  BY DEF EnumerateDevices
<1> DEFINE list == client[c].list \cup ({h} \X children[h])
<1>4. h \in hubs /\ h \in Hubs /\ client[c].left \in SUBSET Hubs
  BY <1>1, <1>2, ListTypes DEF EnumerateInv, ClientType
<1>5. {h} \X children[h] = On({h})
  BY <1>4, Rows
<1>6. list \subseteq Reach(c) /\ Reach(c) = list \cup On(client[c].left \ {h})
  BY <1>5 DEF Reach, On
<1>7. Reach(c) \in SUBSET Entries
  BY <1>2, ListTypes DEF Reach, ClientType
<1>8. list \in SUBSET Entries /\ Cardinality(list) <= Cardinality(Reach(c))
  BY <1>6, <1>7, FiniteEntries
<1>9. Cardinality(Reach(c)) \in Nat /\ Cardinality(list) \in Nat /\ client[c].number \in Nat
  BY <1>2, <1>7, <1>8, FiniteEntries DEF ClientType
<1>10. held \in [Clients -> SUBSET Handles]
  BY DEF IInv, TypeOK
<1>11. CASE Cardinality(list) > client[c].number
  <2>1. past[c].grown
    <3>1. past[c].grown \/ Cardinality(Reach(c)) <= client[c].number
      BY <1>1, <1>2 DEF EnumerateInv
    <3>2. ~(Cardinality(Reach(c)) <= client[c].number)
      <4> HIDE DEF list
      <4> QED BY <1>8, <1>9, <1>11
    <3> QED BY <3>1, <3>2
  <2>2. Return(c, "bufferTooSmall")
    BY <1>3, <1>11 DEF IoctlFailed, Win32Error
  <2>3. client[c].call = "list"
    BY <1>1, <1>2 DEF CallInv
  <2> QED BY <1>1, <1>10, <2>1, <2>2, <2>3, ReturnStep
<1>12. CASE ~(Cardinality(list) > client[c].number)
  <2>1. client' = [client EXCEPT ![c].left = @ \ {h}, ![c].list = list] /\ UNCHANGED opener
    BY <1>3, <1>12
  <2> DEFINE left == client[c].left \ {h}
             x == [client[c] EXCEPT !.left = left, !.list = list]
  <2>2. left \in SUBSET Hubs
    BY <1>4
  <2> HIDE DEF list, left
  <2>3. /\ x \in ClientType /\ x.pc = client[c].pc /\ x.left = left /\ x.list = list
        /\ x.call = client[c].call /\ x.result = client[c].result
        /\ x.number = client[c].number
    BY <1>2, <1>8, <2>2 DEF ClientType
  <2>4. client' = [client EXCEPT ![c] = x]
    BY <1>2, <2>1 DEF left
  <2> HIDE DEF x
  <2>5. /\ client' \in [Clients -> ClientType]
        /\ client'[c].pc = "enumerate" /\ client'[c].left = left /\ client'[c].list = list
        /\ client'[c].call = client[c].call /\ client'[c].result = client[c].result
        /\ client'[c].number = client[c].number
        /\ \A b \in Clients \ {c} : client'[b] = client[b]
    BY <1>1, <1>2, <2>3, <2>4
  <2>6. Present' = Present /\ hubs' = hubs /\ past' = past
    BY <1>1 DEF bus, Present
  <2>7. Reach(c)' = Reach(c)
    <3>1. Reach(c)' = list \cup On(left)
      BY <2>5, <2>6 DEF Reach, On
    <3> QED BY <1>6, <3>1 DEF left
  <2>8. Cardinality(Reach(c)') = Cardinality(Reach(c))
    BY <2>7, Zenon
  <2>9. client[c].left \subseteq hubs /\ left \subseteq client[c].left
    BY <1>1, <1>2 DEF EnumerateInv, left
  <2>10. EnumerateInv(c)'
    BY <1>1, <1>2, <2>5, <2>6, <2>7, <2>8, <2>9 DEF EnumerateInv
  <2>11. list \subseteq past[c].seen
    BY <1>1, <1>2, <1>5, ListTypes DEF HistoryInv, list
  <2>12. HistoryInv(c)'
    BY <1>1, <1>2, <2>5, <2>6, <2>11 DEF HistoryInv
  <2>13. CountInv(c)' /\ AllocateInv(c)'
    BY <2>5 DEF CountInv, AllocateInv
  <2> QED BY <1>1, <2>1, <2>5, <2>10, <2>12, <2>13, InCall
<1> QED BY <1>11, <1>12

\* The end of the second walk: the list has every steady device.
LEMMA EnumeratedStep ==
  ASSUME IInv, NEW c \in Clients, Enumerated(c)
  PROVE  IInv'
<1>1. /\ client[c].pc = "enumerate" /\ client[c].left = {} /\ opener' = NoClient
      /\ client' = [client EXCEPT ![c].pc = "returned", ![c].result = "success",
                                  ![c].number = Cardinality(client[c].list)]
      /\ UNCHANGED <<bus, held, past>>
  BY DEF Enumerated
<1>2. /\ EnumerateInv(c) /\ CallInv(c) /\ HistoryInv(c)
      /\ client[c] \in ClientType /\ client \in [Clients -> ClientType]
  BY ListTypes DEF IInv, ClientInv
<1>3. opener = c /\ held \in [Clients -> SUBSET Handles] /\ NoClient \notin Clients
  BY <1>1, DeviceListAssumption DEF IInv, OpenOnlyInCalls, TypeOK
<1> DEFINE n == Cardinality(client[c].list)
<1>4. n \in 0 .. Cardinality(Entries)
  <2>1. client[c].list \in SUBSET Entries
    BY <1>2 DEF ClientType
  <2>2. n \in Nat /\ n <= Cardinality(Entries) /\ Cardinality(Entries) \in Nat
    BY <2>1, FiniteEntries
  <2> QED BY <2>2
<1>5. client' = [client EXCEPT ![c].pc = "returned", ![c].result = "success", ![c].number = n]
  BY <1>1
<1> HIDE DEF n
<1>6. /\ client' \in [Clients -> ClientType]
      /\ client'[c].pc = "returned" /\ client'[c].result = "success"
      /\ client'[c].number = n /\ client'[c].list = client[c].list
      /\ client'[c].call = client[c].call
      /\ \A b \in Clients \ {c} : client'[b] = client[b]
  BY <1>2, <1>4, <1>5 DEF ClientType
<1>7. past[c].steady \subseteq client[c].list
  BY <1>1, <1>2 DEF EnumerateInv, Reach, On
<1>8. client[c].list \subseteq past[c].seen
  BY <1>1, <1>2 DEF HistoryInv
<1>9. client'[c].number = Cardinality(client'[c].list)
  BY <1>6 DEF n
<1>10. CallInv(c)'
  BY <1>1, <1>2, <1>6 DEF CallInv
<1>11. ResultInv(c)'
  BY <1>1, <1>6, <1>7, <1>8, <1>9 DEF ResultInv
<1>12. HistoryInv(c)' /\ CountInv(c)' /\ AllocateInv(c)' /\ EnumerateInv(c)'
  BY <1>6 DEF HistoryInv, CountInv, AllocateInv, EnumerateInv
<1>13. ClientInv(c)'
  BY <1>10, <1>11, <1>12 DEF ClientInv
<1> QED BY <1>1, <1>3, <1>6, <1>13, ListTypes, CallProgress

\* The begin and the end of a redirection preserve the invariant.
LEMMA RedirectStep ==
  ASSUME IInv, NEW c \in Clients, StartRedirect(c) \/ StopRedirect(c)
  PROVE  IInv'
<1>1. /\ client[c].pc \in {"redirect", "stop"} /\ UNCHANGED <<bus, past>>
      /\ \E result \in {"success", "failure"} : Return(c, result)
  BY DEF StartRedirect, StopRedirect
<1>2. client[c].call # "list"
  BY <1>1 DEF IInv, ClientInv, CallInv
<1>3. held' \in [Clients -> SUBSET Handles]
  <2>1. held \in [Clients -> SUBSET Handles]
    BY DEF IInv, TypeOK
  <2>2. CASE UNCHANGED held
    BY <2>1, <2>2
  <2>3. ASSUME NEW x \in Handles, held' = [held EXCEPT ![c] = @ \cup {x}]
        PROVE  held' \in [Clients -> SUBSET Handles]
    BY <2>1, <2>3
  <2>4. ASSUME NEW x, held' = [held EXCEPT ![c] = @ \ {x}]
        PROVE  held' \in [Clients -> SUBSET Handles]
    BY <2>1, <2>4
  <2>5. ASSUME NEW d \in Devices, NEW known \in BOOLEAN
        PROVE  [device |-> d, known |-> known] \in Handles
    BY DEF Handles
  <2> QED BY <2>2, <2>3, <2>4, <2>5 DEF StartRedirect, StopRedirect
<1> QED BY <1>1, <1>2, <1>3, ReturnStep

\* Every step preserves the invariant.
LEMMA NextIInv == IInv /\ [Next]_vars => IInv'
<1> SUFFICES ASSUME IInv, [Next]_vars PROVE IInv'
  OBVIOUS
<1>1. CASE BusStep
  BY <1>1, BusStepInv
<1>2. ASSUME NEW c \in Clients, Call(c) \/ CallStep(c) \/ Release(c) \/ ClientExits(c)
      PROVE  IInv'
  BY <1>2, CallBegins, OpenDriverStep, CountDevicesStep, RequestFailsStep,
     CountedNoneStep, AllocateStep, EnumerateDevicesStep, EnumeratedStep,
     RedirectStep, ReleaseStep, ClientExitsStep
     DEF CallStep
<1>3. CASE UNCHANGED vars
  <2>1. TypeOK' /\ OpenOnlyInCalls' /\ BusInv'
    BY <1>3 DEF vars, IInv, TypeOK, OpenOnlyInCalls, BusInv
  <2>2. Present' = Present
    BY <1>3 DEF vars, Present
  <2>3. ASSUME NEW c \in Clients PROVE ClientInv(c)'
    <3>1. CallInv(c)' /\ HistoryInv(c)' /\ ResultInv(c)'
      BY <1>3, <2>2 DEF vars, IInv, ClientInv, CallInv, HistoryInv, ResultInv
    <3>2. CountInv(c)' /\ AllocateInv(c)' /\ EnumerateInv(c)'
      BY <1>3, <2>2 DEF vars, IInv, ClientInv, CountInv, AllocateInv, EnumerateInv,
         Reach, On
    <3> QED BY <3>1, <3>2 DEF ClientInv
  <2> QED BY <2>1, <2>3 DEF IInv
<1> QED BY <1>1, <1>2, <1>3 DEF Next

\* The invariant holds in every state, whatever the clients call and however
\* the bus changes between and during their requests.
THEOREM Invariance == Spec => []IInv
<1> QED BY InitIInv, NextIInv, PTL DEF Spec

\* Every variable keeps its type: in particular DeviceNumber never exceeds the
\* number of places a device can be at.
THEOREM TypeCorrect == Spec => []TypeOK
<1>1. IInv => TypeOK
  BY DEF IInv
<1> QED BY <1>1, Invariance, PTL

\* What UsbDk_GetDevicesList returns has every device that was there from the
\* begin of the call to its end, none that never was, and as many entries as it
\* says; it fails for lack of room only if a device came meanwhile.
THEOREM ListIsTrue == Spec => []ListResultIsTrue
<1>1. IInv => ListResultIsTrue
  BY DEF IInv, ClientInv, ResultInv, ListResultIsTrue
<1> QED BY <1>1, Invariance, PTL

\* The exclusive control device is open exactly during a call that was let in,
\* whatever way the call ends: no failure shuts later calls out.
THEOREM DriverClosed == Spec => []OpenOnlyInCalls
<1>1. IInv => OpenOnlyInCalls
  BY DEF IInv
<1> QED BY <1>1, Invariance, PTL
================================================================================
