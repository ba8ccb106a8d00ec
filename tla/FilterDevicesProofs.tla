-------------------------- MODULE FilterDevicesProofs --------------------------
(* IInv is an inductive invariant of FilterDevices, for any finite set of
   devices and any pool of control devices: while the holder has not been
   spoiled, the count is the number of devices that hold a reference, and
   all of them refer to the one control device there is.                    *)
EXTENDS FilterDevices, FiniteSetTheorems, TLAPS

\* What the fields of a filter device and its thread have to do with each other.
Shape(x) ==
    /\ x.pc \in {"refer", "create", "register", "referred", "select"}
          => x.adding /\ x.serial = NoSerial
    /\ x.next \in {"refer", "referred"} => x.adding /\ x.serial = NoSerial
    /\ x.next \in {"gone", "refer", "referred"}
    /\ x.pc \notin {"release", "delete"} => x.next = "gone"
    /\ x.pc = "gone" => x = Gone
    /\ x.pc \in {"refer", "create", "register", "release", "delete"} => x.control = NullPtr
    /\ x.pc = "attached" => ~x.adding
    /\ x.pc \in {"attached", "select"} => x.control # NullPtr
    /\ x.pc = "attached" => (x.serial \in Nat <=> x.strategy \in Hiding)

\* It holds of every device.
ShapeInv == \A f \in Filters : Shape(filter[f])

\* PnP adds one device at a time.
AddingInv == \A f, g \in Filters : filter[f].adding /\ filter[g].adding => f = g

\* PnP knows a device by a serial number only while it is attached and hides.
ReportedInv == \A f \in Filters : reported[f] # NoSerial =>
    At(f, "attached") /\ filter[f].strategy \in Hiding /\ reported[f] = filter[f].serial

\* A device that may be in the lists of a control device.
Listed(f, o) == filter[f].pc \in {"attached", "destroy"} /\ filter[f].control = o

\* The lists hold devices that refer to them, with different small serial numbers.
ListsInv == \A o \in Objects :
    /\ \A f \in hubs[o] : Listed(f, o)
    /\ \A f \in hidden[o] : Listed(f, o) /\ filter[f].serial \in Nat /\ filter[f].serial < peak
    /\ \A f, g \in hidden[o] : filter[f].serial = filter[g].serial => f = g

\* Even a spoiled holder counts at least the references there are.
CountInv == Cardinality(Holders) <= refCount

\* The control device that m_Obj points to exists, and no other.
Served == obj # NullPtr /\ live = {obj}

\* None was created yet.
Unserved == obj = NullPtr /\ live = {}

\* What holds until the holder is spoiled: the count is exact, one device creates
\* or deletes the control device while nobody refers to it, all others have it.
Sound ==
    /\ ~crashed
    /\ refCount = Cardinality(Holders)
    /\ \A f \in Filters : filter[f].control # NullPtr => filter[f].control = obj /\ Served
    /\ \A f \in Filters : At(f, "create") => Holders = {f} /\ live = {}
    /\ \A f \in Filters : At(f, "register") => Served
    /\ \A f \in Filters : At(f, "release") => Served \/ (filter[f].next = "referred" /\ Unserved)
    /\ \A f \in Filters : At(f, "delete") =>
          /\ Holders = {} /\ (Served \/ Unserved)
          /\ \A g \in Filters : At(g, "delete") => g = f
    /\ Holders = {} /\ (\A f \in Filters : ~At(f, "delete")) => live = {}
    /\ \A f \in Filters : At(f, "attached") /\ filter[f].strategy \in Hiding =>
          f \in hidden[filter[f].control]

\* The inductive invariant.
IInv ==
    /\ TypeOK /\ CountInv /\ ShapeInv /\ AddingInv /\ ReportedInv /\ ListsInv
    /\ ~spoiled => Sound

\* Holds, of a record.
HoldsRec(x) == x.pc \in {"create", "register", "release"} \/ x.control # NullPtr

\* The types of the fields of a device.
LEMMA Types ==
  ASSUME TypeOK, NEW f \in Filters
  PROVE  /\ filter[f] \in FilterType
         /\ filter[f].pc \in FilterPc /\ filter[f].next \in FilterPc
         /\ filter[f].strategy \in Strategies /\ filter[f].adding \in BOOLEAN
         /\ filter[f].control \in Objects \cup {NullPtr}
         /\ filter[f].serial \in Nat \cup {NoSerial}
BY DEF TypeOK, FilterType

\* The references can be counted.
LEMMA HoldersFinite ==
  /\ IsFiniteSet(Holders) /\ Cardinality(Holders) \in Nat
  /\ Holders = {} <=> Cardinality(Holders) = 0
<1>1. Holders \in SUBSET Filters
  BY DEF Holders
<1>2. IsFiniteSet(Holders)
  BY <1>1, FS_Subset, FilterDevicesAssumption
<1> QED
  BY <1>2, FS_CardinalityType, FS_EmptySet

\* The fields of a device that is gone.
LEMMA GoneFields ==
  /\ Gone \in FilterType /\ Gone.pc = "gone" /\ Gone.next = "gone"
  /\ Gone.strategy = "null" /\ Gone.adding = FALSE /\ Gone.control = NullPtr
  /\ Gone.serial = NoSerial
BY DEF Gone, FilterType, FilterPc, Strategies

\* A step of one device that leaves its fields consistent keeps all devices so.
LEMMA StepKeepsShape ==
  ASSUME TypeOK, ShapeInv, AddingInv,
         NEW f \in Filters, NEW x \in FilterType, Shape(x),
         filter' = [filter EXCEPT ![f] = x],
         x.adding => filter[f].adding \/ \A g \in Filters : ~filter[g].adding
  PROVE  /\ filter' \in [Filters -> FilterType]
         /\ \A g \in Filters : filter'[g].pc = "attached" =>
               (filter'[g].serial \in Nat <=> filter'[g].strategy \in Hiding)
         /\ ShapeInv' /\ AddingInv'
         /\ filter'[f] = x /\ \A g \in Filters \ {f} : filter'[g] = filter[g]
<1>1. /\ filter' \in [Filters -> FilterType]
      /\ filter'[f] = x /\ \A g \in Filters \ {f} : filter'[g] = filter[g]
  BY DEF TypeOK
<1>2. \A g \in Filters : Shape(filter'[g])
  BY <1>1 DEF ShapeInv
<1>3. ShapeInv'
  BY <1>2 DEF ShapeInv, Shape, Gone
<1>4. AddingInv'
  <2>1. SUFFICES ASSUME NEW g \in Filters, NEW h \in Filters,
                        filter'[g].adding, filter'[h].adding
                 PROVE  g = h
    BY DEF AddingInv
  <2>2. CASE x.adding /\ filter[f].adding
    <3>1. filter[g].adding /\ filter[h].adding
      BY <1>1, <2>1, <2>2
    <3> QED BY <3>1 DEF AddingInv
  <2>3. CASE x.adding /\ \A e \in Filters : ~filter[e].adding
    BY <1>1, <2>1, <2>3
  <2>4. CASE ~x.adding
    <3>1. filter[g].adding /\ filter[h].adding
      BY <1>1, <2>1, <2>4
    <3> QED BY <3>1 DEF AddingInv
  <2> QED BY <2>2, <2>3, <2>4
<1>5. \A g \in Filters : filter'[g].pc = "attached" =>
         (filter'[g].serial \in Nat <=> filter'[g].strategy \in Hiding)
  BY <1>2 DEF Shape
<1> QED BY <1>1, <1>3, <1>4, <1>5

\* A step of a device that is not attached leaves what PnP knows true.
LEMMA StepKeepsReported ==
  ASSUME ReportedInv, NEW f \in Filters,
         \A g \in Filters \ {f} : filter'[g] = filter[g],
         filter[f].pc # "attached", reported' = reported
  PROVE  ReportedInv'
BY DEF ReportedInv, At

\* A step that leaves the lists, and what they say of the device, alone.
LEMMA StepKeepsLists ==
  ASSUME TypeOK, ListsInv, NEW f \in Filters,
         \A g \in Filters \ {f} : filter'[g] = filter[g],
         \/ filter[f].pc \notin {"attached", "destroy"}
         \/ /\ filter'[f].pc \in {"attached", "destroy"}
            /\ filter'[f].control = filter[f].control /\ filter'[f].serial = filter[f].serial
         \/ filter[f].control = NullPtr,
         hubs' = hubs, hidden' = hidden, peak' = peak
  PROVE  ListsInv'
<1>1. SUFFICES ASSUME NEW o \in Objects
               PROVE  /\ \A g \in hubs[o] : Listed(g, o)'
                      /\ \A g \in hidden[o] : Listed(g, o)' /\ filter'[g].serial \in Nat
                                              /\ filter'[g].serial < peak
                      /\ \A g, h \in hidden[o] :
                            filter'[g].serial = filter'[h].serial => g = h
  BY DEF ListsInv
<1>2. hubs[o] \subseteq Filters /\ hidden[o] \subseteq Filters /\ o # NullPtr
  BY FilterDevicesAssumption DEF TypeOK
<1>3. \A g \in hubs[o] \cup hidden[o] :
        /\ filter'[g].pc \in {"attached", "destroy"}
        /\ filter'[g].control = filter[g].control /\ filter'[g].serial = filter[g].serial
  BY <1>2 DEF ListsInv, Listed
<1> QED BY <1>2, <1>3 DEF ListsInv, Listed

\* A step that takes and gives back no reference.
LEMMA HoldersKept ==
  ASSUME NEW f \in Filters,
         \A g \in Filters \ {f} : filter'[g] = filter[g],
         HoldsRec(filter'[f]) <=> HoldsRec(filter[f])
  PROVE  Holders' = Holders /\ Cardinality(Holders)' = Cardinality(Holders)
<1>1. \A g \in Filters : Holds(g)' <=> Holds(g)
  BY DEF Holds, HoldsRec
<1>2. Holders' = Holders
  BY <1>1 DEF Holders
<1>3. Cardinality(Holders') = Cardinality(Holders)
  BY <1>2, Zenon
<1> QED BY <1>2, <1>3

\* A step that leaves the holder alone keeps Sound, if the device does not create
\* or delete the control device and what it refers to is the one there is.
LEMMA StepKeepsSound ==
  ASSUME TypeOK, Sound, NEW f \in Filters,
         \A g \in Filters \ {f} : filter'[g] = filter[g],
         HolderFrame, crashed' = crashed,
         HoldsRec(filter'[f]) <=> HoldsRec(filter[f]),
         filter'[f].pc \notin {"create", "register", "delete"}, filter[f].pc # "delete",
         filter'[f].control # NullPtr => filter'[f].control = obj /\ Served,
         filter'[f].pc = "release" =>
            Served \/ (filter'[f].next = "referred" /\ Unserved),
         filter'[f].pc = "attached" /\ filter'[f].strategy \in Hiding =>
            f \in hidden'[filter'[f].control],
         \A o \in Objects : hidden[o] \ {f} \subseteq hidden'[o],
         \A g \in Filters \ {f} : filter[g].pc = "attached" => filter[g].control \in Objects
  PROVE  Sound'
<1>1. Holders' = Holders /\ Cardinality(Holders)' = Cardinality(Holders)
  BY HoldersKept
<1>2. (Served' <=> Served) /\ (Unserved' <=> Unserved) /\ obj' = obj /\ live' = live
  BY DEF Served, Unserved, HolderFrame
<1>3. ~crashed' /\ refCount' = Cardinality(Holders)'
  BY <1>1 DEF Sound, HolderFrame
<1>4. \A g \in Filters : filter'[g].control # NullPtr => filter'[g].control = obj' /\ Served'
  BY <1>2 DEF Sound
<1>5. \A g \in Filters : At(g, "create")' => Holders' = {g} /\ live' = {}
  BY <1>1, <1>2 DEF Sound, At
<1>6. \A g \in Filters : At(g, "register")' => Served'
  BY <1>2 DEF Sound, At
<1>7. \A g \in Filters : At(g, "release")' =>
        Served' \/ (filter'[g].next = "referred" /\ Unserved')
  BY <1>2 DEF Sound, At
<1>8. \A g \in Filters : At(g, "delete")' =>
        /\ Holders' = {} /\ (Served' \/ Unserved')
        /\ \A h \in Filters : At(h, "delete")' => h = g
  BY <1>1, <1>2 DEF Sound, At
<1>9. Holders' = {} /\ (\A g \in Filters : ~At(g, "delete")') => live' = {}
  BY <1>1, <1>2 DEF Sound, At
<1>10. \A g \in Filters : At(g, "attached")' /\ filter'[g].strategy \in Hiding =>
         g \in hidden'[filter'[g].control]
  <2>1. SUFFICES ASSUME NEW g \in Filters, g # f, filter[g].pc = "attached",
                        filter[g].strategy \in Hiding
                 PROVE  g \in hidden'[filter[g].control]
    BY DEF At
  <2>2. g \in hidden[filter[g].control]
    BY <2>1 DEF Sound, At
  <2>3. filter[g].control \in Objects
    BY <2>1
  <2> QED BY <2>1, <2>2, <2>3
<1> QED BY <1>3, <1>4, <1>5, <1>6, <1>7, <1>8, <1>9, <1>10 DEF Sound

\* An attached device refers to a control device.
LEMMA AttachedControl ==
  ASSUME TypeOK, ShapeInv
  PROVE  \A g \in Filters : filter[g].pc = "attached" => filter[g].control \in Objects
BY Types DEF ShapeInv, Shape

\* PnP adds a device.
LEMMA AddDeviceStep == ASSUME IInv, NEW f \in Filters, AddDevice(f) PROVE IInv'
<1>0. PICK pc \in {"refer", "destroy"} :
        Set(f, [Gone EXCEPT !.pc = pc, !.adding = TRUE])
  BY DEF AddDevice
<1> DEFINE x == [Gone EXCEPT !.pc = pc, !.adding = TRUE]
<1>1. /\ x \in FilterType /\ x.pc \in {"refer", "destroy"} /\ x.next = "gone" /\ x.strategy = "null"
      /\ x.adding = TRUE /\ x.control = NullPtr /\ x.serial = NoSerial
  BY DEF Gone, FilterType, FilterPc, Strategies
<1>2. filter' = [filter EXCEPT ![f] = x] /\ filter[f].pc = "gone"
  BY <1>0 DEF AddDevice, Set, At
<1> HIDE DEF x
<1>3. TypeOK /\ ShapeInv /\ AddingInv /\ ReportedInv /\ ListsInv /\ CountInv
  BY DEF IInv
<1>4. filter[f] = Gone
  BY <1>2, <1>3 DEF ShapeInv, Shape
<1>5. Shape(x)
  BY <1>1 DEF Shape
<1>6. \A g \in Filters : ~filter[g].adding
  BY DEF AddDevice
<1>7. /\ filter' \in [Filters -> FilterType]
      /\ \A g \in Filters : filter'[g].pc = "attached" =>
            (filter'[g].serial \in Nat <=> filter'[g].strategy \in Hiding)
      /\ ShapeInv' /\ AddingInv'
      /\ filter'[f] = x /\ \A g \in Filters \ {f} : filter'[g] = filter[g]
  BY <1>1, <1>2, <1>3, <1>5, <1>6, StepKeepsShape
<1>8. TypeOK'
  BY <1>3, <1>7 DEF TypeOK, AddDevice, HolderFrame, ListsFrame, Lives
<1>9. ReportedInv'
  BY <1>2, <1>3, <1>7, StepKeepsReported DEF AddDevice
<1>10. ListsInv'
  BY <1>2, <1>3, <1>7, StepKeepsLists DEF AddDevice, ListsFrame
<1>11. HoldsRec(filter'[f]) <=> HoldsRec(filter[f])
  BY <1>1, <1>4, <1>7, GoneFields DEF HoldsRec
<1>12. CountInv'
  BY <1>3, <1>7, <1>11, HoldersKept DEF CountInv, AddDevice, HolderFrame
<1>13. ASSUME ~spoiled' PROVE Sound'
  <2>1. Sound /\ HolderFrame /\ crashed' = crashed /\ hidden' = hidden
    BY <1>13 DEF IInv, AddDevice, HolderFrame, Lives, ListsFrame
  <2> QED
    BY <1>1, <1>2, <1>3, <1>7, <1>11, <2>1, StepKeepsSound, AttachedControl
<1> QED BY <1>3, <1>7, <1>8, <1>9, <1>10, <1>12, <1>13 DEF IInv

\* A step that takes no reference makes the references no more.
LEMMA HoldersShrink ==
  ASSUME NEW f \in Filters,
         \A g \in Filters \ {f} : filter'[g] = filter[g],
         HoldsRec(filter'[f]) => HoldsRec(filter[f])
  PROVE  /\ Holders' \subseteq Holders
         /\ Cardinality(Holders)' \in Nat /\ Cardinality(Holders)' <= Cardinality(Holders)
         /\ Cardinality(Holders) \in Nat
<1>1. \A g \in Filters : Holds(g)' => Holds(g)
  BY DEF Holds, HoldsRec
<1>2. Holders' \in SUBSET Holders
  BY <1>1 DEF Holders
<1>3. /\ IsFiniteSet(Holders') /\ Cardinality(Holders') \in Nat
      /\ Cardinality(Holders') <= Cardinality(Holders)
  BY <1>2, HoldersFinite, FS_Subset, FS_CardinalityType
<1> QED BY <1>2, <1>3, HoldersFinite

\* A step of one device that leaves the holder alone keeps the invariant.
LEMMA QuietStep ==
  ASSUME IInv, NEW f \in Filters, NEW x \in FilterType, Shape(x),
         filter' = [filter EXCEPT ![f] = x], HolderFrame,
         x.adding => filter[f].adding \/ \A g \in Filters : ~filter[g].adding,
         HoldsRec(x) => HoldsRec(filter[f]),
         hubs' \in [Objects -> SUBSET Filters], hidden' \in [Objects -> SUBSET Filters],
         reported' \in [Filters -> Nat \cup {NoSerial}], crashed' \in BOOLEAN, peak' \in Nat,
         ReportedInv', ListsInv',
         x.pc \notin {"create", "register", "delete"}, filter[f].pc # "delete",
         x.pc = "attached" /\ x.strategy \in Hiding => f \in hidden'[x.control],
         \A o \in Objects : hidden[o] \ {f} \subseteq hidden'[o],
         Sound => /\ crashed' = crashed /\ (HoldsRec(filter[f]) => HoldsRec(x))
                  /\ x.control # NullPtr => x.control = obj /\ Served
                  /\ x.pc = "release" => Served \/ (x.next = "referred" /\ Unserved)
  PROVE  IInv'
<1>1. TypeOK /\ ShapeInv /\ AddingInv /\ CountInv
  BY DEF IInv
<1>2. /\ filter' \in [Filters -> FilterType]
      /\ \A g \in Filters : filter'[g].pc = "attached" =>
            (filter'[g].serial \in Nat <=> filter'[g].strategy \in Hiding)
      /\ ShapeInv' /\ AddingInv'
      /\ filter'[f] = x /\ \A g \in Filters \ {f} : filter'[g] = filter[g]
  BY <1>1, StepKeepsShape
<1>3. TypeOK'
  BY <1>1, <1>2 DEF TypeOK, HolderFrame
<1>4. CountInv'
  BY <1>1, <1>2, HoldersShrink DEF CountInv, HolderFrame, TypeOK
<1>5. ASSUME ~spoiled' PROVE Sound'
  <2>1. Sound
    BY <1>5 DEF IInv, HolderFrame
  <2> QED
    BY <1>1, <1>2, <2>1, StepKeepsSound, AttachedControl
<1> QED BY <1>2, <1>3, <1>4, <1>5 DEF IInv

\* A step of a device in no list that leaves the lists alone.
LEMMA QuietLists ==
  ASSUME IInv, NEW f \in Filters, NEW x, filter' = [filter EXCEPT ![f] = x],
         filter[f].pc \notin {"attached", "destroy"},
         ListsFrame, reported' = reported
  PROVE  /\ ReportedInv' /\ ListsInv'
         /\ hubs' \in [Objects -> SUBSET Filters] /\ hidden' \in [Objects -> SUBSET Filters]
         /\ reported' \in [Filters -> Nat \cup {NoSerial}] /\ peak' \in Nat
         /\ \A o \in Objects : hidden[o] \ {f} \subseteq hidden'[o]
<1>1. TypeOK /\ ReportedInv /\ ListsInv
  BY DEF IInv
<1>2. \A g \in Filters \ {f} : filter'[g] = filter[g]
  BY <1>1 DEF TypeOK
<1>3. ReportedInv'
  BY <1>1, <1>2, StepKeepsReported
<1>4. ListsInv'
  BY <1>1, <1>2, StepKeepsLists DEF ListsFrame
<1> QED BY <1>1, <1>3, <1>4 DEF TypeOK, ListsFrame

\* The link and the queue of a new control device.
LEMMA RegisterControlStep ==
  ASSUME IInv, NEW f \in Filters, RegisterControl(f) PROVE IInv'
<1>1. TypeOK /\ ShapeInv /\ filter[f].pc = "register" /\ obj \in Objects \cup {NullPtr}
  BY DEF IInv, RegisterControl, At, TypeOK
<1>2. Shape(filter[f]) /\ filter[f].adding /\ filter[f].serial = NoSerial
      /\ filter[f].next = "gone" /\ filter[f].control = NullPtr
  BY <1>1 DEF ShapeInv, Shape
<1>3. Sound => Served
  BY <1>1 DEF Sound, At
<1>4. HolderFrame /\ ListsFrame /\ crashed' = crashed /\ reported' = reported
  BY DEF RegisterControl, Lives
<1>5. CASE Set(f, [filter[f] EXCEPT !.pc = "referred", !.control = obj])
  <2> DEFINE x == [filter[f] EXCEPT !.pc = "referred", !.control = obj]
  <2>1. /\ x \in FilterType /\ x.pc = "referred" /\ x.next = "gone"
        /\ x.adding /\ x.control = obj /\ x.serial = NoSerial
    BY <1>1, <1>2, Types DEF FilterType, FilterPc
  <2>2. filter' = [filter EXCEPT ![f] = x]
    BY <1>5 DEF Set
  <2> HIDE DEF x
  <2>3. Shape(x)
    BY <2>1 DEF Shape
  <2>4. HoldsRec(x) => HoldsRec(filter[f])
    BY <1>1 DEF HoldsRec
  <2>5. ASSUME Sound PROVE HoldsRec(x) /\ Served /\ x.control = obj
    BY <1>3, <2>1, <2>5 DEF HoldsRec, Served
  <2>6. /\ ReportedInv' /\ ListsInv'
        /\ hubs' \in [Objects -> SUBSET Filters] /\ hidden' \in [Objects -> SUBSET Filters]
        /\ reported' \in [Filters -> Nat \cup {NoSerial}] /\ peak' \in Nat
        /\ \A o \in Objects : hidden[o] \ {f} \subseteq hidden'[o]
    BY <1>1, <1>4, <2>2, QuietLists
  <2> QED BY <1>1, <1>2, <1>4, <2>1, <2>2, <2>3, <2>4, <2>5, <2>6, QuietStep DEF TypeOK
<1>6. CASE Set(f, [filter[f] EXCEPT !.pc = "release", !.next = "referred"])
  <2> DEFINE x == [filter[f] EXCEPT !.pc = "release", !.next = "referred"]
  <2>1. /\ x \in FilterType /\ x.pc = "release" /\ x.next = "referred"
        /\ x.adding /\ x.control = NullPtr /\ x.serial = NoSerial
    BY <1>1, <1>2, Types DEF FilterType, FilterPc
  <2>2. filter' = [filter EXCEPT ![f] = x]
    BY <1>6 DEF Set
  <2> HIDE DEF x
  <2>3. Shape(x)
    BY <2>1 DEF Shape
  <2>4. HoldsRec(x) <=> HoldsRec(filter[f])
    BY <1>1, <2>1 DEF HoldsRec
  <2>6. /\ ReportedInv' /\ ListsInv'
        /\ hubs' \in [Objects -> SUBSET Filters] /\ hidden' \in [Objects -> SUBSET Filters]
        /\ reported' \in [Filters -> Nat \cup {NoSerial}] /\ peak' \in Nat
        /\ \A o \in Objects : hidden[o] \ {f} \subseteq hidden'[o]
    BY <1>1, <1>4, <2>2, QuietLists
  <2> QED BY <1>1, <1>2, <1>3, <1>4, <2>1, <2>2, <2>3, <2>4, <2>6, QuietStep DEF TypeOK
<1> QED BY <1>5, <1>6 DEF RegisterControl

\* There is no control device to refer to.
LEMMA ReferenceFailedStep ==
  ASSUME IInv, NEW f \in Filters, ReferenceFailed(f) PROVE IInv'
<1> DEFINE x == [filter[f] EXCEPT !.pc = "destroy"]
<1>1. TypeOK /\ ShapeInv /\ filter[f].pc = "referred" /\ filter[f].control = NullPtr
  BY DEF IInv, ReferenceFailed, At
<1>2. Shape(filter[f]) /\ filter[f].serial = NoSerial /\ filter[f].next = "gone"
  BY <1>1 DEF ShapeInv, Shape
<1>3. /\ x \in FilterType /\ x.pc = "destroy" /\ x.next = "gone"
      /\ x.control = NullPtr /\ x.adding = filter[f].adding
  BY <1>1, <1>2, Types DEF FilterType, FilterPc
<1>4. filter' = [filter EXCEPT ![f] = x]
  BY DEF ReferenceFailed, Set
<1> HIDE DEF x
<1>5. HolderFrame /\ ListsFrame /\ crashed' = crashed /\ reported' = reported
  BY DEF ReferenceFailed, Lives
<1>6. Shape(x)
  BY <1>3 DEF Shape
<1>7. HoldsRec(x) <=> HoldsRec(filter[f])
  BY <1>1, <1>3 DEF HoldsRec
<1>8. /\ ReportedInv' /\ ListsInv'
      /\ hubs' \in [Objects -> SUBSET Filters] /\ hidden' \in [Objects -> SUBSET Filters]
      /\ reported' \in [Filters -> Nat \cup {NoSerial}] /\ peak' \in Nat
      /\ \A o \in Objects : hidden[o] \ {f} \subseteq hidden'[o]
  BY <1>1, <1>4, <1>5, QuietLists
<1> QED BY <1>1, <1>3, <1>4, <1>5, <1>6, <1>7, <1>8, QuietStep DEF TypeOK

\* The null strategy has its reference.
LEMMA NullStrategyCreatedStep ==
  ASSUME IInv, NEW f \in Filters, NullStrategyCreated(f) PROVE IInv'
<1> DEFINE x == [filter[f] EXCEPT !.pc = "select"]
<1>1. TypeOK /\ ShapeInv /\ filter[f].pc = "referred" /\ filter[f].control # NullPtr
  BY DEF IInv, NullStrategyCreated, At
<1>2. /\ Shape(filter[f]) /\ filter[f].serial = NoSerial /\ filter[f].next = "gone"
      /\ filter[f].adding
  BY <1>1 DEF ShapeInv, Shape
<1>3. /\ x \in FilterType /\ x.pc = "select" /\ x.next = "gone" /\ x.serial = NoSerial
      /\ x.control = filter[f].control /\ x.adding
  BY <1>1, <1>2, Types DEF FilterType, FilterPc
<1>4. filter' = [filter EXCEPT ![f] = x]
  BY DEF NullStrategyCreated, Set, Goto
<1> HIDE DEF x
<1>5. HolderFrame /\ ListsFrame /\ crashed' = crashed /\ reported' = reported
  BY DEF NullStrategyCreated, Lives
<1>6. Shape(x)
  BY <1>1, <1>3 DEF Shape
<1>7. HoldsRec(x) <=> HoldsRec(filter[f])
  BY <1>1, <1>3 DEF HoldsRec
<1>8. /\ ReportedInv' /\ ListsInv'
      /\ hubs' \in [Objects -> SUBSET Filters] /\ hidden' \in [Objects -> SUBSET Filters]
      /\ reported' \in [Filters -> Nat \cup {NoSerial}] /\ peak' \in Nat
      /\ \A o \in Objects : hidden[o] \ {f} \subseteq hidden'[o]
  BY <1>1, <1>4, <1>5, QuietLists
<1>9. Sound => x.control = obj /\ Served
  BY <1>1, <1>3 DEF Sound
<1> QED BY <1>1, <1>2, <1>3, <1>4, <1>5, <1>6, <1>7, <1>8, <1>9, QuietStep DEF TypeOK

\* The null strategy is given up for another one, or for none.
LEMMA SelectStrategyStep ==
  ASSUME IInv, NEW f \in Filters, SelectStrategy(f) PROVE IInv'
<1>1. TypeOK /\ ShapeInv /\ filter[f].pc = "select"
  BY DEF IInv, SelectStrategy, At
<1>2. /\ Shape(filter[f]) /\ filter[f].serial = NoSerial /\ filter[f].next = "gone"
      /\ filter[f].adding /\ filter[f].control # NullPtr
  BY <1>1 DEF ShapeInv, Shape
<1>3. HolderFrame /\ ListsFrame /\ reported' = reported /\ crashed' \in BOOLEAN
  BY <1>1 DEF SelectStrategy, Lives, Crash, TypeOK
<1>4. Sound => /\ filter[f].control = obj /\ Served /\ crashed' = crashed
  BY <1>1, <1>2 DEF Sound, Served, SelectStrategy, Lives
<1>5. ASSUME NEW s \in Strategies,
             Set(f, [filter[f] EXCEPT !.pc = "release", !.next = "refer",
                                      !.strategy = s, !.control = NullPtr])
      PROVE  IInv'
  <2> DEFINE x == [filter[f] EXCEPT !.pc = "release", !.next = "refer",
                                    !.strategy = s, !.control = NullPtr]
  <2>1. /\ x \in FilterType /\ x.pc = "release" /\ x.next = "refer"
        /\ x.adding /\ x.control = NullPtr /\ x.serial = NoSerial
    BY <1>1, <1>2, Types DEF FilterType, FilterPc
  <2>2. filter' = [filter EXCEPT ![f] = x]
    BY <1>5 DEF Set
  <2> HIDE DEF x
  <2>3. Shape(x)
    BY <2>1 DEF Shape
  <2>4. HoldsRec(x) <=> HoldsRec(filter[f])
    BY <1>2, <2>1 DEF HoldsRec
  <2>5. /\ ReportedInv' /\ ListsInv'
        /\ hubs' \in [Objects -> SUBSET Filters] /\ hidden' \in [Objects -> SUBSET Filters]
        /\ reported' \in [Filters -> Nat \cup {NoSerial}] /\ peak' \in Nat
        /\ \A o \in Objects : hidden[o] \ {f} \subseteq hidden'[o]
    BY <1>1, <1>3, <2>2, QuietLists
  <2> QED BY <1>1, <1>2, <1>3, <1>4, <2>1, <2>2, <2>3, <2>4, <2>5, QuietStep
<1>6. CASE Goto(f, "destroy")
  <2> DEFINE x == [filter[f] EXCEPT !.pc = "destroy"]
  <2>1. /\ x \in FilterType /\ x.pc = "destroy" /\ x.next = "gone"
        /\ x.adding /\ x.control = filter[f].control /\ x.serial = NoSerial
    BY <1>1, <1>2, Types DEF FilterType, FilterPc
  <2>2. filter' = [filter EXCEPT ![f] = x]
    BY <1>6 DEF Set, Goto
  <2> HIDE DEF x
  <2>3. Shape(x)
    BY <2>1 DEF Shape
  <2>4. HoldsRec(x) <=> HoldsRec(filter[f])
    BY <1>2, <2>1 DEF HoldsRec
  <2>5. /\ ReportedInv' /\ ListsInv'
        /\ hubs' \in [Objects -> SUBSET Filters] /\ hidden' \in [Objects -> SUBSET Filters]
        /\ reported' \in [Filters -> Nat \cup {NoSerial}] /\ peak' \in Nat
        /\ \A o \in Objects : hidden[o] \ {f} \subseteq hidden'[o]
    BY <1>1, <1>3, <2>2, QuietLists
  <2> QED BY <1>1, <1>2, <1>3, <1>4, <2>1, <2>2, <2>3, <2>4, <2>5, QuietStep
<1> QED BY <1>5, <1>6 DEF SelectStrategy

\* A hub enters the list of the control device.
LEMMA CreateHubStep ==
  ASSUME IInv, NEW f \in Filters, CreateHub(f) PROVE IInv'
<1> DEFINE x == [filter[f] EXCEPT !.pc = "attached", !.adding = FALSE]
<1>1. /\ TypeOK /\ ShapeInv /\ ReportedInv /\ ListsInv /\ filter[f].pc = "referred"
      /\ filter[f].control \in Objects /\ filter[f].control # NullPtr
      /\ filter[f].strategy = "hub"
  BY Types DEF IInv, CreateHub, At
<1>2. /\ Shape(filter[f]) /\ filter[f].serial = NoSerial /\ filter[f].next = "gone"
  BY <1>1 DEF ShapeInv, Shape
<1>3. /\ x \in FilterType /\ x.pc = "attached" /\ x.next = "gone" /\ x.serial = NoSerial
      /\ x.control = filter[f].control /\ x.adding = FALSE /\ x.strategy = "hub"
  BY <1>1, <1>2, Types DEF FilterType, FilterPc
<1>4. filter' = [filter EXCEPT ![f] = x]
  BY DEF CreateHub, Set
<1> HIDE DEF x
<1>5. /\ HolderFrame /\ crashed' \in BOOLEAN /\ reported' = reported
      /\ hidden' = hidden /\ peak' = peak
      /\ hubs' = [hubs EXCEPT ![filter[f].control] = @ \cup {f}]
  BY <1>1 DEF CreateHub, Lives, Crash, TypeOK
<1>6. Shape(x)
  BY <1>1, <1>3, FilterDevicesAssumption DEF Shape, Hiding
<1>7. HoldsRec(x) <=> HoldsRec(filter[f])
  BY <1>1, <1>3 DEF HoldsRec
<1>8. filter'[f] = x /\ \A g \in Filters \ {f} : filter'[g] = filter[g]
  BY <1>1, <1>4 DEF TypeOK
<1>9. /\ ReportedInv'
      /\ hubs' \in [Objects -> SUBSET Filters] /\ hidden' \in [Objects -> SUBSET Filters]
      /\ reported' \in [Filters -> Nat \cup {NoSerial}] /\ peak' \in Nat
  BY <1>1, <1>5, <1>8, StepKeepsReported DEF TypeOK
<1>10. ListsInv'
  <2>1. SUFFICES ASSUME NEW o \in Objects
                 PROVE  /\ \A g \in hubs'[o] : Listed(g, o)'
                        /\ \A g \in hidden[o] : Listed(g, o)' /\ filter'[g].serial \in Nat
                                                /\ filter'[g].serial < peak
                        /\ \A g, h \in hidden[o] :
                              filter'[g].serial = filter'[h].serial => g = h
    BY <1>5 DEF ListsInv
  <2>2. /\ hubs[o] \subseteq Filters /\ hidden[o] \subseteq Filters
        /\ f \notin hubs[o] /\ f \notin hidden[o]
    BY <1>1 DEF TypeOK, ListsInv, Listed
  <2>3. hubs'[o] \subseteq hubs[o] \cup {f} /\ (f \in hubs'[o] => o = filter[f].control)
    BY <1>1, <1>5, <2>2 DEF TypeOK
  <2>4. \A g \in hubs[o] \cup hidden[o] : filter'[g] = filter[g]
    BY <1>8, <2>2
  <2> QED BY <1>1, <1>3, <1>8, <2>2, <2>3, <2>4 DEF ListsInv, Listed
<1>11. Sound => x.control = obj /\ Served /\ crashed' = crashed
  BY <1>1, <1>3 DEF Sound, Served, CreateHub, Lives
<1>12. \A o \in Objects : hidden[o] \ {f} \subseteq hidden'[o]
  BY <1>5
<1>13. x.strategy \notin Hiding
  BY <1>3 DEF Hiding
<1> QED BY <1>1, <1>3, <1>4, <1>5, <1>6, <1>7, <1>9, <1>10, <1>11, <1>12, <1>13, QuietStep

\* The next serial number is at most the number of hidden devices: all smaller
\* numbers are taken, and each device takes one.
LEMMA NextSerialBound ==
  ASSUME TypeOK, NEW o \in Objects, NEW n \in Nat, IsNextSerial(o, n)
  PROVE  n <= Cardinality(hidden[o])
<1> DEFINE number == [g \in hidden[o] |-> filter[g].serial]
<1>1. hidden[o] \in SUBSET Filters
  BY DEF TypeOK
<1>2. IsFiniteSet(hidden[o])
  BY <1>1, FS_Subset, FilterDevicesAssumption
<1>3. number \in Surjection(hidden[o], Serials(o))
  BY DEF Surjection, Serials
<1>4. IsFiniteSet(Serials(o)) /\ Cardinality(Serials(o)) <= Cardinality(hidden[o])
  <2> HIDE DEF number
  <2> QED BY <1>2, <1>3, FS_Surjection
<1>5. 0 .. n - 1 \in SUBSET Serials(o)
  BY DEF IsNextSerial
<1>6. Cardinality(0 .. n - 1) <= Cardinality(Serials(o))
  BY <1>4, <1>5, FS_Subset
<1>7. 0 \in Int /\ n - 1 \in Int
  OBVIOUS
<1>8. Cardinality(0 .. n - 1) = IF 0 > n - 1 THEN 0 ELSE n - 1 - 0 + 1
  BY <1>7, FS_Interval
<1>9. Cardinality(0 .. n - 1) = n
  BY <1>8
<1>10. Cardinality(hidden[o]) \in Nat /\ Cardinality(Serials(o)) \in Nat
  BY <1>2, <1>4, FS_CardinalityType
<1> QED BY <1>4, <1>6, <1>9, <1>10

\* A hidden device enters the list with a serial number of its own.
LEMMA CreateHiderStep ==
  ASSUME IInv, NEW f \in Filters, CreateHider(f) PROVE IInv'
<1>1. /\ TypeOK /\ ShapeInv /\ ReportedInv /\ ListsInv /\ filter[f].pc = "referred"
      /\ filter[f].control \in Objects /\ filter[f].control # NullPtr
      /\ filter[f].strategy \in Hiding
  BY Types DEF IInv, CreateHider, At
<1>2. /\ Shape(filter[f]) /\ filter[f].adding /\ filter[f].next = "gone"
  BY <1>1 DEF ShapeInv, Shape
<1>3. PICK n \in 0 .. Cardinality(Filters), pc \in {"attached", "destroy"} :
        /\ IsNextSerial(filter[f].control, n)
        /\ Set(f, [filter[f] EXCEPT !.pc = pc, !.serial = n, !.adding = (pc = "destroy")])
  BY DEF CreateHider
<1> DEFINE x == [filter[f] EXCEPT !.pc = pc, !.serial = n, !.adding = (pc = "destroy")]
<1>4. n \in Nat /\ (pc = "destroy") \in BOOLEAN /\ pc \in FilterPc
  BY <1>3 DEF FilterPc
<1>5. /\ x \in FilterType /\ x.pc = pc /\ x.next = "gone" /\ x.serial = n
      /\ x.control = filter[f].control /\ x.adding = (pc = "destroy")
      /\ x.strategy = filter[f].strategy
  BY <1>1, <1>2, <1>4, Types DEF FilterType
<1>6. filter' = [filter EXCEPT ![f] = x]
  BY <1>3 DEF Set
<1> HIDE DEF x
<1>7. /\ HolderFrame /\ crashed' \in BOOLEAN /\ reported' = reported /\ hubs' = hubs
      /\ hidden' = [hidden EXCEPT ![filter[f].control] = @ \cup {f}]
  BY <1>1 DEF CreateHider, Lives, Crash, TypeOK
<1>8. filter'[f] = x /\ \A g \in Filters \ {f} : filter'[g] = filter[g]
  BY <1>1, <1>6 DEF TypeOK
<1>9. \A o \in Objects : /\ hubs[o] \subseteq Filters /\ hidden[o] \subseteq Filters
                         /\ f \notin hubs[o] /\ f \notin hidden[o]
  BY <1>1 DEF TypeOK, ListsInv, Listed
<1>10. peak \in Nat /\ peak' \in Nat /\ n < peak' /\ peak <= peak'
  <2> DEFINE o == filter[f].control
  <2>1. hidden[o] \in SUBSET Filters
    BY <1>1, <1>9
  <2>2. IsFiniteSet(hidden[o]) /\ Cardinality(hidden[o]) \in Nat
    BY <2>1, FS_Subset, FS_CardinalityType, FilterDevicesAssumption
  <2>3. Cardinality(hidden[o] \cup {f}) = Cardinality(hidden[o]) + 1
    BY <1>1, <1>9, <2>2, FS_AddElement
  <2>4. hidden'[o] = hidden[o] \cup {f}
    BY <1>1, <1>7 DEF TypeOK
  <2>5. Cardinality(hidden'[o]) = Cardinality(hidden[o] \cup {f})
    BY <2>4, Zenon
  <2>6. n <= Cardinality(hidden[o])
    BY <1>1, <1>3, <1>4, NextSerialBound
  <2>7. peak' = IF Cardinality(hidden'[o]) > peak THEN Cardinality(hidden'[o]) ELSE peak
    BY DEF CreateHider
  <2>8. peak \in Nat
    BY <1>1 DEF TypeOK
  <2> HIDE DEF o
  <2> QED BY <1>4, <2>2, <2>3, <2>5, <2>6, <2>7, <2>8
<1>11. Shape(x)
  BY <1>1, <1>3, <1>4, <1>5 DEF Shape
<1>12. HoldsRec(x) <=> HoldsRec(filter[f])
  BY <1>1, <1>5 DEF HoldsRec
<1>13. /\ ReportedInv'
       /\ hubs' \in [Objects -> SUBSET Filters] /\ hidden' \in [Objects -> SUBSET Filters]
       /\ reported' \in [Filters -> Nat \cup {NoSerial}]
       /\ \A o \in Objects : hidden[o] \ {f} \subseteq hidden'[o]
       /\ f \in hidden'[filter[f].control]
  BY <1>1, <1>7, <1>8, StepKeepsReported DEF TypeOK
<1>14. \A g \in hidden[filter[f].control] : filter[g].serial # n
  BY <1>3 DEF IsNextSerial, Serials
<1>15. ASSUME NEW o \in Objects
       PROVE  /\ \A g \in hubs'[o] : Listed(g, o)'
              /\ \A g \in hidden'[o] : Listed(g, o)' /\ filter'[g].serial \in Nat
                                       /\ filter'[g].serial < peak'
              /\ \A g, h \in hidden'[o] : filter'[g].serial = filter'[h].serial => g = h
  <2>1. /\ hubs'[o] = hubs[o] /\ hidden'[o] \subseteq hidden[o] \cup {f}
        /\ f \in hidden'[o] => o = filter[f].control
    BY <1>1, <1>7, <1>9 DEF TypeOK
  <2>2. \A g \in hubs[o] \cup hidden[o] : filter'[g] = filter[g] /\ g # f
    BY <1>8, <1>9
  <2>3. \A g \in hubs'[o] : Listed(g, o)'
    BY <1>1, <2>1, <2>2 DEF ListsInv, Listed
  <2>4. \A g \in hidden[o] : Listed(g, o)' /\ filter'[g].serial \in Nat
                             /\ filter'[g].serial < peak
    BY <1>1, <2>2 DEF ListsInv, Listed
  <2>5. \A g \in hidden[o] : filter'[g].serial < peak'
    BY <1>10, <2>4
  <2>6. f \in hidden'[o] => Listed(f, o)' /\ filter'[f].serial = n
    BY <1>3, <1>5, <1>8, <2>1 DEF Listed
  <2>7. \A g, h \in hidden'[o] : filter'[g].serial = filter'[h].serial => g = h
    BY <1>1, <1>14, <2>1, <2>2, <2>6 DEF ListsInv
  <2> QED BY <1>4, <1>10, <2>1, <2>3, <2>4, <2>5, <2>6, <2>7
<1>16. ListsInv'
  BY <1>15 DEF ListsInv
<1>17. Sound => x.control = obj /\ Served /\ crashed' = crashed
  BY <1>1, <1>5 DEF Sound, Served, CreateHider, Lives
<1> QED
  BY <1>1, <1>2, <1>3, <1>5, <1>6, <1>7, <1>10, <1>11, <1>12, <1>13, <1>16, <1>17, QuietStep

\* PnP learns the serial number.
LEMMA QueryIdStep ==
  ASSUME IInv, NEW f \in Filters, QueryId(f) PROVE IInv'
<1>1. /\ filter' = filter /\ hubs' = hubs /\ hidden' = hidden /\ peak' = peak
      /\ refCount' = refCount /\ obj' = obj /\ live' = live /\ spoiled' = spoiled
      /\ crashed' = crashed
      /\ reported' = [reported EXCEPT ![f] = filter[f].serial]
      /\ filter[f].pc = "attached" /\ filter[f].strategy \in Hiding
  BY DEF QueryId, HolderFrame, ListsFrame, Lives, At
<1>2. TypeOK /\ ShapeInv /\ AddingInv /\ ReportedInv /\ ListsInv /\ CountInv
  BY DEF IInv
<1>3. TypeOK'
  BY <1>1, <1>2, Types DEF TypeOK
<1>4. ReportedInv'
  BY <1>1, <1>2 DEF ReportedInv, At, TypeOK
<1>5. ShapeInv'
  BY <1>1, <1>2 DEF ShapeInv, Shape
<1>6. AddingInv'
  BY <1>1, <1>2 DEF AddingInv
<1>7. ListsInv'
  BY <1>1, <1>2 DEF ListsInv, Listed
<1>8. Holders' = Holders /\ Cardinality(Holders)' = Cardinality(Holders)
  BY <1>1, HoldersKept
<1>9. CountInv'
  BY <1>1, <1>2, <1>8 DEF CountInv
<1>10. ASSUME ~spoiled' PROVE Sound'
  <2>1. Sound
    BY <1>1, <1>10 DEF IInv
  <2>2. (Served' <=> Served) /\ (Unserved' <=> Unserved)
    BY <1>1 DEF Served, Unserved
  <2> QED BY <1>1, <1>8, <2>1, <2>2 DEF Sound, At
<1> QED BY <1>3, <1>4, <1>5, <1>6, <1>7, <1>9, <1>10 DEF IInv

\* PnP removes a device.
LEMMA RemoveStep ==
  ASSUME IInv, NEW f \in Filters, Remove(f) PROVE IInv'
<1> DEFINE x == [filter[f] EXCEPT !.pc = "destroy"]
<1>1. TypeOK /\ ShapeInv /\ ReportedInv /\ ListsInv /\ filter[f].pc = "attached"
  BY DEF IInv, Remove, At
<1>2. /\ Shape(filter[f]) /\ filter[f].next = "gone" /\ ~filter[f].adding
      /\ filter[f].control # NullPtr
  BY <1>1 DEF ShapeInv, Shape
<1>3. /\ x \in FilterType /\ x.pc = "destroy" /\ x.next = "gone" /\ ~x.adding
      /\ x.control = filter[f].control /\ x.serial = filter[f].serial
  BY <1>1, <1>2, Types DEF FilterType, FilterPc
<1>4. filter' = [filter EXCEPT ![f] = x]
  BY DEF Remove, Set, Goto
<1> HIDE DEF x
<1>5. /\ HolderFrame /\ ListsFrame /\ crashed' = crashed
      /\ reported' = [reported EXCEPT ![f] = NoSerial]
  BY DEF Remove, Lives
<1>6. Shape(x)
  BY <1>3 DEF Shape
<1>7. HoldsRec(x) <=> HoldsRec(filter[f])
  BY <1>1, <1>3 DEF HoldsRec
<1>8. filter'[f] = x /\ \A g \in Filters \ {f} : filter'[g] = filter[g]
  BY <1>1, <1>4 DEF TypeOK
<1>9. ReportedInv'
  BY <1>1, <1>5, <1>8 DEF ReportedInv, At, TypeOK
<1>10. ListsInv'
  BY <1>1, <1>3, <1>5, <1>8, StepKeepsLists DEF ListsFrame
<1>11. /\ hubs' \in [Objects -> SUBSET Filters] /\ hidden' \in [Objects -> SUBSET Filters]
       /\ reported' \in [Filters -> Nat \cup {NoSerial}] /\ peak' \in Nat
       /\ \A o \in Objects : hidden[o] \ {f} \subseteq hidden'[o]
  BY <1>1, <1>5 DEF TypeOK, ListsFrame
<1>12. Sound => x.control = obj /\ Served
  BY <1>2, <1>3 DEF Sound
<1> QED
  BY <1>1, <1>3, <1>4, <1>5, <1>6, <1>7, <1>9, <1>10, <1>11, <1>12, QuietStep DEF TypeOK

\* The lists forget a device.
LEMMA DestroyStep ==
  ASSUME IInv, NEW f \in Filters, Destroy(f) PROVE IInv'
<1>1. /\ TypeOK /\ ShapeInv /\ ReportedInv /\ ListsInv /\ filter[f].pc = "destroy"
      /\ filter[f].control \in Objects \cup {NullPtr}
  BY Types DEF IInv, Destroy, At
<1>2. /\ Shape(filter[f]) /\ filter[f].next = "gone"
  BY <1>1 DEF ShapeInv, Shape
<1>3. HolderFrame /\ peak' = peak /\ reported' = reported
  BY DEF Destroy
<1>4. CASE filter[f].control = NullPtr
  <2>1. /\ filter' = [filter EXCEPT ![f] = Gone] /\ crashed' = crashed
        /\ hubs' = hubs /\ hidden' = hidden
    BY <1>4 DEF Destroy, Set, Lives
  <2>2. Shape(Gone)
    BY GoneFields DEF Shape
  <2>3. HoldsRec(Gone) <=> HoldsRec(filter[f])
    BY <1>1, <1>4, GoneFields DEF HoldsRec
  <2>4. \A g \in Filters \ {f} : filter'[g] = filter[g]
    BY <1>1, <2>1 DEF TypeOK
  <2>5. ReportedInv'
    BY <1>1, <1>3, <2>4, StepKeepsReported
  <2>6. ListsInv'
    BY <1>1, <1>3, <1>4, <2>1, <2>4, StepKeepsLists
  <2>7. /\ hubs' \in [Objects -> SUBSET Filters] /\ hidden' \in [Objects -> SUBSET Filters]
        /\ reported' \in [Filters -> Nat \cup {NoSerial}] /\ peak' \in Nat
        /\ \A o \in Objects : hidden[o] \ {f} \subseteq hidden'[o]
        /\ crashed' \in BOOLEAN
    BY <1>1, <1>3, <2>1 DEF TypeOK
  <2> QED BY <1>1, <1>3, <2>1, <2>2, <2>3, <2>5, <2>6, <2>7, GoneFields, QuietStep
<1>5. CASE filter[f].control # NullPtr
  <2> DEFINE x == [filter[f] EXCEPT !.pc = "release", !.next = "gone", !.control = NullPtr]
  <2>1. /\ x \in FilterType /\ x.pc = "release" /\ x.next = "gone"
        /\ x.control = NullPtr /\ x.adding = filter[f].adding
    BY <1>1, <1>2, Types DEF FilterType, FilterPc
  <2>2. filter' = [filter EXCEPT ![f] = x]
    BY <1>5 DEF Destroy, Set
  <2> HIDE DEF x
  <2>3. /\ hubs' = [hubs EXCEPT ![filter[f].control] = @ \ {f}]
        /\ hidden' = [hidden EXCEPT ![filter[f].control] = @ \ {f}]
        /\ crashed' \in BOOLEAN
    BY <1>1, <1>5 DEF Destroy, Lives, Crash, TypeOK
  <2>4. Sound => filter[f].control = obj /\ Served /\ crashed' = crashed
    BY <1>5 DEF Sound, Served, Destroy, Lives
  <2>5. Shape(x)
    BY <2>1 DEF Shape
  <2>6. HoldsRec(x) <=> HoldsRec(filter[f])
    BY <1>5, <2>1 DEF HoldsRec
  <2>7. filter'[f] = x /\ \A g \in Filters \ {f} : filter'[g] = filter[g]
    BY <1>1, <2>2 DEF TypeOK
  <2>8. ReportedInv'
    BY <1>1, <1>3, <2>7, StepKeepsReported
  <2>9. \A o \in Objects : /\ hubs[o] \subseteq Filters /\ hidden[o] \subseteq Filters
                           /\ hubs'[o] \subseteq hubs[o] \ {f}
                           /\ hidden'[o] \subseteq hidden[o] \ {f}
                           /\ hidden[o] \ {f} \subseteq hidden'[o]
    BY <1>1, <2>3 DEF TypeOK, ListsInv, Listed
  <2>10. ListsInv'
    <3>1. SUFFICES ASSUME NEW o \in Objects
                   PROVE  /\ \A g \in hubs'[o] : Listed(g, o)'
                          /\ \A g \in hidden'[o] : Listed(g, o)' /\ filter'[g].serial \in Nat
                                                   /\ filter'[g].serial < peak
                          /\ \A g, h \in hidden'[o] :
                                filter'[g].serial = filter'[h].serial => g = h
      BY <1>3 DEF ListsInv
    <3>2. \A g \in hubs'[o] : g \in hubs[o] /\ filter'[g] = filter[g]
      BY <2>7, <2>9
    <3>3. \A g \in hidden'[o] : g \in hidden[o] /\ filter'[g] = filter[g]
      BY <2>7, <2>9
    <3> QED BY <1>1, <3>2, <3>3 DEF ListsInv, Listed
  <2>11. /\ hubs' \in [Objects -> SUBSET Filters] /\ hidden' \in [Objects -> SUBSET Filters]
         /\ reported' \in [Filters -> Nat \cup {NoSerial}] /\ peak' \in Nat
    BY <1>1, <1>3, <2>3 DEF TypeOK
  <2> QED
    BY <1>1, <1>3, <2>1, <2>2, <2>3, <2>4, <2>5, <2>6, <2>8, <2>9, <2>10, <2>11, QuietStep
<1> QED BY <1>4, <1>5

\* A reference is counted: without a release under way the first one finds no
\* control device, and any other one finds the one that serves all.
LEMMA ReferenceStep ==
  ASSUME IInv, NEW f \in Filters, Reference(f) PROVE IInv'
<1> DEFINE x == IF refCount = 0 THEN [filter[f] EXCEPT !.pc = "create"]
                ELSE [filter[f] EXCEPT !.pc = "referred", !.control = obj]
<1>1. /\ TypeOK /\ ShapeInv /\ AddingInv /\ ReportedInv /\ ListsInv /\ CountInv
      /\ filter[f].pc = "refer" /\ obj \in Objects \cup {NullPtr} /\ refCount \in Nat
  BY DEF IInv, Reference, At, TypeOK
<1>2. /\ Shape(filter[f]) /\ filter[f].serial = NoSerial /\ filter[f].next = "gone"
      /\ filter[f].adding /\ filter[f].control = NullPtr
  BY <1>1 DEF ShapeInv, Shape
<1>3. /\ x \in FilterType /\ x.next = "gone" /\ x.adding /\ x.serial = NoSerial
      /\ refCount = 0 => x.pc = "create" /\ x.control = NullPtr
      /\ refCount # 0 => x.pc = "referred" /\ x.control = obj
  <2>1. CASE refCount = 0
    BY <1>1, <1>2, <2>1, Types DEF FilterType, FilterPc
  <2>2. CASE refCount # 0
    BY <1>1, <1>2, <2>2, Types DEF FilterType, FilterPc
  <2> QED BY <2>1, <2>2
<1>4. filter' = [filter EXCEPT ![f] = x]
  <2>1. CASE refCount = 0
    BY <2>1 DEF Reference, Set, Goto
  <2>2. CASE refCount # 0
    BY <2>2 DEF Reference, Set, Goto
  <2> QED BY <2>1, <2>2
<1> HIDE DEF x
<1>5. /\ refCount' = refCount + 1 /\ obj' = obj /\ live' = live /\ crashed' = crashed
      /\ hubs' = hubs /\ hidden' = hidden /\ peak' = peak /\ reported' = reported
      /\ spoiled' = (spoiled \/ \E g \in Filters : At(g, "delete"))
  BY DEF Reference, ListsFrame, Lives
<1>6. Shape(x)
  BY <1>3 DEF Shape
<1>7. /\ filter' \in [Filters -> FilterType]
      /\ \A g \in Filters : filter'[g].pc = "attached" =>
            (filter'[g].serial \in Nat <=> filter'[g].strategy \in Hiding)
      /\ ShapeInv' /\ AddingInv'
      /\ filter'[f] = x /\ \A g \in Filters \ {f} : filter'[g] = filter[g]
  BY <1>1, <1>2, <1>3, <1>4, <1>6, StepKeepsShape
<1>8. TypeOK'
  BY <1>1, <1>5, <1>7 DEF TypeOK
<1>9. ReportedInv' /\ ListsInv'
  BY <1>1, <1>5, <1>7, StepKeepsReported, StepKeepsLists
<1>10. f \notin Holders
  BY <1>1, <1>2 DEF Holders, Holds
<1>11. Holders' \subseteq Holders \cup {f} /\ Holders \subseteq Holders'
  <2>1. \A g \in Filters \ {f} : Holds(g)' <=> Holds(g)
    BY <1>7 DEF Holds
  <2> QED BY <1>10, <2>1 DEF Holders
<1>12. /\ IsFiniteSet(Holders \cup {f})
       /\ Cardinality(Holders \cup {f}) = Cardinality(Holders) + 1
  BY <1>10, HoldersFinite, FS_AddElement
<1>13. Cardinality(Holders') <= Cardinality(Holders) + 1 /\ Cardinality(Holders') \in Nat
  <2>1. Holders' \in SUBSET (Holders \cup {f})
    BY <1>11
  <2> QED BY <1>12, <2>1, FS_Subset, FS_CardinalityType
<1>14. CountInv'
  BY <1>1, <1>5, <1>13, HoldersFinite DEF CountInv
<1>15. ASSUME ~spoiled' PROVE Sound'
  <2>1. Sound /\ \A g \in Filters : ~At(g, "delete")
    BY <1>5, <1>15 DEF IInv
  <2>2. ~crashed' /\ refCount = Cardinality(Holders)
        /\ (Holders = {} <=> refCount = 0)
    BY <1>5, <2>1, HoldersFinite DEF Sound
  <2>3. (Served' <=> Served) /\ (Unserved' <=> Unserved)
    BY <1>5 DEF Served, Unserved
  <2>4. \A g \in Filters : filter[g].adding => g = f
    BY <1>1, <1>2 DEF AddingInv
  <2>5. \A g \in Filters : /\ filter[g].pc \notin {"create", "register"}
                           /\ filter[g].pc = "release" => filter[g].next # "referred"
    BY <1>1, <2>4 DEF ShapeInv, Shape
  <2>6. refCount # 0 => Served
    <3>1. SUFFICES ASSUME NEW g \in Filters, Holds(g) PROVE Served
      BY <2>2 DEF Holders
    <3>2. CASE filter[g].control # NullPtr
      BY <2>1, <3>2 DEF Sound
    <3>3. CASE filter[g].pc = "release"
      BY <2>1, <2>5, <3>3 DEF Sound, At
    <3> QED BY <2>5, <3>1, <3>2, <3>3 DEF Holds
  <2>7. Holds(f)'
    BY <1>3, <1>7, <2>6 DEF Holds, Served
  <2>8. Holders' = Holders \cup {f}
    BY <1>11, <2>7 DEF Holders
  <2>9. Cardinality(Holders') = Cardinality(Holders \cup {f})
    BY <2>8, Zenon
  <2>10. refCount' = Cardinality(Holders)'
    BY <1>5, <1>12, <2>2, <2>9
  <2>11. \A g \in Filters : filter'[g].control # NullPtr =>
           filter'[g].control = obj' /\ Served'
    <3>1. SUFFICES ASSUME NEW g \in Filters, filter'[g].control # NullPtr
                   PROVE  filter'[g].control = obj /\ Served
      BY <1>5, <2>3
    <3>2. CASE g = f
      BY <1>3, <1>7, <2>6, <3>1, <3>2
    <3>3. CASE g # f
      BY <1>7, <2>1, <3>1, <3>3 DEF Sound
    <3> QED BY <3>2, <3>3
  <2>12. \A g \in Filters : At(g, "create")' => Holders' = {g} /\ live' = {}
    <3>1. SUFFICES ASSUME NEW g \in Filters, filter'[g].pc = "create"
                   PROVE  Holders' = {g} /\ live = {}
      BY <1>5 DEF At
    <3>2. g = f /\ refCount = 0
      BY <1>3, <1>7, <2>5, <3>1
    <3>3. Holders = {}
      BY <2>2, <3>2
    <3> QED BY <2>1, <2>8, <3>2, <3>3 DEF Sound
  <2>13. \A g \in Filters : At(g, "register")' => Served'
    BY <1>3, <1>7, <2>5 DEF At
  <2>14. \A g \in Filters : At(g, "release")' =>
           Served' \/ (filter'[g].next = "referred" /\ Unserved')
    BY <1>3, <1>7, <2>1, <2>3 DEF Sound, At
  <2>15. \A g \in Filters : ~At(g, "delete")'
    BY <1>3, <1>7, <2>1 DEF At
  <2>16. Holders' # {}
    BY <2>8
  <2>17. \A g \in Filters : At(g, "attached")' /\ filter'[g].strategy \in Hiding =>
           g \in hidden'[filter'[g].control]
    BY <1>3, <1>5, <1>7, <2>1 DEF Sound, At
  <2> QED
    BY <2>2, <2>10, <2>11, <2>12, <2>13, <2>14, <2>15, <2>16, <2>17 DEF Sound
<1> QED BY <1>7, <1>8, <1>9, <1>14, <1>15 DEF IInv

\* The control device is created, or the reference is given back.
LEMMA CreateControlStep ==
  ASSUME IInv, NEW f \in Filters, CreateControl(f) PROVE IInv'
<1>1. /\ TypeOK /\ ShapeInv /\ AddingInv /\ ReportedInv /\ ListsInv /\ CountInv
      /\ filter[f].pc = "create" /\ obj \in Objects \cup {NullPtr}
      /\ live \subseteq Objects
  BY DEF IInv, CreateControl, At, TypeOK
<1>2. /\ Shape(filter[f]) /\ filter[f].serial = NoSerial /\ filter[f].next = "gone"
      /\ filter[f].adding /\ filter[f].control = NullPtr
  BY <1>1 DEF ShapeInv, Shape
<1>3. crashed' = crashed /\ refCount' = refCount /\ reported' = reported /\ peak' = peak
  BY DEF CreateControl, Lives
<1>4. ASSUME NEW o \in Objects \ live,
             obj' = o, live' = live \cup {o},
             hubs' = [hubs EXCEPT ![o] = {}], hidden' = [hidden EXCEPT ![o] = {}],
             Goto(f, "register"), spoiled' = spoiled
      PROVE  IInv'
  <2> DEFINE x == [filter[f] EXCEPT !.pc = "register"]
  <2>1. /\ x \in FilterType /\ x.pc = "register" /\ x.next = "gone" /\ x.adding
        /\ x.serial = NoSerial /\ x.control = NullPtr
    BY <1>1, <1>2, Types DEF FilterType, FilterPc
  <2>2. filter' = [filter EXCEPT ![f] = x]
    BY <1>4 DEF Goto, Set
  <2> HIDE DEF x
  <2>3. Shape(x)
    BY <2>1 DEF Shape
  <2>4. /\ filter' \in [Filters -> FilterType]
        /\ \A g \in Filters : filter'[g].pc = "attached" =>
              (filter'[g].serial \in Nat <=> filter'[g].strategy \in Hiding)
        /\ ShapeInv' /\ AddingInv'
        /\ filter'[f] = x /\ \A g \in Filters \ {f} : filter'[g] = filter[g]
    BY <1>1, <1>2, <2>1, <2>2, <2>3, StepKeepsShape
  <2>5. TypeOK'
    BY <1>1, <1>3, <1>4, <2>4 DEF TypeOK
  <2>6. ReportedInv'
    BY <1>1, <1>3, <2>4, StepKeepsReported
  <2>7. ListsInv'
    <3>1. SUFFICES ASSUME NEW p \in Objects
                   PROVE  /\ \A g \in hubs'[p] : Listed(g, p)'
                          /\ \A g \in hidden'[p] : Listed(g, p)' /\ filter'[g].serial \in Nat
                                                   /\ filter'[g].serial < peak
                          /\ \A g, h \in hidden'[p] :
                                filter'[g].serial = filter'[h].serial => g = h
      BY <1>3 DEF ListsInv
    <3>2. hubs'[p] \subseteq hubs[p] /\ hidden'[p] \subseteq hidden[p]
      BY <1>1, <1>4 DEF TypeOK
    <3>3. \A g \in hubs[p] \cup hidden[p] : filter'[g] = filter[g]
      BY <1>1, <2>4 DEF TypeOK, ListsInv, Listed
    <3> QED BY <1>1, <3>2, <3>3 DEF ListsInv, Listed
  <2>8. HoldsRec(filter'[f]) <=> HoldsRec(filter[f])
    BY <1>1, <2>1, <2>4 DEF HoldsRec
  <2>9. Holders' = Holders /\ Cardinality(Holders)' = Cardinality(Holders)
    BY <2>4, <2>8, HoldersKept
  <2>10. CountInv'
    BY <1>1, <1>3, <2>9 DEF CountInv
  <2>11. ASSUME ~spoiled' PROVE Sound'
    <3>1. Sound
      BY <1>4, <2>11 DEF IInv
    <3>2. Holders = {f} /\ live = {}
      BY <1>1, <3>1 DEF Sound, At
    <3>3. Served'
      BY <1>4, <3>2, FilterDevicesAssumption DEF Served
    <3>4. \A g \in Filters : ~Holds(g)' \/ g = f
      BY <2>9, <3>2 DEF Holders
    <3>5. \A g \in Filters : filter'[g].control = NullPtr
      BY <2>1, <2>4, <3>4 DEF Holds
    <3>6. \A g \in Filters : filter'[g].pc \notin {"create", "delete", "attached"}
      <4>1. SUFFICES ASSUME NEW g \in Filters \ {f}
                     PROVE  filter[g].pc \notin {"create", "delete", "attached"}
        BY <2>1, <2>4
      <4>2. filter[g].pc # "create"
        BY <3>2 DEF Holders, Holds
      <4>3. filter[g].pc # "delete"
        BY <3>1, <3>2 DEF Sound, At
      <4>4. filter[g].pc # "attached"
        BY <1>1, <2>4, <3>5 DEF ShapeInv, Shape
      <4> QED BY <4>2, <4>3, <4>4
    <3>7. ~crashed' /\ refCount' = Cardinality(Holders)' /\ Holders' # {}
      BY <1>3, <2>9, <3>1, <3>2 DEF Sound
    <3> QED BY <3>3, <3>5, <3>6, <3>7 DEF Sound, At
  <2> QED BY <2>4, <2>5, <2>6, <2>7, <2>10, <2>11 DEF IInv
<1>5. ASSUME Set(f, [filter[f] EXCEPT !.pc = "release", !.next = "referred"]),
             spoiled' = (spoiled \/ obj # NullPtr),
             obj' = obj, live' = live, hubs' = hubs, hidden' = hidden
      PROVE  IInv'
  <2> DEFINE x == [filter[f] EXCEPT !.pc = "release", !.next = "referred"]
  <2>1. /\ x \in FilterType /\ x.pc = "release" /\ x.next = "referred" /\ x.adding
        /\ x.serial = NoSerial /\ x.control = NullPtr
    BY <1>1, <1>2, Types DEF FilterType, FilterPc
  <2>2. filter' = [filter EXCEPT ![f] = x]
    BY <1>5 DEF Set
  <2> HIDE DEF x
  <2>3. Shape(x)
    BY <2>1 DEF Shape
  <2>4. /\ filter' \in [Filters -> FilterType]
        /\ \A g \in Filters : filter'[g].pc = "attached" =>
              (filter'[g].serial \in Nat <=> filter'[g].strategy \in Hiding)
        /\ ShapeInv' /\ AddingInv'
        /\ filter'[f] = x /\ \A g \in Filters \ {f} : filter'[g] = filter[g]
    BY <1>1, <1>2, <2>1, <2>2, <2>3, StepKeepsShape
  <2>5. TypeOK'
    BY <1>1, <1>3, <1>5, <2>4 DEF TypeOK
  <2>6. ReportedInv' /\ ListsInv'
    BY <1>1, <1>3, <1>5, <2>4, StepKeepsReported, StepKeepsLists
  <2>7. HoldsRec(filter'[f]) <=> HoldsRec(filter[f])
    BY <1>1, <2>1, <2>4 DEF HoldsRec
  <2>8. Holders' = Holders /\ Cardinality(Holders)' = Cardinality(Holders)
    BY <2>4, <2>7, HoldersKept
  <2>9. CountInv'
    BY <1>1, <1>3, <2>8 DEF CountInv
  <2>10. ASSUME ~spoiled' PROVE Sound'
    <3>1. Sound /\ obj = NullPtr
      BY <1>5, <2>10 DEF IInv
    <3>2. Holders = {f} /\ live = {}
      BY <1>1, <3>1 DEF Sound, At
    <3>3. Unserved'
      BY <1>5, <3>1, <3>2 DEF Unserved
    <3>4. \A g \in Filters : ~Holds(g)' \/ g = f
      BY <2>8, <3>2 DEF Holders
    <3>5. \A g \in Filters : filter'[g].control = NullPtr
      BY <2>1, <2>4, <3>4 DEF Holds
    <3>6. \A g \in Filters :
            /\ filter'[g].pc \notin {"create", "register", "delete", "attached"}
            /\ filter'[g].pc = "release" => g = f
      <4>1. SUFFICES ASSUME NEW g \in Filters \ {f}
                     PROVE  filter[g].pc \notin
                              {"create", "register", "release", "delete", "attached"}
        BY <2>1, <2>4
      <4>2. filter[g].pc \notin {"create", "register", "release"}
        BY <3>2 DEF Holders, Holds
      <4>3. filter[g].pc # "delete"
        BY <3>1, <3>2 DEF Sound, At
      <4>4. filter[g].pc # "attached"
        BY <1>1, <2>4, <3>5 DEF ShapeInv, Shape
      <4> QED BY <4>2, <4>3, <4>4
    <3>7. ~crashed' /\ refCount' = Cardinality(Holders)' /\ Holders' # {}
      BY <1>3, <2>8, <3>1, <3>2 DEF Sound
    <3> QED BY <2>1, <2>4, <3>3, <3>5, <3>6, <3>7 DEF Sound, At
  <2> QED BY <2>4, <2>5, <2>6, <2>9, <2>10 DEF IInv
<1> QED BY <1>4, <1>5 DEF CreateControl

\* After a release the thread goes on without a reference.
LEMMA ContinueRecord ==
  ASSUME TypeOK, ShapeInv, NEW f \in Filters, filter[f].pc \in {"release", "delete"},
         Continue(f)
  PROVE  \E x \in FilterType :
           /\ filter' = [filter EXCEPT ![f] = x] /\ Shape(x)
           /\ x.pc \in {"gone", "refer", "referred"} /\ x.control = NullPtr
           /\ x.adding => filter[f].adding
<1>1. /\ Shape(filter[f]) /\ filter[f].control = NullPtr
      /\ filter[f].next \in {"gone", "refer", "referred"}
  BY DEF ShapeInv, Shape
<1>2. CASE filter[f].next = "gone"
  <2>1. filter' = [filter EXCEPT ![f] = Gone]
    BY <1>2 DEF Continue, Set
  <2>2. Shape(Gone)
    BY GoneFields DEF Shape
  <2> QED BY <2>1, <2>2, GoneFields
<1>3. CASE filter[f].next # "gone"
  <2> DEFINE x == [filter[f] EXCEPT !.pc = filter[f].next, !.next = "gone"]
  <2>1. filter[f].adding /\ filter[f].serial = NoSerial
    BY <1>1, <1>3 DEF Shape
  <2>2. /\ x \in FilterType /\ x.pc \in {"refer", "referred"} /\ x.next = "gone"
        /\ x.control = NullPtr /\ x.adding /\ x.serial = NoSerial
    BY <1>1, <1>3, <2>1, Types DEF FilterType, FilterPc
  <2>3. filter' = [filter EXCEPT ![f] = x]
    BY <1>3 DEF Continue, Set
  <2> HIDE DEF x
  <2>4. Shape(x)
    BY <2>2 DEF Shape
  <2> QED BY <2>1, <2>2, <2>3, <2>4
<1> QED BY <1>2, <1>3

\* A release is counted: the last one alone goes on to delete.
LEMMA ReleaseStep ==
  ASSUME IInv, NEW f \in Filters, Release(f) PROVE IInv'
<1>1. /\ TypeOK /\ ShapeInv /\ AddingInv /\ ReportedInv /\ ListsInv /\ CountInv
      /\ filter[f].pc = "release" /\ refCount \in Nat
  BY DEF IInv, Release, At, TypeOK
<1>2. Shape(filter[f]) /\ filter[f].control = NullPtr
  BY <1>1 DEF ShapeInv, Shape
<1>3. PICK x \in FilterType :
        /\ filter' = [filter EXCEPT ![f] = x] /\ Shape(x)
        /\ x.pc \in {"gone", "refer", "referred", "delete"} /\ x.control = NullPtr
        /\ x.adding => filter[f].adding
        /\ refCount = 1 <=> x.pc = "delete"
  <2>1. CASE refCount = 1
    <3> DEFINE x == [filter[f] EXCEPT !.pc = "delete"]
    <3>1. /\ x \in FilterType /\ x.pc = "delete" /\ x.next = filter[f].next
          /\ x.strategy = filter[f].strategy /\ x.adding = filter[f].adding
          /\ x.control = NullPtr /\ x.serial = filter[f].serial
      BY <1>1, <1>2, Types DEF FilterType, FilterPc
    <3>2. filter' = [filter EXCEPT ![f] = x]
      BY <2>1 DEF Release, Goto, Set
    <3> HIDE DEF x
    <3>3. Shape(x)
      BY <1>2, <1>1, <3>1 DEF Shape
    <3> QED BY <2>1, <3>1, <3>2, <3>3
  <2>2. CASE refCount # 1
    <3>1. Continue(f)
      BY <2>2 DEF Release
    <3> QED BY <1>1, <2>2, <3>1, ContinueRecord
  <2> QED BY <2>1, <2>2
<1>4. /\ refCount' = refCount - 1 /\ obj' = obj /\ live' = live /\ crashed' = crashed
      /\ hubs' = hubs /\ hidden' = hidden /\ peak' = peak /\ reported' = reported
      /\ spoiled' = spoiled
  BY DEF Release, ListsFrame, Lives
<1>5. /\ filter' \in [Filters -> FilterType]
      /\ \A g \in Filters : filter'[g].pc = "attached" =>
            (filter'[g].serial \in Nat <=> filter'[g].strategy \in Hiding)
      /\ ShapeInv' /\ AddingInv'
      /\ filter'[f] = x /\ \A g \in Filters \ {f} : filter'[g] = filter[g]
  BY <1>1, <1>3, StepKeepsShape
<1>6. f \in Holders /\ Holders' = Holders \ {f}
  <2>1. \A g \in Filters \ {f} : Holds(g)' <=> Holds(g)
    BY <1>5 DEF Holds
  <2>2. Holds(f) /\ ~Holds(f)'
    BY <1>1, <1>3, <1>5 DEF Holds
  <2> QED BY <2>1, <2>2 DEF Holders
<1>7. /\ Cardinality(Holders \ {f}) = Cardinality(Holders) - 1
      /\ Cardinality(Holders) \in Nat /\ Cardinality(Holders) # 0
  BY <1>6, HoldersFinite, FS_RemoveElement
<1>8. Cardinality(Holders') = Cardinality(Holders \ {f})
  BY <1>6, Zenon
<1>9. refCount' \in Nat /\ CountInv'
  BY <1>1, <1>4, <1>7, <1>8 DEF CountInv
<1>10. TypeOK'
  BY <1>1, <1>4, <1>5, <1>9 DEF TypeOK
<1>11. ReportedInv' /\ ListsInv'
  BY <1>1, <1>4, <1>5, StepKeepsReported, StepKeepsLists
<1>12. ASSUME ~spoiled' PROVE Sound'
  <2>1. Sound
    BY <1>4, <1>12 DEF IInv
  <2>2. (Served' <=> Served) /\ (Unserved' <=> Unserved)
    BY <1>4 DEF Served, Unserved
  <2>3. Served \/ Unserved
    BY <1>1, <2>1 DEF Sound, At
  <2>4. ~crashed' /\ refCount' = Cardinality(Holders)' /\ refCount = Cardinality(Holders)
    BY <1>4, <1>7, <1>8, <2>1 DEF Sound
  <2>5. \A g \in Filters : filter'[g].control # NullPtr =>
          filter'[g].control = obj' /\ Served'
    BY <1>3, <1>4, <1>5, <2>1, <2>2 DEF Sound
  <2>6. \A g \in Filters : filter'[g].pc # "create"
    <3>1. SUFFICES ASSUME NEW g \in Filters \ {f} PROVE filter[g].pc # "create"
      BY <1>3, <1>5
    <3> QED BY <1>6, <2>1 DEF Sound, At
  <2>7. \A g \in Filters : At(g, "register")' => Served'
    BY <1>3, <1>5, <2>1, <2>2 DEF Sound, At
  <2>8. \A g \in Filters : At(g, "release")' =>
          Served' \/ (filter'[g].next = "referred" /\ Unserved')
    BY <1>3, <1>5, <2>1, <2>2 DEF Sound, At
  <2>9. \A g \in Filters \ {f} : filter'[g].pc # "delete"
    BY <1>5, <1>6, <2>1 DEF Sound, At
  <2>10. Holders' = {} <=> refCount = 1
    <3>1. Holders' = {} <=> Cardinality(Holders') = 0
      BY HoldersFinite, <1>6, FS_RemoveElement, FS_EmptySet
    <3> QED BY <1>7, <1>8, <2>4, <3>1
  <2>11. \A g \in Filters : At(g, "delete")' =>
          /\ Holders' = {} /\ (Served' \/ Unserved')
          /\ \A h \in Filters : At(h, "delete")' => h = g
    BY <1>3, <1>5, <2>2, <2>3, <2>9, <2>10 DEF At
  <2>12. Holders' = {} => At(f, "delete")'
    BY <1>3, <1>5, <2>10 DEF At
  <2>13. \A g \in Filters : At(g, "attached")' /\ filter'[g].strategy \in Hiding =>
           g \in hidden'[filter'[g].control]
    BY <1>3, <1>4, <1>5, <2>1 DEF Sound, At
  <2> QED
    BY <2>4, <2>5, <2>6, <2>7, <2>8, <2>11, <2>12, <2>13 DEF Sound, At
<1> QED BY <1>5, <1>9, <1>10, <1>11, <1>12 DEF IInv

\* The control device is deleted while nobody refers to it.
LEMMA DeleteControlStep ==
  ASSUME IInv, NEW f \in Filters, DeleteControl(f) PROVE IInv'
<1>1. /\ TypeOK /\ ShapeInv /\ AddingInv /\ ReportedInv /\ ListsInv /\ CountInv
      /\ filter[f].pc = "delete" /\ live \subseteq Objects
  BY DEF IInv, DeleteControl, At, TypeOK
<1>2. filter[f].control = NullPtr
  BY <1>1 DEF ShapeInv, Shape
<1>3. PICK x \in FilterType :
        /\ filter' = [filter EXCEPT ![f] = x] /\ Shape(x)
        /\ x.pc \in {"gone", "refer", "referred"} /\ x.control = NullPtr
        /\ x.adding => filter[f].adding
  BY <1>1, ContinueRecord DEF DeleteControl
<1>4. /\ refCount' = refCount /\ obj' = obj /\ live' = live \ {obj} /\ spoiled' = spoiled
      /\ hubs' = hubs /\ hidden' = hidden /\ peak' = peak /\ reported' = reported
      /\ crashed' = (obj # NullPtr /\ obj \notin live)
  BY DEF DeleteControl, ListsFrame
<1>5. /\ filter' \in [Filters -> FilterType]
      /\ \A g \in Filters : filter'[g].pc = "attached" =>
            (filter'[g].serial \in Nat <=> filter'[g].strategy \in Hiding)
      /\ ShapeInv' /\ AddingInv'
      /\ filter'[f] = x /\ \A g \in Filters \ {f} : filter'[g] = filter[g]
  BY <1>1, <1>3, StepKeepsShape
<1>6. TypeOK'
  BY <1>1, <1>4, <1>5 DEF TypeOK
<1>7. ReportedInv' /\ ListsInv'
  BY <1>1, <1>4, <1>5, StepKeepsReported, StepKeepsLists
<1>8. HoldsRec(filter'[f]) <=> HoldsRec(filter[f])
  BY <1>1, <1>2, <1>3, <1>5 DEF HoldsRec
<1>9. Holders' = Holders /\ Cardinality(Holders)' = Cardinality(Holders)
  BY <1>5, <1>8, HoldersKept
<1>10. CountInv'
  BY <1>1, <1>4, <1>9 DEF CountInv
<1>11. ASSUME ~spoiled' PROVE Sound'
  <2>1. Sound
    BY <1>4, <1>11 DEF IInv
  <2>2. /\ Holders = {} /\ (Served \/ Unserved)
        /\ \A g \in Filters : filter[g].pc = "delete" => g = f
    BY <1>1, <2>1 DEF Sound, At
  <2>3. ~crashed' /\ live' = {}
    BY <1>4, <2>2 DEF Served, Unserved
  <2>4. refCount' = Cardinality(Holders)'
    BY <1>4, <1>9, <2>1 DEF Sound
  <2>5. \A g \in Filters :
          /\ filter'[g].control = NullPtr
          /\ filter'[g].pc \notin {"create", "register", "release", "attached"}
    <3>1. \A g \in Filters : ~Holds(g)'
      BY <1>9, <2>2 DEF Holders
    <3>2. \A g \in Filters : filter'[g].control = NullPtr
      BY <3>1 DEF Holds
    <3>3. \A g \in Filters : filter'[g].pc \notin {"create", "register", "release"}
      BY <3>1 DEF Holds
    <3>4. \A g \in Filters : filter'[g].pc # "attached"
      BY <1>5, <3>2 DEF ShapeInv, Shape
    <3> QED BY <3>2, <3>3, <3>4
  <2>6. \A g \in Filters : filter'[g].pc # "delete"
    BY <1>3, <1>5, <2>2
  <2> QED BY <2>3, <2>4, <2>5, <2>6 DEF Sound, At
<1> QED BY <1>5, <1>6, <1>7, <1>10, <1>11 DEF IInv

\* The driver is unloaded and loaded again.
LEMMA ReloadDriverStep ==
  ASSUME IInv, ~crashed, ReloadDriver PROVE IInv'
<1>1. /\ TypeOK /\ ShapeInv /\ AddingInv /\ ReportedInv /\ ListsInv
      /\ \A g \in Filters : filter[g].pc = "gone"
  BY DEF IInv, ReloadDriver, At
<1>2. \A g \in Filters : filter[g] = Gone
  BY <1>1 DEF ShapeInv, Shape
<1>3. /\ refCount' = 0 /\ obj' = NullPtr /\ peak' = 0 /\ spoiled' = (live # {})
      /\ filter' = filter /\ live' = live /\ hubs' = hubs /\ hidden' = hidden
      /\ reported' = reported /\ crashed' = crashed
  BY DEF ReloadDriver, Lives
<1>4. TypeOK'
  BY <1>1, <1>3 DEF TypeOK
<1>5. ShapeInv'
  BY <1>1, <1>3 DEF ShapeInv, Shape
<1>6. AddingInv'
  BY <1>1, <1>3 DEF AddingInv
<1>7. ReportedInv'
  BY <1>1, <1>3 DEF ReportedInv, At
<1>8. \A o \in Objects : hubs[o] = {} /\ hidden[o] = {}
  BY <1>1 DEF ListsInv, Listed, TypeOK
<1>9. ListsInv'
  BY <1>3, <1>8 DEF ListsInv
<1>10. Holders = {} /\ Holders' = {}
  BY <1>2, <1>3, GoneFields DEF Holders, Holds
<1>11. Cardinality(Holders') = 0
  BY <1>10, FS_EmptySet
<1>12. CountInv'
  BY <1>3, <1>11 DEF CountInv
<1>13. ASSUME ~spoiled' PROVE Sound'
  BY <1>1, <1>2, <1>3, <1>10, <1>11, <1>13, GoneFields DEF Sound, At
<1> QED BY <1>4, <1>5, <1>6, <1>7, <1>9, <1>12, <1>13 DEF IInv

\* The invariant holds before the first device is added.
LEMMA InitHolds == ASSUME Init PROVE IInv
<1>1. \A g \in Filters : filter[g] = Gone
  BY DEF Init
<1>2. TypeOK
  BY <1>1, GoneFields DEF Init, TypeOK
<1>3. ShapeInv
  BY <1>1, GoneFields DEF ShapeInv, Shape
<1>4. AddingInv /\ ReportedInv /\ ListsInv
  BY <1>1, GoneFields DEF Init, AddingInv, ReportedInv, ListsInv
<1>5. Holders = {}
  BY <1>1, GoneFields DEF Holders, Holds
<1>6. Cardinality(Holders) = 0
  BY <1>5, FS_EmptySet
<1>7. CountInv
  BY <1>6 DEF CountInv, Init
<1>8. Sound
  BY <1>1, <1>5, <1>6, GoneFields DEF Sound, Init, At
<1> QED BY <1>2, <1>3, <1>4, <1>7, <1>8 DEF IInv

\* The invariant holds when nothing happens.
LEMMA StutterStep == ASSUME IInv, UNCHANGED vars PROVE IInv'
<1>1. /\ filter' = filter /\ hubs' = hubs /\ hidden' = hidden /\ peak' = peak
      /\ refCount' = refCount /\ obj' = obj /\ live' = live /\ spoiled' = spoiled
      /\ crashed' = crashed /\ reported' = reported
  BY DEF vars
<1>2. TypeOK /\ ShapeInv /\ AddingInv /\ ReportedInv /\ ListsInv /\ CountInv
  BY DEF IInv
<1>3. TypeOK'
  BY <1>1, <1>2 DEF TypeOK
<1>4. ShapeInv' /\ AddingInv'
  BY <1>1, <1>2 DEF ShapeInv, Shape, AddingInv
<1>5. ReportedInv' /\ ListsInv'
  BY <1>1, <1>2 DEF ReportedInv, ListsInv, Listed, At
<1>6. Holders' = Holders
  BY <1>1 DEF Holders, Holds
<1>7. Cardinality(Holders') = Cardinality(Holders)
  BY <1>6, Zenon
<1>8. CountInv'
  BY <1>1, <1>2, <1>7 DEF CountInv
<1>9. ASSUME ~spoiled' PROVE Sound'
  <2>1. Sound
    BY <1>1, <1>9 DEF IInv
  <2>2. (Served' <=> Served) /\ (Unserved' <=> Unserved)
    BY <1>1 DEF Served, Unserved
  <2> QED BY <1>1, <1>6, <1>7, <2>1, <2>2 DEF Sound, At
<1> QED BY <1>3, <1>4, <1>5, <1>8, <1>9 DEF IInv

\* In every reachable state of the filter devices the invariant holds.
THEOREM Invariance == Spec => []IInv
<1>1. Init => IInv
  BY InitHolds
<1>2. IInv /\ [Next]_vars => IInv'
  <2> SUFFICES ASSUME IInv, [Next]_vars PROVE IInv'
    OBVIOUS
  <2>1. ASSUME NEW f \in Filters, FilterStep(f) PROVE IInv'
    <3>1. CASE AddDevice(f)
      BY <3>1, AddDeviceStep
    <3>2. CASE Reference(f)
      BY <3>2, ReferenceStep
    <3>3. CASE CreateControl(f)
      BY <3>3, CreateControlStep
    <3>4. CASE RegisterControl(f)
      BY <3>4, RegisterControlStep
    <3>5. CASE Release(f)
      BY <3>5, ReleaseStep
    <3>6. CASE DeleteControl(f)
      BY <3>6, DeleteControlStep
    <3>7. CASE ReferenceFailed(f)
      BY <3>7, ReferenceFailedStep
    <3>8. CASE NullStrategyCreated(f)
      BY <3>8, NullStrategyCreatedStep
    <3>9. CASE SelectStrategy(f)
      BY <3>9, SelectStrategyStep
    <3>10. CASE CreateHub(f)
      BY <3>10, CreateHubStep
    <3>11. CASE CreateHider(f)
      BY <3>11, CreateHiderStep
    <3>12. CASE QueryId(f)
      BY <3>12, QueryIdStep
    <3>13. CASE Remove(f)
      BY <3>13, RemoveStep
    <3>14. CASE Destroy(f)
      BY <3>14, DestroyStep
    <3> QED
      BY <2>1, <3>1, <3>2, <3>3, <3>4, <3>5, <3>6, <3>7, <3>8, <3>9, <3>10, <3>11,
         <3>12, <3>13, <3>14 DEF FilterStep
  <2>2. CASE Next
    BY <2>1, <2>2, ReloadDriverStep DEF Next
  <2>3. CASE UNCHANGED vars
    BY <2>3, StutterStep
  <2> QED BY <2>2, <2>3
<1> QED BY <1>1, <1>2, PTL DEF Spec

\* The state has the types of its fields, and just the attached devices that
\* hide have a serial number.
THEOREM TypeCorrect == Spec => []TypeOK
<1>1. IInv => TypeOK
  BY DEF IInv
<1> QED BY <1>1, Invariance, PTL

\* CRefCountingHolder counts every reference of a strategy exactly once, on
\* every path of AddDevice, and without one the control device is gone.
THEOREM ReferencesAreCounted == Spec => []CountIsExact
<1>1. IInv => CountIsExact
  <2> SUFFICES ASSUME IInv, ~spoiled
               PROVE  /\ refCount = Cardinality(Holders)
                      /\ refCount = 0 /\ (\A f \in Filters : ~At(f, "delete")) => live = {}
    BY DEF CountIsExact
  <2>1. Sound
    BY DEF IInv
  <2> QED BY <2>1, HoldersFinite DEF Sound
<1> QED BY <1>1, Invariance, PTL

\* Unless the holder was spoiled no strategy ever uses a deleted control device,
\* none is deleted twice, and there is never a second one.
THEOREM ReferencesAreGood == Spec => []HoldersAreServed
<1>1. IInv => HoldersAreServed
  BY DEF IInv, Sound, Served, HoldersAreServed
<1> QED BY <1>1, Invariance, PTL

\* The lists of the control device hold no destroyed filter device, and are
\* empty when it is deleted.
THEOREM ListsAreGood == Spec => []NoDanglingFilters
<1>1. IInv => NoDanglingFilters
  <2> SUFFICES ASSUME IInv, ~spoiled, NEW o \in Objects
               PROVE  /\ o \notin live => hubs[o] \cup hidden[o] = {}
                      /\ \A f \in hubs[o] \cup hidden[o] : filter[f].control = o
    BY DEF NoDanglingFilters
  <2>1. TypeOK /\ ListsInv /\ Sound
    BY DEF IInv
  <2>2. \A f \in hubs[o] \cup hidden[o] : f \in Filters /\ filter[f].control = o
    BY <2>1 DEF TypeOK, ListsInv, Listed
  <2>3. \A f \in hubs[o] \cup hidden[o] : o \in live
    BY <2>1, <2>2, FilterDevicesAssumption DEF Sound, Served
  <2> QED BY <2>2, <2>3
<1> QED BY <1>1, Invariance, PTL

\* No two devices are shown to PnP with the same serial number.
THEOREM InstanceIdsAreUnique == Spec => []UniqueInstanceIds
<1>1. IInv => UniqueInstanceIds
  <2> SUFFICES ASSUME IInv, ~spoiled, NEW f \in Filters, NEW g \in Filters,
                      reported[f] = reported[g], reported[f] # NoSerial
               PROVE  f = g
    BY DEF UniqueInstanceIds
  <2>1. TypeOK /\ ShapeInv /\ ReportedInv /\ ListsInv /\ Sound
    BY DEF IInv
  <2>2. /\ At(f, "attached") /\ filter[f].strategy \in Hiding
        /\ At(g, "attached") /\ filter[g].strategy \in Hiding
        /\ filter[f].serial = filter[g].serial
    BY <2>1 DEF ReportedInv
  <2>3. filter[f].control \in Objects /\ filter[g].control = filter[f].control
    BY <2>1, <2>2, AttachedControl, FilterDevicesAssumption DEF Sound, At
  <2>4. f \in hidden[filter[f].control] /\ g \in hidden[filter[f].control]
    BY <2>1, <2>2, <2>3 DEF Sound
  <2> QED BY <2>1, <2>2, <2>3, <2>4 DEF ListsInv
<1> QED BY <1>1, Invariance, PTL

\* A serial number PnP sees is smaller than the most devices that were hidden
\* at a time.
THEOREM SerialsStaySmall == Spec => []SerialsAreReused
<1>1. IInv => SerialsAreReused
  <2> SUFFICES ASSUME IInv, ~spoiled, NEW f \in Filters, reported[f] # NoSerial
               PROVE  reported[f] < peak
    BY DEF SerialsAreReused
  <2>1. TypeOK /\ ShapeInv /\ ReportedInv /\ ListsInv /\ Sound
    BY DEF IInv
  <2>2. /\ At(f, "attached") /\ filter[f].strategy \in Hiding
        /\ reported[f] = filter[f].serial
    BY <2>1 DEF ReportedInv
  <2>3. filter[f].control \in Objects /\ f \in hidden[filter[f].control]
    BY <2>1, <2>2, AttachedControl DEF Sound, At
  <2> QED BY <2>1, <2>2, <2>3 DEF ListsInv
<1> QED BY <1>1, Invariance, PTL
================================================================================
