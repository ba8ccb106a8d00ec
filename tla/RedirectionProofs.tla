--------------------------- MODULE RedirectionProofs ---------------------------
(***************************************************************************)
(* Proofs about Redirection, for any number of devices, clients, PDOs and  *)
(* retries: IInv is an inductive invariant, devices are given back, and    *)
(* the driver implements DeviceOwnership.                                  *)
(***************************************************************************)
EXTENDS RedirectionInvariant, TLAPS

USE RedirectionAssumption
USE DEF CloserAt, IsRedirected, IsPreparedForRemove, One, Acquiring, Removing, BusReports

\* The null values and the idle records are what Types and the counts expect of
\* them; the steps below use them as opaque constants.
LEMMA Nulls ==
  /\ IdleCtl \in AddRedirectCall /\ IdleCtl.pc = "idle"
  /\ IdleCloser \in OnCloseCall /\ IdleCloser.pc = "idle" /\ IdleCloser.redir = NoRedir
  /\ IdlePnp \in PnpWork /\ IdlePnp.pc = "idle" /\ IdlePnp.pdo = NoPdo
  /\ NoFilter \in FilterDevice /\ NoFilter.refs = 0 /\ ~NoFilter.live
  /\ FreeRedirection \in CUsbDkRedirection /\ FreeRedirection.refs = 0
  /\ FreeRedirection.redirectorDevice = NoPdo /\ ~FreeRedirection.created
  /\ NewRedirection \in CUsbDkRedirection /\ NewRedirection.refs = 1
  /\ NewRedirection.redirectorDevice = NoPdo /\ ~NewRedirection.created
  /\ NewRedirection.ownerPid = NoPid /\ ~NewRedirection.removalInProgress
<1>1. FreeRedirection \in CUsbDkRedirection
  BY DEF FreeRedirection, CUsbDkRedirection
<1>2. /\ NewRedirection \in CUsbDkRedirection /\ NewRedirection.refs = 1
      /\ NewRedirection.redirectorDevice = NoPdo /\ ~NewRedirection.created
      /\ NewRedirection.ownerPid = NoPid /\ ~NewRedirection.removalInProgress
  BY <1>1 DEF NewRedirection, CUsbDkRedirection, FreeRedirection
<1>3. IdleCtl \in AddRedirectCall /\ IdleCtl.pc = "idle"
  BY DEF IdleCtl, AddRedirectCall, CtlPc
<1> QED BY <1>1, <1>2, <1>3 DEF IdleCtl, AddRedirectCall, CtlPc, IdleCloser, OnCloseCall, CloserPc, IdlePnp, PnpWork, PnpPc, NoFilter, FilterDevice,
        FreeRedirection


\* A step that leaves every holder of a reference alone leaves the counts exact.
LEMMA RefsFrame ==
  ASSUME RefCountsExact, UNCHANGED entries,
         \A p \in Pdos : closer'[p].redir = closer[p].redir,
         \A r \in Redirs : /\ redir'[r].refs = redir[r].refs
                           /\ redir'[r].redirectorDevice = redir[r].redirectorDevice
                           /\ HeldByCtl(r)' = HeldByCtl(r),
         \A p \in Pdos : filter'[p].refs = filter[p].refs /\ filter'[p].live = filter[p].live,
         ctl'.pc = "ref" => entries[ctl'.dev] = ctl'.redir
  PROVE  RefCountsExact'
<1>1. RedirectionRefs'
  BY DEF RefCountsExact, RedirectionRefs
<1>2. FilterRefs'
  BY DEF RefCountsExact, FilterRefs
<1> QED BY <1>1, <1>2 DEF RefCountsExact

\* What the last reference, or any other, takes along.
LEMMA ReleaseEffect ==
  ASSUME Types, RefCountsExact, NEW r \in Redirs, redir[r].refs > 0, ReleaseRedirection(r)
  PROVE  /\ redir' \in [Redirs -> CUsbDkRedirection]
         /\ filter' \in [Pdos -> FilterDevice]
         /\ redir[r].refs > 1 => /\ redir' = [redir EXCEPT ![r].refs = @ - 1]
                                 /\ filter' = filter
         /\ redir[r].refs = 1 => redir' = [redir EXCEPT ![r] = FreeRedirection]
         /\ \A s \in Redirs : s # r => redir'[s] = redir[s]
         /\ \A p \in Pdos :
               /\ filter[p].live => /\ filter'[p].live /\ filter'[p].id = filter[p].id
                                    /\ filter'[p].strategy = filter[p].strategy
               /\ ~filter[p].live => ~filter'[p].live
               /\ redir[r].redirectorDevice # p => filter'[p] = filter[p]
         /\ FilterRefs'
<1>0. redir \in [Redirs -> CUsbDkRedirection] /\ filter \in [Pdos -> FilterDevice]
  BY DEF Types
<1>t. redir[r].refs \in Nat /\ redir[r].redirectorDevice \in Pdos \cup {NoPdo}
  BY <1>0 DEF CUsbDkRedirection
<1>1. CASE redir[r].refs > 1
  <2>1. redir' = [redir EXCEPT ![r].refs = @ - 1] /\ filter' = filter
    BY <1>1, <1>0, <1>t DEF ReleaseRedirection
  <2>2. redir[r].refs - 1 \in Nat
    BY <1>t, <1>1
  <2>3. redir' \in [Redirs -> CUsbDkRedirection]
    BY <2>1, <2>2, <1>0 DEF CUsbDkRedirection
  <2>4. \A s \in Redirs : redir'[s].redirectorDevice = redir[s].redirectorDevice
    BY <2>1, <1>0 DEF CUsbDkRedirection
  <2>5. FilterRefs'
    BY <2>1, <2>4 DEF RefCountsExact, FilterRefs
  <2> QED BY <2>1, <2>3, <2>5, <1>0, <1>1
<1>2. CASE redir[r].refs = 1
  <2>1. redir' = [redir EXCEPT ![r] = FreeRedirection]
    BY <1>2, <1>0 DEF ReleaseRedirection
  <2>2. redir' \in [Redirs -> CUsbDkRedirection]
    BY <2>1, Nulls, <1>0
  <2>3. \A s \in Redirs : redir'[s].redirectorDevice = IF s = r THEN NoPdo ELSE redir[s].redirectorDevice
    BY <2>1, <1>0, Nulls
  <2>4. CASE redir[r].redirectorDevice = NoPdo
    <3>1. filter' = filter
      BY <2>4, <1>2 DEF ReleaseRedirection
    <3>2. FilterRefs'
      BY <3>1, <2>3, <2>4 DEF RefCountsExact, FilterRefs
    <3> QED BY <2>1, <2>2, <3>1, <3>2, <1>0, <1>2
  <2>5. CASE redir[r].redirectorDevice # NoPdo
    <3> DEFINE q == redir[r].redirectorDevice
    <3>1. q \in Pdos /\ filter' = AfterFilterRelease(q)
      BY <2>5, <1>2, <1>t DEF ReleaseRedirection
    <3>2. filter[q] \in FilterDevice /\ filter[q].refs \in Nat /\ filter[q].live \in BOOLEAN
      BY <3>1, <1>0 DEF FilterDevice
    <3>3. filter[q].refs = One(filter[q].live) + 1
      BY <3>1, <2>5 DEF RefCountsExact, FilterRefs
    <3>4. CASE filter[q].live
      <4>1. filter[q].refs = 2
        BY <3>3, <3>4
      <4>2. filter' = [filter EXCEPT ![q] = [@ EXCEPT !.refs = 1]]
        <5>1. AfterFilterRelease(q) = [filter EXCEPT ![q].refs = @ - 1]
          BY <4>1, <3>1, <1>0 DEF AfterFilterRelease
        <5>2. filter[q].refs - 1 = 1
          BY <4>1
        <5> QED BY <5>1, <5>2, <3>1
      <4>3. filter' \in [Pdos -> FilterDevice]
        BY <4>2, <1>0, <3>1 DEF FilterDevice
      <4>4. /\ filter'[q].live /\ filter'[q].id = filter[q].id
            /\ filter'[q].strategy = filter[q].strategy /\ filter'[q].refs = 1
        BY <4>2, <1>0, <3>1, <3>4 DEF FilterDevice
      <4>5. \A p \in Pdos : p # q => filter'[p] = filter[p]
        BY <4>2, <1>0, <3>1
      <4>6. FilterRefs'
        BY <4>4, <4>5, <2>3, <2>5 DEF RefCountsExact, FilterRefs
      <4> QED BY <4>3, <4>4, <4>5, <4>6, <2>1, <2>2, <3>4, <1>2
    <3>5. CASE ~filter[q].live
      <4>1. filter[q].refs = 1
        BY <3>3, <3>5
      <4>2. filter' = [filter EXCEPT ![q] = NoFilter]
        BY <3>1, <4>1, <1>0 DEF AfterFilterRelease
      <4>3. filter' \in [Pdos -> FilterDevice]
        BY <4>2, <1>0, <3>1, Nulls
      <4>4. ~filter'[q].live /\ filter'[q].refs = 0
        BY <4>2, <1>0, <3>1, Nulls
      <4>5. \A p \in Pdos : p # q => filter'[p] = filter[p]
        BY <4>2, <1>0, <3>1
      <4>6. FilterRefs'
        BY <4>4, <4>5, <2>3, <2>5 DEF RefCountsExact, FilterRefs
      <4> QED BY <4>3, <4>4, <4>5, <4>6, <2>1, <2>2, <3>5, <1>2
    <3> QED BY <3>4, <3>5
  <2> QED BY <2>4, <2>5
<1> QED BY <1>1, <1>2, <1>t

\* DriverEntry leaves the driver with no redirection, no filter and no call.
LEMMA InitIInv == Init => IInv
<1> SUFFICES ASSUME Init PROVE IInv
  OBVIOUS
<1> USE DEF Init, NoFilter, IdleCtl, IdleCloser, IdlePnp, FreeRedirection
<1>1. Types
  BY DEF Types, FilterDevice, CUsbDkRedirection, CtlPc, CloserPc, PnpPc, AddRedirectCall, OnCloseCall, PnpWork
<1>2. RefCountsExact
  BY DEF RefCountsExact, RedirectionRefs, FilterRefs, HeldByCtl, One, IsRedirected
<1>3. NoLostDetachment
  BY DEF NoLostDetachment
<1>4. CtlInv /\ RedirInv /\ PlaceInv
  BY DEF CtlInv, RedirInv, PlaceInv, Acquiring, IsRedirected
<1>5. HandleInv /\ CloserInv
  BY DEF HandleInv, CloserInv, CloserAt, Removing
<1>6. PdosInv /\ PnpInv /\ FreshInv
  BY DEF PdosInv, PnpInv, FreshInv, Uses
<1>7. QED
  BY <1>1, <1>2, <1>3, <1>4, <1>5, <1>6 DEF IInv

\* A device that appears gets a PDO nobody refers to.
LEMMA PlugIInv ==
  ASSUME IInv, NEW d \in Devices, Plug(d)
  PROVE  IInv'
<1>0. PICK p \in Pdos : Unused(p) /\ bus' = [bus EXCEPT ![d] = p]
  BY DEF Plug
<1>1. Types'
  BY DEF IInv, Types, Plug
<1>2. RefCountsExact'
  BY DEF IInv, Plug, RefCountsExact, RedirectionRefs, FilterRefs, HeldByCtl, One, IsRedirected
<1>3. NoLostDetachment'
  BY <1>0 DEF IInv, Plug, NoLostDetachment, Unused, Types, CloserInv, Removing
<1>4. (CtlInv /\ RedirInv /\ PlaceInv /\ HandleInv)'
  BY DEF IInv, Plug, CtlInv, RedirInv, PlaceInv, IsRedirected, IsPreparedForRemove, HandleInv, CloserAt
<1>5. CloserInv'
  BY <1>0 DEF IInv, Plug, CloserInv, CloserAt, Unused, Types, Removing, IsPreparedForRemove
<1>6. PdosInv'
  BY <1>0 DEF IInv, Plug, PdosInv, Uses, Unused, Types
<1>7. PnpInv'
  BY <1>0 DEF IInv, Plug, PnpInv, Unused, Types
<1>8. FreshInv'
  BY <1>0 DEF IInv, Plug, FreshInv, Unused, Types, IsPreparedForRemove, IsRedirected
<1>9. QED
  BY <1>1, <1>2, <1>3, <1>4, <1>5, <1>6, <1>7, <1>8 DEF IInv

\* A device that vanishes from the bus leaves the driver's own state alone.
LEMMA UnplugIInv ==
  ASSUME IInv, NEW d \in Devices, Unplug(d)
  PROVE  IInv'
<1> USE DEF IInv, Unplug
<1>1. Types'
  BY DEF Types
<1>2. RefCountsExact'
  BY RefsFrame DEF HeldByCtl, RefCountsExact
<1>3. NoLostDetachment'
  BY DEF NoLostDetachment, Types
<1>4. (CtlInv /\ RedirInv /\ PlaceInv /\ HandleInv)'
  BY DEF CtlInv, RedirInv, PlaceInv, HandleInv
<1>5. CloserInv'
  BY DEF CloserInv, Types
<1>6. (PdosInv /\ PnpInv)'
  BY DEF PdosInv, Uses, PnpInv, Types
<1>7. FreshInv'
  BY DEF FreshInv, Types
<1> QED BY <1>1, <1>2, <1>3, <1>4, <1>5, <1>6, <1>7

\* The PnP worker takes its snapshot of the bus.
LEMMA QueryDeviceRelationsIInv ==
  ASSUME IInv, NEW d \in Devices, QueryDeviceRelations(d)
  PROVE  IInv'
<1> USE DEF IInv, QueryDeviceRelations
<1>0. /\ pnp[d].pc = "idle" /\ pnp[d].pdo = NoPdo
      /\ \A e \in Devices \ {d} : pnp'[e] = pnp[e]
      /\ \/ pnp' = pnp
         \/ pnp'[d].pdo = bus[d] /\ pnp'[d].pc = IF child[d] = NoPdo THEN "register" ELSE "drop"
  BY DEF Types, PnpWork, PnpInv
<1>1. Types'
  BY DEF Types, PnpWork, PnpPc
<1>2. RefCountsExact'
  BY RefsFrame DEF HeldByCtl, RefCountsExact
<1>3. NoLostDetachment'
  BY <1>0 DEF NoLostDetachment, CloserInv
<1>4. CtlInv' /\ RedirInv' /\ PlaceInv'
  BY DEF CtlInv, RedirInv, PlaceInv
<1>5. HandleInv'
  BY DEF HandleInv
<1>6. CloserInv'
  BY DEF CloserInv
<1>7. PdosInv'
  BY <1>0 DEF PdosInv, Uses
<1>8. PnpInv'
  BY <1>0 DEF PnpInv
<1>9. FreshInv'
  BY <1>0 DEF FreshInv
<1> QED BY <1>1, <1>2, <1>3, <1>4, <1>5, <1>6, <1>7, <1>8, <1>9

\* The first pass of DropRemovedDevices: from here the worker owes the notification.
LEMMA DropRemovedDevicesIInv ==
  ASSUME IInv, NEW d \in Devices, DropRemovedDevices(d)
  PROVE  IInv'
<1> USE DEF IInv, DropRemovedDevices
<1>1. Types'
  BY DEF Types, PnpWork, PnpPc
<1>2. RefCountsExact'
  BY RefsFrame DEF HeldByCtl, RefCountsExact
<1>3. NoLostDetachment'
  BY DEF NoLostDetachment, Types, PnpWork
<1>4. (CtlInv /\ RedirInv /\ PlaceInv /\ HandleInv)'
  BY DEF CtlInv, RedirInv, PlaceInv, HandleInv
<1>5. CloserInv'
  BY DEF CloserInv, PnpInv, Types
<1>6. (PdosInv /\ PnpInv)'
  BY DEF PdosInv, Uses, PnpInv, Types, PnpWork
<1>7. FreshInv'
  BY DEF FreshInv, Types, PnpInv, PnpWork
<1> QED BY <1>1, <1>2, <1>3, <1>4, <1>5, <1>6, <1>7

\* The second pass of DropRemovedDevices pays that debt by setting the event.
LEMMA NotifyRedirectionRemovedIInv ==
  ASSUME IInv, NEW d \in Devices, NotifyRedirectionRemoved(d)
  PROVE  IInv'
<1> USE DEF IInv, NotifyRedirectionRemoved
<1>1. /\ redir' \in [Redirs -> CUsbDkRedirection]
      /\ \A r \in Redirs :
            /\ redir'[r].refs = redir[r].refs
            /\ redir'[r].redirectorDevice = redir[r].redirectorDevice
            /\ redir'[r].ownerPid = redir[r].ownerPid
            /\ redir'[r].removalInProgress = redir[r].removalInProgress
            /\ redir'[r].created = redir[r].created
            /\ redir[r].removed => redir'[r].removed
            /\ redir[r].refs = 0 => redir'[r] = redir[r]
      /\ entries[d] # NoRedir /\ IsPreparedForRemove(entries[d]) => redir'[entries[d]].removed
  <2>1. redir \in [Redirs -> CUsbDkRedirection] /\ entries[d] \in Redirs \cup {NoRedir}
    BY DEF Types
  <2>2. entries[d] # NoRedir => redir[entries[d]].refs # 0
    BY <2>1, Nulls DEF RefCountsExact, RedirectionRefs, CUsbDkRedirection, HeldByCtl
  <2>3. CASE entries[d] # NoRedir /\ IsPreparedForRemove(entries[d])
    <3> DEFINE x == [redir[entries[d]] EXCEPT !.removed = TRUE]
    <3>1. redir' = [redir EXCEPT ![entries[d]] = x] /\ entries[d] \in Redirs
      BY <2>1, <2>3
    <3>2. redir[entries[d]] \in CUsbDkRedirection
      BY <2>1, <3>1
    <3>3. /\ x \in CUsbDkRedirection /\ x.refs = redir[entries[d]].refs
          /\ x.redirectorDevice = redir[entries[d]].redirectorDevice
          /\ x.ownerPid = redir[entries[d]].ownerPid
          /\ x.removalInProgress = redir[entries[d]].removalInProgress
          /\ x.created = redir[entries[d]].created /\ x.removed
      BY <3>2 DEF CUsbDkRedirection
    <3> HIDE DEF x
    <3> QED BY <2>1, <2>2, <2>3, <3>1, <3>3
  <2>4. CASE ~(entries[d] # NoRedir /\ IsPreparedForRemove(entries[d]))
    BY <2>1, <2>4
  <2> QED BY <2>3, <2>4
<1>2. /\ pnp' \in [Devices -> PnpWork]
      /\ \A e \in Devices : e # d => pnp'[e] = pnp[e]
      /\ pnp'[d].pdo = pnp[d].pdo
      /\ pnp'[d].pc = IF pnp[d].pdo = NoPdo THEN "idle" ELSE "register"
  BY Nulls DEF Types, PnpWork, PnpPc
<1>3. Types'
  BY <1>1, <1>2 DEF Types
<1>4. RefCountsExact'
  BY <1>1, RefsFrame DEF HeldByCtl, RefCountsExact
<1>5. NoLostDetachment'
  BY <1>1, <1>2 DEF NoLostDetachment, Types, CloserInv
<1>6. CtlInv' /\ RedirInv'
  BY <1>1 DEF CtlInv, RedirInv, Types
<1>7. PlaceInv' /\ HandleInv'
  <2>1. \A e \in Devices : entries'[e] \in Redirs \cup {NoRedir}
    BY DEF Types
  <2>2. PlaceInv'
    BY <1>1, <2>1 DEF PlaceInv
  <2>3. HandleInv'
    BY <1>1, <2>1 DEF HandleInv
  <2> QED BY <2>2, <2>3
<1>8. CloserInv'
  BY <1>1 DEF CloserInv, Types
<1>9. (PdosInv /\ PnpInv)'
  BY <1>2 DEF PdosInv, Uses, PnpInv, Types
<1>10. FreshInv'
  BY <1>1, <1>2 DEF FreshInv, Types
<1> QED BY <1>3, <1>4, <1>5, <1>6, <1>7, <1>8, <1>9, <1>10

\* A child is registered, or a query of it fails.
LEMMA RegisterNewChildIInv ==
  ASSUME IInv, NEW d \in Devices, RegisterNewChild(d)
  PROVE  IInv'
<1> USE DEF IInv, RegisterNewChild
<1>1. /\ pnp' \in [Devices -> PnpWork]
      /\ child' \in [Devices -> Pdos \cup {NoPdo}]
      /\ \A e \in Devices : e # d => pnp'[e] = pnp[e] /\ child'[e] = child[e]
      /\ pnp[d].pc = "register" /\ child[d] = NoPdo /\ pnp[d].pdo # NoPdo
      /\ \/ child'[d] = pnp[d].pdo /\ pnp'[d].pdo = pnp[d].pdo /\ pnp'[d].pc = "policy"
         \/ child'[d] = NoPdo /\ pnp'[d].pdo = NoPdo /\ pnp'[d].pc = "idle"
  <2>1. pnp[d].pc = "register" /\ child[d] = NoPdo /\ pnp[d].pdo # NoPdo /\ pnp[d].pdo \in Pdos
    BY DEF PnpInv, Types, PnpWork
  <2>2. CASE child' = [child EXCEPT ![d] = pnp[d].pdo] /\ pnp' = [pnp EXCEPT ![d].pc = "policy"]
    BY <2>1, <2>2 DEF Types, PnpWork, PnpPc
  <2>3. CASE child' = child /\ pnp' = [pnp EXCEPT ![d] = IdlePnp]
    BY <2>1, <2>3, Nulls DEF Types
  <2> QED BY <2>2, <2>3
<1>2. Types'
  BY <1>1 DEF Types
<1>3. RefCountsExact'
  BY RefsFrame DEF HeldByCtl, RefCountsExact
<1>4. NoLostDetachment'
  BY <1>1 DEF NoLostDetachment, CloserInv
<1>5. (CtlInv /\ RedirInv /\ PlaceInv /\ HandleInv)'
  BY DEF CtlInv, RedirInv, PlaceInv, HandleInv
<1>6. CloserInv'
  BY <1>1 DEF CloserInv
<1>7. (PdosInv /\ PnpInv)'
  BY <1>1 DEF PdosInv, Uses, PnpInv
<1>8. FreshInv'
  BY <1>1 DEF FreshInv
<1> QED BY <1>2, <1>3, <1>4, <1>5, <1>6, <1>7, <1>8

\* The redirection policy is consulted and the new PDO goes on to AddDevice.
LEMMA ApplyRedirectionPolicyIInv ==
  ASSUME IInv, NEW d \in Devices, ApplyRedirectionPolicy(d)
  PROVE  IInv'
<1> USE DEF IInv, ApplyRedirectionPolicy
<1>1. /\ pnp' \in [Devices -> PnpWork]
      /\ \A e \in Devices : e # d => pnp'[e] = pnp[e]
      /\ pnp[d].pc = "policy"
      /\ \/ pnp'[d].pdo = pnp[d].pdo /\ pnp'[d].pc = "adddevice"
         \/ pnp'[d].pdo = NoPdo /\ pnp'[d].pc = "idle"
  BY Nulls DEF Types, PnpWork, PnpPc
<1>2. Types'
  BY <1>1 DEF Types
<1>3. RefCountsExact'
  BY RefsFrame DEF HeldByCtl, RefCountsExact
<1>4. NoLostDetachment'
  BY <1>1 DEF NoLostDetachment, CloserInv
<1>5. (CtlInv /\ RedirInv /\ PlaceInv /\ HandleInv /\ CloserInv)'
  BY DEF CtlInv, RedirInv, PlaceInv, HandleInv, CloserInv
<1>6. (PdosInv /\ PnpInv)'
  BY <1>1 DEF PdosInv, Uses, PnpInv
<1>7. FreshInv'
  BY <1>1 DEF FreshInv, PnpInv
<1> QED BY <1>2, <1>3, <1>4, <1>5, <1>6, <1>7

\* The filter object is created with the framework's reference, over a PDO that
\* nothing refers to yet.
LEMMA AddDeviceIInv ==
  ASSUME IInv, NEW d \in Devices, AddDevice(d)
  PROVE  IInv'
<1> USE DEF IInv, AddDevice
<1> DEFINE p == pnp[d].pdo
<1>1. /\ pnp[d].pc = "adddevice" /\ p \in Pdos /\ child[d] = p
      /\ filter[p] = NoFilter
      /\ filter \in [Pdos -> FilterDevice] /\ pnp \in [Devices -> PnpWork]
  BY DEF PnpInv, FreshInv, Types, PnpWork
<1>2. /\ ~filter[p].live
      /\ \A r \in Redirs : redir[r].redirectorDevice # p
  <2>1. filter[p].refs = 0 /\ ~filter[p].live
    BY <1>1, Nulls
  <2> QED BY <2>1, <1>1 DEF RefCountsExact, FilterRefs
<1>3. CASE filter' = filter /\ pnp' = [pnp EXCEPT ![d] = IdlePnp]
  <2>1. /\ pnp' \in [Devices -> PnpWork]
        /\ \A e \in Devices : e # d => pnp'[e] = pnp[e]
        /\ pnp'[d].pdo = NoPdo /\ pnp'[d].pc = "idle"
    BY <1>3, <1>1, Nulls
  <2>2. Types'
    BY <1>3, <2>1 DEF Types
  <2>3. RefCountsExact'
    BY <1>3, RefsFrame DEF HeldByCtl, RefCountsExact
  <2>4. NoLostDetachment'
    BY <1>1, <1>3, <2>1 DEF NoLostDetachment, CloserInv
  <2>5. CtlInv' /\ RedirInv' /\ PlaceInv'
    BY <1>3 DEF CtlInv, RedirInv, PlaceInv
  <2>6. HandleInv'
    BY <1>3 DEF HandleInv
  <2>7. CloserInv'
    BY <1>3 DEF CloserInv
  <2>8. (PdosInv /\ PnpInv)'
    BY <2>1 DEF PdosInv, Uses, PnpInv
  <2>9. FreshInv'
    BY <1>1, <1>3, <2>1 DEF FreshInv, PnpInv
  <2> QED BY <2>2, <2>3, <2>4, <2>5, <2>6, <2>7, <2>8, <2>9
<1>4. ASSUME NEW s \in {"hub", "redirector", "hider"},
             s = "redirector" => ShouldRedirect(d),
             filter' = [filter EXCEPT ![p] =
                 [strategy |-> s, id |-> d, live |-> TRUE, started |-> FALSE, refs |-> 1]],
             pnp' = [pnp EXCEPT ![d].pc = "start"]
      PROVE  IInv'
  <2>1. /\ pnp' \in [Devices -> PnpWork]
        /\ \A e \in Devices : e # d => pnp'[e] = pnp[e]
        /\ pnp'[d].pdo = p /\ pnp'[d].pc = "start"
    BY <1>4, <1>1 DEF PnpWork, PnpPc
  <2>2. /\ filter' \in [Pdos -> FilterDevice]
        /\ \A q \in Pdos : q # p => filter'[q] = filter[q]
        /\ filter'[p].strategy = s /\ filter'[p].id = d
        /\ filter'[p].live /\ filter'[p].refs = 1
    BY <1>4, <1>1 DEF FilterDevice
  <2>3. Types'
    BY <2>1, <2>2 DEF Types
  <2>4. RefCountsExact'
    <3>1. RedirectionRefs'
      BY DEF RefCountsExact, RedirectionRefs, HeldByCtl
    <3>2. FilterRefs'
      BY <1>2, <2>2 DEF RefCountsExact, FilterRefs
    <3> QED BY <3>1, <3>2 DEF RefCountsExact
  <2>5. NoLostDetachment'
    BY <1>1, <1>2, <2>1, <2>2 DEF NoLostDetachment, CloserInv
  <2>6. (CtlInv /\ RedirInv)'
    BY DEF CtlInv, RedirInv
  <2>7. PlaceInv'
    <3>1. \A e \in Devices : entries[e] # NoRedir /\ IsRedirected(entries[e]) =>
              redir[entries[e]].redirectorDevice \in Pdos \ {p}
      BY <1>2 DEF Types, CUsbDkRedirection
    <3> QED BY <2>2, <3>1 DEF PlaceInv
  <2>8. HandleInv'
    BY <1>2, <2>2 DEF HandleInv
  <2>9. CloserInv'
    BY <1>2, <2>2 DEF CloserInv
  <2>10. (PdosInv /\ PnpInv)'
    BY <1>1, <2>1 DEF PdosInv, Uses, PnpInv
  <2>11. FreshInv'
    <3>1. \A e \in Devices : e # d => bus[e] # p /\ pnp[e].pdo # p
      BY <1>1 DEF PdosInv, Uses
    <3>2. s = "redirector" /\ entries[d] # NoRedir =>
              ~IsRedirected(entries[d]) /\ ~IsPreparedForRemove(entries[d])
      BY <1>4 DEF ShouldRedirect
    <3>3. \A e \in Devices : e # d =>
              /\ bus[e] # NoPdo => bus[e] \in Pdos /\ filter'[bus[e]] = filter[bus[e]]
              /\ pnp[e].pdo # NoPdo => pnp[e].pdo \in Pdos /\ filter'[pnp[e].pdo] = filter[pnp[e].pdo]
      BY <3>1, <2>2 DEF Types, PnpWork
    <3>4. bus[d] \notin {NoPdo, p} => filter'[bus[d]] = NoFilter
      BY <1>1, <2>2 DEF FreshInv, Types
    <3> QED BY <1>1, <1>2, <2>1, <2>2, <3>2, <3>3, <3>4 DEF FreshInv, PnpInv
  <2> QED BY <2>3, <2>4, <2>5, <2>6, <2>7, <2>8, <2>9, <2>10, <2>11
<1>5. ASSUME NEW hide \in HideVerdicts(d), SelectStrategy(d, hide) # "none"
      PROVE  /\ SelectStrategy(d, hide) \in {"hub", "redirector", "hider"}
             /\ SelectStrategy(d, hide) = "redirector" => ShouldRedirect(d)
  BY <1>5 DEF SelectStrategy
<1> QED BY <1>3, <1>4, <1>5

\* The stack starts; its redirection, if there still is one, takes a reference to
\* the filter that becomes its redirector.
LEMMA MakeAvailableIInv ==
  ASSUME IInv, NEW d \in Devices, MakeAvailable(d)
  PROVE  IInv'
<1> USE DEF IInv
<1> DEFINE p == pnp[d].pdo
           r == entries[filter[p].id]
<1>0. /\ pnp[d].pc = "start" /\ pnp' = [pnp EXCEPT ![d] = IdlePnp]
      /\ bus' = bus /\ child' = child /\ handle' = handle
      /\ entries' = entries /\ ctl' = ctl /\ closer' = closer
  BY DEF MakeAvailable
<1>1. /\ pnp[d].pc = "start" /\ p \in Pdos /\ child[d] = p
      /\ filter[p].live /\ filter[p].id = d
      /\ filter \in [Pdos -> FilterDevice] /\ pnp \in [Devices -> PnpWork]
      /\ redir \in [Redirs -> CUsbDkRedirection] /\ r \in Redirs \cup {NoRedir}
  BY <1>0 DEF PnpInv, FreshInv, Types, PnpWork
<1> HIDE DEF p
<1>2. \A s \in Redirs : redir[s].redirectorDevice # p
  BY <1>1 DEF FreshInv, p
<1>3. /\ pnp' \in [Devices -> PnpWork]
      /\ \A e \in Devices : e # d => pnp'[e] = pnp[e]
      /\ pnp'[d].pdo = NoPdo /\ pnp'[d].pc = "idle"
  BY <1>0, <1>1, Nulls
<1>4. (PdosInv /\ PnpInv)'
  BY <1>0, <1>3 DEF PdosInv, Uses, PnpInv
<1>5. CASE /\ filter[p].strategy = "redirector" /\ r # NoRedir
           /\ filter' = [filter EXCEPT ![p].started = TRUE, ![p].refs = @ + 1]
           /\ NotifyRedirectorCreated(r, p)
  <2>1. /\ r \in Redirs /\ r = entries[d]
        /\ ~IsRedirected(r) /\ ~IsPreparedForRemove(r)
    BY <1>1, <1>5 DEF FreshInv, p
  <2> HIDE DEF r
  <2>2. /\ filter' \in [Pdos -> FilterDevice]
        /\ \A q \in Pdos :
              /\ q # p => filter'[q] = filter[q]
              /\ filter'[q].id = filter[q].id /\ filter'[q].live = filter[q].live
              /\ filter'[q].strategy = filter[q].strategy
              /\ filter'[q].refs = IF q = p THEN filter[q].refs + 1 ELSE filter[q].refs
    BY <1>1, <1>5 DEF FilterDevice
  <2>3. /\ redir' \in [Redirs -> CUsbDkRedirection]
        /\ \A s \in Redirs :
              /\ s # r => redir'[s] = redir[s]
              /\ redir'[s].refs = redir[s].refs
              /\ redir'[s].ownerPid = redir[s].ownerPid
              /\ redir'[s].removed = redir[s].removed
              /\ redir'[s].removalInProgress = redir[s].removalInProgress
              /\ redir'[s].redirectorDevice = IF s = r THEN p ELSE redir[s].redirectorDevice
    BY <1>1, <1>5, <2>1 DEF NotifyRedirectorCreated, CUsbDkRedirection
  <2>4. redir[r].refs # 0
    <3>1. \E e \in Devices : entries[e] = r
      BY <2>1
    <3> QED BY <2>1, <3>1, <1>1 DEF RefCountsExact, RedirectionRefs, CUsbDkRedirection
  <2>5. Types'
    BY <1>0, <1>3, <2>2, <2>3 DEF Types
  <2>6. RefCountsExact'
    <3>1. RedirectionRefs'
      BY <1>0, <2>3 DEF RefCountsExact, RedirectionRefs, HeldByCtl
    <3>2. FilterRefs'
      <4>1. filter[p].refs = 1
        BY <1>1, <1>2 DEF RefCountsExact, FilterRefs
      <4>2. \A q \in Pdos : filter'[q].refs = One(filter'[q].live)
                              + One(\E s \in Redirs : redir'[s].redirectorDevice = q)
        <5> TAKE q \in Pdos
        <5>1. CASE q = p
          <6>1. redir'[r].redirectorDevice = q
            BY <5>1, <2>1, <2>3
          <6>2. filter'[q].refs = 2 /\ filter'[q].live
            BY <5>1, <4>1, <2>2, <1>1
          <6> QED BY <6>1, <6>2, <2>1
        <5>2. CASE q # p
          <6>1. (\E s \in Redirs : redir'[s].redirectorDevice = q)
                  <=> (\E s \in Redirs : redir[s].redirectorDevice = q)
            BY <2>3, <2>1, <5>2
          <6> QED BY <6>1, <2>2, <5>2 DEF RefCountsExact, FilterRefs
        <5> QED BY <5>1, <5>2
      <4>3. \A s, t \in Redirs : redir'[s].redirectorDevice = redir'[t].redirectorDevice
                                   /\ redir'[s].redirectorDevice # NoPdo => s = t
        <5> SUFFICES ASSUME NEW s \in Redirs, NEW t \in Redirs, s # t,
                            redir'[s].redirectorDevice = redir'[t].redirectorDevice
                     PROVE  redir'[s].redirectorDevice = NoPdo
          OBVIOUS
        <5>1. CASE s = r
          BY <5>1, <2>3, <1>2
        <5>2. CASE t = r
          BY <5>2, <2>3, <1>2
        <5>3. CASE s # r /\ t # r
          BY <5>3, <2>3 DEF RefCountsExact, FilterRefs
        <5> QED BY <5>1, <5>2, <5>3
      <4> QED BY <4>2, <4>3 DEF FilterRefs
    <3> QED BY <1>0, <3>1, <3>2 DEF RefCountsExact
  <2>7. NoLostDetachment'
    BY <1>0, <1>1, <1>3, <2>2, <2>3 DEF NoLostDetachment, Types, CloserInv
  <2>8. CtlInv'
    BY <1>0, <2>3, <1>1 DEF CtlInv
  <2>9. RedirInv'
    BY <2>3, <2>4, <1>1 DEF RedirInv
  <2>10. PlaceInv'
    <3> SUFFICES ASSUME NEW e \in Devices, entries[e] # NoRedir, redir'[entries[e]].redirectorDevice # NoPdo
                 PROVE  filter'[redir'[entries[e]].redirectorDevice].id = e
      BY <1>0 DEF PlaceInv
    <3>1. CASE e = d
      BY <3>1, <2>1, <2>2, <2>3, <1>1
    <3>2. CASE e # d
      <4>1. entries[e] \in Redirs /\ entries[e] # r
        BY <2>1, <3>2 DEF Types, RefCountsExact, RedirectionRefs
      <4>2. redir'[entries[e]] = redir[entries[e]] /\ redir[entries[e]].redirectorDevice \in Pdos
        BY <4>1, <2>3, <1>1 DEF CUsbDkRedirection
      <4> QED BY <4>2, <2>2 DEF PlaceInv
    <3> QED BY <3>1, <3>2
  <2>11. HandleInv'
    <3> SUFFICES ASSUME NEW q \in Pdos, handle[q] # NoPid \/ CloserAt(q, "match")
                 PROVE  redir'[entries[filter[q].id]] = redir[entries[filter[q].id]]
      BY <1>0, <2>2, <1>1 DEF HandleInv
    <3>1. entries[filter[q].id] \in Redirs /\ redir[entries[filter[q].id]].redirectorDevice = q
      BY DEF HandleInv, Types
    <3>2. entries[filter[q].id] # r
      BY <3>1, <2>1, <1>2
    <3> QED BY <3>1, <3>2, <2>3
  <2>12. CloserInv'
    BY <1>0, <2>1, <2>2, <2>3 DEF CloserInv, Types
  <2>13. FreshInv'
    <3>1. \A e \in Devices : e # d => bus[e] # p /\ pnp[e].pdo # p
      BY <1>1 DEF PdosInv, Uses
    <3>2. \A e \in Devices : e # d /\ entries[e] # NoRedir =>
              entries[e] \in Redirs /\ redir'[entries[e]] = redir[entries[e]]
      BY <2>1, <2>3 DEF Types, RefCountsExact, RedirectionRefs
    <3>3. \A e \in Devices : e # d /\ pnp[e].pc = "start" =>
              \A s \in Redirs : redir'[s].redirectorDevice # pnp[e].pdo
      <4> SUFFICES ASSUME NEW e \in Devices, e # d, pnp[e].pc = "start", NEW s \in Redirs
                   PROVE  redir'[s].redirectorDevice # pnp[e].pdo
        OBVIOUS
      <4>1. redir[s].redirectorDevice # pnp[e].pdo
        BY DEF FreshInv
      <4> QED BY <4>1, <3>1, <2>3
    <3>4. \A e \in Devices : e # d =>
              /\ bus[e] # NoPdo => bus[e] \in Pdos /\ filter'[bus[e]] = filter[bus[e]]
              /\ pnp[e].pdo # NoPdo => pnp[e].pdo \in Pdos /\ filter'[pnp[e].pdo] = filter[pnp[e].pdo]
      BY <3>1, <2>2 DEF Types, PnpWork
    <3>5. bus[d] \notin {NoPdo, p} => filter'[bus[d]] = NoFilter
      BY <1>1, <2>2 DEF FreshInv, Types, p
    <3> QED BY <1>0, <1>1, <1>3, <3>2, <3>3, <3>4, <3>5 DEF FreshInv, PnpInv, p
  <2> QED BY <1>4, <2>5, <2>6, <2>7, <2>8, <2>9, <2>10, <2>11, <2>12, <2>13
<1>6. CASE redir' = redir /\ (filter' = [filter EXCEPT ![p].started = TRUE] \/ filter' = filter)
  <2>1. /\ filter' \in [Pdos -> FilterDevice]
        /\ \A q \in Pdos :
              /\ q # p => filter'[q] = filter[q]
              /\ filter'[q].id = filter[q].id /\ filter'[q].live = filter[q].live
              /\ filter'[q].strategy = filter[q].strategy
              /\ filter'[q].refs = filter[q].refs
    <3>1. CASE filter' = [filter EXCEPT ![p].started = TRUE]
      <4> DEFINE x == [filter[p] EXCEPT !.started = TRUE]
      <4>1. filter' = [filter EXCEPT ![p] = x]
        BY <1>1, <3>1
      <4>2. filter[p] \in FilterDevice
        BY <1>1
      <4>3. /\ x \in FilterDevice /\ x.id = filter[p].id /\ x.live = filter[p].live
            /\ x.strategy = filter[p].strategy /\ x.refs = filter[p].refs
        BY <4>2 DEF FilterDevice
      <4> HIDE DEF x
      <4> QED BY <1>1, <4>1, <4>3
    <3>2. CASE filter' = filter
      BY <1>1, <3>2
    <3> QED BY <1>6, <3>1, <3>2
  <2>2. Types'
    BY <1>0, <1>3, <1>6, <2>1 DEF Types
  <2>3. RefCountsExact'
    BY <1>0, <1>6, <2>1, RefsFrame DEF HeldByCtl, RefCountsExact
  <2>4. NoLostDetachment'
    BY <1>0, <1>1, <1>3, <1>6, <2>1 DEF NoLostDetachment
  <2>5. (CtlInv /\ RedirInv)'
    BY <1>0, <1>6 DEF CtlInv, RedirInv
  <2>6. PlaceInv'
    BY <1>0, <1>6, <2>1 DEF PlaceInv, Types, CUsbDkRedirection
  <2>7. HandleInv'
    BY <1>0, <1>6, <2>1 DEF HandleInv
  <2>8. CloserInv'
    BY <1>0, <1>6, <2>1 DEF CloserInv
  <2>9. FreshInv'
    <3>1. \A e \in Devices : e # d => bus[e] # p /\ pnp[e].pdo # p
      BY <1>1 DEF PdosInv, Uses
    <3> QED BY <1>0, <1>1, <1>3, <1>6, <2>1, <3>1 DEF FreshInv, PnpInv, Types, PnpWork
  <2> QED BY <1>4, <2>2, <2>3, <2>4, <2>5, <2>6, <2>7, <2>8, <2>9
<1> QED BY <1>5, <1>6 DEF MakeAvailable, p

\* ContextCleanup gives up the framework's reference.
LEMMA RemoveStackIInv ==
  ASSUME IInv, NEW p \in Pdos, RemoveStack(p)
  PROVE  IInv'
<1> USE DEF IInv, RemoveStack
<1>1. /\ filter \in [Pdos -> FilterDevice] /\ filter[p] \in FilterDevice
      /\ filter[p].live /\ handle[p] = NoPid /\ closer[p].pc = "idle"
      /\ \A d \in Devices : pnp[d].pdo # p
  BY DEF Types
<1>2. filter[p].refs = 1 + One(\E r \in Redirs : redir[r].redirectorDevice = p)
  BY <1>1 DEF RefCountsExact, FilterRefs
<1>3. /\ filter' \in [Pdos -> FilterDevice]
      /\ \A q \in Pdos : q # p => filter'[q] = filter[q]
      /\ ~filter'[p].live
      /\ filter'[p].refs = filter[p].refs - 1
      /\ filter[p].refs # 1 => filter'[p].id = filter[p].id
  <2>1. CASE filter[p].refs = 1
    <3>1. AfterFilterRelease(p) = [filter EXCEPT ![p] = NoFilter]
      BY <2>1 DEF AfterFilterRelease
    <3> DEFINE x == [NoFilter EXCEPT !.live = FALSE]
    <3>2. filter' = [filter EXCEPT ![p] = x]
      BY <3>1, <1>1
    <3>3. x \in FilterDevice /\ ~x.live /\ x.refs = 0
      BY Nulls DEF FilterDevice
    <3> HIDE DEF x
    <3>4. filter[p].refs - 1 = 0
      BY <2>1
    <3> QED BY <3>2, <3>3, <3>4, <2>1, <1>1
  <2>2. CASE filter[p].refs = 2
    <3>1. AfterFilterRelease(p) = [filter EXCEPT ![p].refs = @ - 1]
      BY <2>2 DEF AfterFilterRelease
    <3> DEFINE x == [filter[p] EXCEPT !.refs = 1, !.live = FALSE]
    <3>2. filter[p].refs - 1 = 1
      BY <2>2
    <3>3. filter' = [filter EXCEPT ![p] = x]
      <4>1. filter' = [filter EXCEPT ![p] = [[filter[p] EXCEPT !.refs = filter[p].refs - 1] EXCEPT !.live = FALSE]]
        BY <3>1, <1>1
      <4> QED BY <4>1, <3>2
    <3>4. x \in FilterDevice /\ ~x.live /\ x.refs = 1 /\ x.id = filter[p].id
      BY <1>1 DEF FilterDevice
    <3> HIDE DEF x
    <3> QED BY <3>2, <3>3, <3>4, <1>1
  <2> QED BY <1>2, <2>1, <2>2
<1>4. Types'
  BY <1>3 DEF Types
<1>5. RefCountsExact'
  <2>1. RedirectionRefs'
    BY DEF RefCountsExact, RedirectionRefs, HeldByCtl
  <2>2. FilterRefs'
    BY <1>2, <1>3 DEF RefCountsExact, FilterRefs
  <2> QED BY <2>1, <2>2 DEF RefCountsExact
<1>6. NoLostDetachment'
  BY <1>1, <1>3 DEF NoLostDetachment
<1>7. (CtlInv /\ RedirInv /\ PdosInv /\ PnpInv)'
  BY DEF CtlInv, RedirInv, PdosInv, Uses, PnpInv
<1>8. PlaceInv'
  <2> SUFFICES ASSUME NEW d \in Devices, entries[d] # NoRedir, redir[entries[d]].redirectorDevice # NoPdo
               PROVE  filter'[redir[entries[d]].redirectorDevice].id = d
    BY DEF PlaceInv
  <2>1. entries[d] \in Redirs /\ redir[entries[d]].redirectorDevice \in Pdos
    BY DEF Types, CUsbDkRedirection
  <2> QED BY <2>1, <1>2, <1>3 DEF PlaceInv
<1>9. HandleInv'
  BY <1>1, <1>3 DEF HandleInv
<1>10. CloserInv'
  BY <1>1, <1>3 DEF CloserInv
<1>11. FreshInv'
  <2>1. \A d \in Devices : bus[d] \notin {NoPdo, child[d], pnp[d].pdo} => bus[d] # p /\ bus[d] \in Pdos
    BY <1>1, Nulls DEF FreshInv, Types
  <2>2. \A d \in Devices : pnp[d].pdo # NoPdo => pnp[d].pdo \in Pdos /\ pnp[d].pdo # p
    BY <1>1 DEF Types, PnpWork
  <2> QED BY <2>1, <2>2, <1>3 DEF FreshInv, PnpInv
<1> QED BY <1>4, <1>5, <1>6, <1>7, <1>8, <1>9, <1>10, <1>11

\* Steps of AddRedirect that only move the call on.
LEMMA CtlMoveIInv ==
  ASSUME IInv, ctl' \in AddRedirectCall, CtlInv',
         UNCHANGED <<child, pnp, filter, handle, entries, redir, closer>>,
         UNCHANGED bus \/ \E d \in Devices : bus' = [bus EXCEPT ![d] = NoPdo],
         \A r \in Redirs : HeldByCtl(r)' = HeldByCtl(r),
         ctl'.pc # "ref", ctl.pc \notin {"dup", "own"}
  PROVE  IInv'
<1> USE DEF IInv
<1>1. /\ bus' \in [Devices -> Pdos \cup {NoPdo}]
      /\ \A d \in Devices : bus'[d] \in {bus[d], NoPdo}
  BY DEF Types
<1>2. Types'
  BY <1>1 DEF Types
<1>3. RefCountsExact'
  BY RefsFrame
<1>4. NoLostDetachment'
  BY <1>1 DEF NoLostDetachment, CloserInv
<1>5. (RedirInv /\ PlaceInv)'
  BY DEF RedirInv, PlaceInv
<1>6. HandleInv'
  BY DEF HandleInv
<1>7. CloserInv'
  BY <1>1 DEF CloserInv
<1>8. PdosInv'
  BY <1>1 DEF PdosInv, Uses
<1>9. PnpInv'
  BY <1>1 DEF PnpInv
<1>10. FreshInv'
  BY <1>1 DEF FreshInv
<1> QED BY <1>2, <1>3, <1>4, <1>5, <1>6, <1>7, <1>8, <1>9, <1>10

\* The sequential queue takes the next IOCTL_USBDK_ADD_REDIRECT.
LEMMA AddRedirectIInv ==
  ASSUME IInv, NEW d \in Devices, NEW pid \in Pids, AddRedirect(d, pid)
  PROVE  IInv'
<1>1. /\ ctl' \in AddRedirectCall /\ ctl'.pc = "add" /\ ctl'.dev = d /\ ctl'.pid = pid
      /\ ctl.pc = "idle"
  BY Nulls DEF AddRedirect, AddRedirectCall, CtlPc
<1>2. CtlInv'
  BY <1>1 DEF CtlInv
<1>3. \A r \in Redirs : HeldByCtl(r)' = HeldByCtl(r)
  BY <1>1 DEF HeldByCtl
<1> QED BY <1>1, <1>2, <1>3, CtlMoveIInv DEF AddRedirect, CtlFrame

\* Add puts a fresh redirection into the set, with the reference of the set.
LEMMA AddToSetIInv ==
  ASSUME IInv, AddToSet
  PROVE  IInv'
<1> USE DEF IInv
<1>1. ctl \in AddRedirectCall /\ ctl.pc = "add" /\ ctl.dev \in Devices /\ ctl.pid \in Pids
  BY DEF Types, CtlInv, AddToSet
<1>2. CASE UNCHANGED <<entries, redir>> /\ ctl' = IdleCtl
  <2>1. CtlInv'
    BY <1>2, Nulls DEF CtlInv
  <2>2. \A r \in Redirs : HeldByCtl(r)' = HeldByCtl(r)
    BY <1>1, <1>2, Nulls DEF HeldByCtl
  <2> QED BY <1>1, <1>2, <2>1, <2>2, Nulls, CtlMoveIInv DEF AddToSet, CtlFrame
<1>3. ASSUME NEW r \in Redirs, redir[r].refs = 0, entries[ctl.dev] = NoRedir,
             redir' = [redir EXCEPT ![r] = NewRedirection],
             entries' = [entries EXCEPT ![ctl.dev] = r],
             ctl' = [ctl EXCEPT !.pc = "ref", !.redir = r]
      PROVE  IInv'
  <2>1. UNCHANGED <<bus, child, pnp, filter, handle, closer>>
    BY DEF AddToSet, CtlFrame
  <2>2. /\ ctl' \in AddRedirectCall /\ ctl'.pc = "ref" /\ ctl'.redir = r
        /\ ctl'.dev = ctl.dev /\ ctl'.pid = ctl.pid
    BY <1>1, <1>3 DEF AddRedirectCall, CtlPc
  <2>3. /\ redir' \in [Redirs -> CUsbDkRedirection]
        /\ \A s \in Redirs : s # r => redir'[s] = redir[s]
        /\ redir'[r] = NewRedirection
    BY <1>3, Nulls DEF Types
  <2>4. /\ entries' \in [Devices -> Redirs \cup {NoRedir}]
        /\ \A d \in Devices : d # ctl.dev => entries'[d] = entries[d]
        /\ entries'[ctl.dev] = r
    BY <1>1, <1>3 DEF Types
  <2>5. redir[r].redirectorDevice = NoPdo
    BY <1>3, Nulls DEF RedirInv
  <2>6. (\A d \in Devices : entries[d] # r) /\ (\A p \in Pdos : closer[p].redir # r)
    BY <1>3 DEF RefCountsExact, RedirectionRefs
  <2>7. Types'
    BY <2>1, <2>2, <2>3, <2>4 DEF Types
  <2>8. RefCountsExact'
    <3>1. \A s \in Redirs : ~HeldByCtl(s) /\ ~HeldByCtl(s)'
      BY <1>1, <2>2 DEF HeldByCtl
    <3>2. \A s \in Redirs : s # r =>
              ((\E d \in Devices : entries'[d] = s) <=> (\E d \in Devices : entries[d] = s))
      BY <1>3, <2>4, RedirectionAssumption
    <3>3. RedirectionRefs'
      <4>1. \A s \in Redirs :
              redir'[s].refs = One(\E d \in Devices : entries'[d] = s) + One(HeldByCtl(s)')
                               + One(\E p \in Pdos : closer[p].redir = s)
        <5> TAKE s \in Redirs
        <5>1. CASE s = r
          BY <5>1, <1>1, <2>3, <2>4, <2>6, <3>1, Nulls
        <5>2. CASE s # r
          BY <5>2, <2>3, <3>1, <3>2 DEF RefCountsExact, RedirectionRefs
        <5> QED BY <5>1, <5>2
      <4>2. \A d, e \in Devices : entries'[d] = entries'[e] /\ entries'[d] # NoRedir => d = e
        BY <2>4, <2>6 DEF RefCountsExact, RedirectionRefs
      <4> QED BY <4>1, <4>2, <2>1 DEF RefCountsExact, RedirectionRefs
    <3>4. FilterRefs'
      <4>1. \A s \in Redirs : redir'[s].redirectorDevice = redir[s].redirectorDevice
        BY <2>3, <2>5, Nulls
      <4> QED BY <4>1, <2>1 DEF RefCountsExact, FilterRefs
    <3> QED BY <2>2, <2>4, <3>3, <3>4 DEF RefCountsExact
  <2>9. NoLostDetachment'
    BY <1>3, <2>1, <2>3, <2>4, <2>6 DEF NoLostDetachment, CloserInv, Types
  <2>10. CtlInv'
    BY <1>1, <2>2, <2>3, <2>4, Nulls DEF CtlInv
  <2>11. RedirInv'
    BY <2>3, Nulls DEF RedirInv
  <2>12. PlaceInv'
    BY <2>1, <2>3, <2>4, <2>6, Nulls DEF PlaceInv, Types
  <2>13. HandleInv'
    <3> SUFFICES ASSUME NEW p \in Pdos, handle[p] # NoPid \/ CloserAt(p, "match")
                 PROVE  LET d == filter[p].id IN
                           /\ entries[d] # NoRedir /\ d \in Devices /\ d # ctl.dev
                           /\ entries[d] \in Redirs \ {r} /\ redir[entries[d]].ownerPid # NoPid
      BY <2>1, <2>3, <2>4 DEF HandleInv
    <3> QED BY <1>1, <1>3, <2>6 DEF HandleInv, Types
  <2>14. CloserInv'
    <3>1. \A p \in Pdos : closer[p].pc \in Removing =>
              /\ filter[p].id # ctl.dev
              /\ entries[filter[p].id] \in Redirs \ {r}
      BY <1>3, <2>6 DEF CloserInv, Types
    <3> QED BY <2>1, <2>3, <2>4, <3>1 DEF CloserInv
  <2>15. (PdosInv /\ PnpInv)'
    BY <2>1 DEF PdosInv, Uses, PnpInv
  <2>16. FreshInv'
    BY <2>1, <2>3, <2>4, <2>5, Nulls DEF FreshInv, Types
  <2> QED BY <2>7, <2>8, <2>9, <2>10, <2>11, <2>12, <2>13, <2>14, <2>15, <2>16
<1> QED BY <1>2, <1>3 DEF AddToSet

\* An attempt of the retry loop that fails leaves the call where it may go on.
LEMMA NextAttemptType ==
  ASSUME ctl \in AddRedirectCall
  PROVE  \A next \in {NextAttempt, RollBack} :
             /\ next \in AddRedirectCall /\ next.pc \in {"rollback", "open"}
             /\ next.dev = ctl.dev /\ next.pid = ctl.pid /\ next.redir = ctl.redir
<1>1. ctl.left \in 0 .. MaxRetries /\ (ctl.left # 0 => ctl.left - 1 \in 0 .. MaxRetries)
  BY DEF AddRedirectCall
<1>2. /\ RollBack \in AddRedirectCall /\ RollBack.pc = "rollback"
      /\ RollBack.dev = ctl.dev /\ RollBack.pid = ctl.pid /\ RollBack.redir = ctl.redir
  <2>1. 0 \in 0 .. MaxRetries
    OBVIOUS
  <2> QED BY <2>1 DEF RollBack, AddRedirectCall, CtlPc
<1>3. CASE ctl.left = 0
  BY <1>2, <1>3 DEF NextAttempt
<1>4. CASE ctl.left # 0
  <2>1. NextAttempt = [ctl EXCEPT !.pc = "open", !.left = @ - 1]
    BY <1>4 DEF NextAttempt
  <2>2. /\ NextAttempt \in AddRedirectCall /\ NextAttempt.pc = "open"
        /\ NextAttempt.dev = ctl.dev /\ NextAttempt.pid = ctl.pid
        /\ NextAttempt.redir = ctl.redir
    BY <2>1, <1>1, <1>4 DEF AddRedirectCall, CtlPc
  <2> QED BY <1>2, <2>2
<1> QED BY <1>3, <1>4

\* The caller of Add takes a reference of its own; the entry is still in the set.
LEMMA TakeReferenceIInv ==
  ASSUME IInv, TakeReference
  PROVE  IInv'
<1> USE DEF IInv
<1>1. /\ ctl \in AddRedirectCall /\ ctl.pc = "ref" /\ ctl.redir \in Redirs
      /\ ctl.dev \in Devices /\ ctl.pid \in Pids /\ entries[ctl.dev] = ctl.redir
      /\ redir \in [Redirs -> CUsbDkRedirection]
  BY DEF Types, CtlInv, TakeReference
<1>2. UNCHANGED <<bus, child, pnp, filter, handle, entries, closer>>
  BY DEF TakeReference, CtlFrame
<1>3. /\ ctl' \in AddRedirectCall /\ ctl'.pc = "find" /\ ctl'.redir = ctl.redir
      /\ ctl'.dev = ctl.dev /\ ctl'.pid = ctl.pid
  BY <1>1 DEF AddRedirectCall, CtlPc, TakeReference
<1>4. redir[ctl.redir].refs \in Nat /\ redir[ctl.redir].refs + 1 \in Nat
  BY <1>1 DEF CUsbDkRedirection
<1>5. /\ redir' \in [Redirs -> CUsbDkRedirection]
      /\ redir'[ctl.redir].refs = redir[ctl.redir].refs + 1
      /\ \A r \in Redirs :
            /\ r # ctl.redir => redir'[r] = redir[r]
            /\ redir'[r].redirectorDevice = redir[r].redirectorDevice
            /\ redir'[r].ownerPid = redir[r].ownerPid
            /\ redir'[r].removed = redir[r].removed
            /\ redir'[r].removalInProgress = redir[r].removalInProgress
            /\ redir'[r].created = redir[r].created
  BY <1>1, <1>4 DEF TakeReference, CUsbDkRedirection
<1>6. Types'
  BY <1>2, <1>3, <1>5 DEF Types
<1>7. RefCountsExact'
  <2>1. \A r \in Redirs : ~HeldByCtl(r) /\ (HeldByCtl(r)' <=> r = ctl.redir)
    BY <1>1, <1>3 DEF HeldByCtl
  <2>2. \A r \in Redirs :
          redir'[r].refs = One(\E d \in Devices : entries[d] = r) + One(r = ctl.redir)
                           + One(\E p \in Pdos : closer[p].redir = r)
    <3> TAKE r \in Redirs
    <3>1. redir[r].refs = One(\E d \in Devices : entries[d] = r)
                          + One(\E p \in Pdos : closer[p].redir = r)
      BY <2>1 DEF RefCountsExact, RedirectionRefs
    <3>2. CASE r = ctl.redir
      BY <3>1, <3>2, <1>5
    <3>3. CASE r # ctl.redir
      BY <3>1, <3>3, <1>5
    <3> QED BY <3>2, <3>3
  <2>3. RedirectionRefs'
    BY <1>2, <2>1, <2>2 DEF RefCountsExact, RedirectionRefs
  <2>4. FilterRefs'
    BY <1>2, <1>5 DEF RefCountsExact, FilterRefs
  <2> QED BY <1>3, <2>3, <2>4 DEF RefCountsExact
<1>8. NoLostDetachment'
  BY <1>2, <1>5 DEF NoLostDetachment, Types, CloserInv
<1>9. CtlInv'
  BY <1>1, <1>2, <1>3, <1>5 DEF CtlInv
<1>10. RedirInv'
  BY <1>1, <1>4, <1>5 DEF RedirInv, CUsbDkRedirection
<1>11. PlaceInv'
  BY <1>2, <1>5 DEF PlaceInv, Types
<1>12. HandleInv'
  BY <1>1, <1>2, <1>5 DEF HandleInv, Types
<1>13. CloserInv'
  BY <1>2, <1>5 DEF CloserInv, Types
<1>14. (PdosInv /\ PnpInv)'
  BY <1>2 DEF PdosInv, Uses, PnpInv
<1>15. FreshInv'
  BY <1>2, <1>5 DEF FreshInv, Types
<1> QED BY <1>6, <1>7, <1>8, <1>9, <1>10, <1>11, <1>12, <1>13, <1>14, <1>15

\* The reset of AddRedirect looks its device up.
LEMMA FindDeviceIInv ==
  ASSUME IInv, FindDevice
  PROVE  IInv'
<1> USE DEF IInv
<1>1. /\ ctl' \in AddRedirectCall /\ ctl.pc = "find" /\ ctl'.pc \in {"rollback", "power", "cycle"}
      /\ ctl'.dev = ctl.dev /\ ctl'.pid = ctl.pid /\ ctl'.redir = ctl.redir
  <2>1. ctl \in AddRedirectCall /\ ctl.pc = "find" /\ child[ctl.dev] \in Pdos \cup {NoPdo}
    BY DEF Types, CtlInv, FindDevice
  <2>2. CASE ctl' = [ctl EXCEPT !.pc = "rollback"]
    BY <2>1, <2>2 DEF AddRedirectCall, CtlPc
  <2>3. CASE \E pc \in {"power", "cycle"} : ctl' = [ctl EXCEPT !.pc = pc, !.pdo = child[ctl.dev]]
    BY <2>1, <2>3 DEF AddRedirectCall, CtlPc
  <2> QED BY <2>2, <2>3 DEF FindDevice
<1>2. CtlInv'
  BY <1>1 DEF CtlInv, FindDevice, CtlFrame
<1>3. \A r \in Redirs : HeldByCtl(r)' = HeldByCtl(r)
  BY <1>1 DEF HeldByCtl
<1> QED BY <1>1, <1>2, <1>3, CtlMoveIInv DEF FindDevice, CtlFrame

\* The power IRP of the reset is completed.
LEMMA PowerRequestCompletionIInv ==
  ASSUME IInv, PowerRequestCompletion
  PROVE  IInv'
<1> USE DEF IInv
<1>1. /\ ctl' \in AddRedirectCall /\ ctl.pc = "power" /\ ctl'.pc = "cycle"
      /\ ctl'.dev = ctl.dev /\ ctl'.pid = ctl.pid /\ ctl'.redir = ctl.redir
  BY DEF Types, PowerRequestCompletion, AddRedirectCall, CtlPc
<1>2. CtlInv'
  BY <1>1 DEF CtlInv, PowerRequestCompletion, CtlFrame
<1>3. \A r \in Redirs : HeldByCtl(r)' = HeldByCtl(r)
  BY <1>1 DEF HeldByCtl
<1> QED BY <1>1, <1>2, <1>3, CtlMoveIInv DEF PowerRequestCompletion, CtlFrame

\* The reset of AddRedirect cycles the port.
LEMMA CyclePortIInv ==
  ASSUME IInv, CyclePort
  PROVE  IInv'
<1> USE DEF IInv
<1>1. /\ ctl' \in AddRedirectCall /\ ctl.pc = "cycle" /\ ctl'.pc \in {"rollback", "attach"}
      /\ ctl'.dev = ctl.dev /\ ctl'.pid = ctl.pid /\ ctl'.redir = ctl.redir
  <2>1. ctl \in AddRedirectCall /\ ctl.pc = "cycle"
    BY DEF Types, CyclePort
  <2>2. CASE ctl' = [ctl EXCEPT !.pc = "attach", !.pdo = NoPdo]
    BY <2>1, <2>2 DEF AddRedirectCall, CtlPc
  <2>3. CASE ctl' = [ctl EXCEPT !.pc = "rollback", !.pdo = NoPdo]
    BY <2>1, <2>3 DEF AddRedirectCall, CtlPc
  <2> QED BY <2>2, <2>3 DEF CyclePort
<1>2. CtlInv'
  BY <1>1 DEF CtlInv, CyclePort, CtlFrame
<1>3. \A r \in Redirs : HeldByCtl(r)' = HeldByCtl(r)
  BY <1>1 DEF HeldByCtl
<1>4. UNCHANGED bus \/ \E d \in Devices : bus' = [bus EXCEPT ![d] = NoPdo]
  BY DEF CyclePort, CycleSucceeds, CycleFails, CtlInv
<1> QED BY <1>1, <1>2, <1>3, <1>4, CtlMoveIInv DEF CyclePort, CtlFrame

\* A wait that succeeds has a redirector to open.
LEMMA WaitForAttachmentIInv ==
  ASSUME IInv, WaitForAttachment
  PROVE  IInv'
<1> USE DEF IInv
<1>1. /\ ctl' \in AddRedirectCall /\ ctl.pc = "attach" /\ ctl'.pc \in {"rollback", "open"}
      /\ ctl'.dev = ctl.dev /\ ctl'.pid = ctl.pid /\ ctl'.redir = ctl.redir
      /\ ctl'.pc = "open" => redir[ctl.redir].created
  <2>1. ctl \in AddRedirectCall /\ ctl.pc = "attach" /\ MaxRetries \in 0 .. MaxRetries
    BY DEF Types, WaitForAttachment
  <2>2. CASE redir[ctl.redir].created /\ ctl' = [ctl EXCEPT !.pc = "open", !.left = MaxRetries]
    BY <2>1, <2>2 DEF AddRedirectCall, CtlPc
  <2>3. CASE ctl' = RollBack
    <3>1. RollBack.pc = "rollback"
      BY <2>1 DEF RollBack, AddRedirectCall
    <3> QED BY <2>1, <2>3, <3>1, NextAttemptType
  <2> QED BY <2>2, <2>3 DEF WaitForAttachment
<1>2. CtlInv'
  BY <1>1 DEF CtlInv, RedirInv, WaitForAttachment, CtlFrame
<1>3. \A r \in Redirs : HeldByCtl(r)' = HeldByCtl(r)
  BY <1>1 DEF HeldByCtl
<1> QED BY <1>1, <1>2, <1>3, CtlMoveIInv DEF WaitForAttachment, CtlFrame

\* One attempt to open the redirector and to hand it to the client.
LEMMA CreateRedirectorHandleIInv ==
  ASSUME IInv, CreateRedirectorHandle
  PROVE  IInv'
<1> USE DEF IInv
<1>r. PICK r \in Redirs : r = ctl.redir
  BY DEF CtlInv, CreateRedirectorHandle
<1>o. /\ ctl \in AddRedirectCall /\ ctl.pc = "open"
      /\ ctl.dev \in Devices /\ ctl.pid \in Pids /\ entries[ctl.dev] = r
      /\ IsRedirected(r) /\ redir[r].ownerPid = NoPid /\ ~IsPreparedForRemove(r)
  BY <1>r DEF Types, CtlInv, CreateRedirectorHandle
<1>p. PICK p \in Pdos : p = redir[r].redirectorDevice
  BY <1>o DEF Types, CUsbDkRedirection, IsRedirected
<1>1. /\ ctl \in AddRedirectCall /\ ctl.pc = "open" /\ ctl.redir = r
      /\ ctl.dev \in Devices /\ ctl.pid \in Pids /\ entries[ctl.dev] = r
      /\ redir[r].redirectorDevice = p /\ redir[r].ownerPid = NoPid
      /\ ~IsPreparedForRemove(r) /\ filter[p].id = ctl.dev
  BY <1>r, <1>o, <1>p, RedirectionAssumption DEF PlaceInv
<1>2. UNCHANGED <<bus, child, pnp, filter, entries, redir>>
  BY DEF CreateRedirectorHandle, CtlFrame
<1>3. \A q \in Pdos : filter[q].id = ctl.dev => handle[q] = NoPid /\ closer[q].pc = "idle"
  <2> SUFFICES ASSUME NEW q \in Pdos, filter[q].id = ctl.dev
               PROVE  handle[q] = NoPid /\ closer[q].pc = "idle"
    OBVIOUS
  <2>1. handle[q] = NoPid /\ closer[q].pc # "match"
    BY <1>1 DEF HandleInv
  <2>2. closer[q].pc \notin Removing
    BY <1>1 DEF CloserInv
  <2> QED BY <2>1, <2>2 DEF Types, OnCloseCall, CloserPc
<1>4. CASE handle' = [handle EXCEPT ![p] = ctl.pid] /\ ctl' = [ctl EXCEPT !.pc = "own"]
           /\ UNCHANGED closer /\ CanOpen(p)
  <2>1. /\ ctl' \in AddRedirectCall /\ ctl'.pc = "own" /\ ctl'.redir = r
        /\ ctl'.dev = ctl.dev /\ ctl'.pid = ctl.pid /\ ctl'.pdo = ctl.pdo
    BY <1>1, <1>4 DEF AddRedirectCall, CtlPc
  <2>2. /\ handle' \in [Pdos -> Pids \cup {NoPid}] /\ handle'[p] = ctl.pid
        /\ \A q \in Pdos : q # p => handle'[q] = handle[q]
    BY <1>1, <1>4 DEF Types
  <2>3. Types'
    BY <1>2, <1>4, <2>1, <2>2 DEF Types
  <2>4. RefCountsExact'
    BY <1>1, <1>2, <1>4, <2>1, RefsFrame DEF HeldByCtl
  <2>5. (NoLostDetachment /\ RedirInv /\ PlaceInv /\ PdosInv /\ PnpInv /\ FreshInv)'
    BY <1>2, <1>4 DEF NoLostDetachment, RedirInv, PlaceInv, PdosInv, Uses, PnpInv, FreshInv
  <2>6. CtlInv'
    BY <1>1, <1>2, <2>1 DEF CtlInv
  <2>7. CloserInv'
    BY <1>2, <1>4 DEF CloserInv
  <2>8. HandleInv'
    <3>1. filter[p].live
      BY <1>4 DEF CanOpen
    <3>2. \A q \in Pdos : handle[q] # NoPid \/ CloserAt(q, "match") =>
              redir[entries[filter[q].id]].ownerPid # NoPid
      BY <1>1 DEF HandleInv
    <3>3. ASSUME NEW q \in Pdos, handle'[q] # NoPid \/ closer[q].pc = "match"
          PROVE  /\ handle'[q] # NoPid => closer[q].pc = "idle"
                 /\ filter[q].live /\ filter[q].id \in Devices
                 /\ entries[filter[q].id] # NoRedir
                 /\ redir[entries[filter[q].id]].redirectorDevice = q
                 /\ ~IsPreparedForRemove(entries[filter[q].id])
                 /\ redir[entries[filter[q].id]].ownerPid = NoPid => q = p
      <4>1. CASE q = p
        BY <1>1, <1>3, <3>1, <4>1, RedirectionAssumption
      <4>2. CASE q # p
        <5>1. handle[q] # NoPid \/ CloserAt(q, "match")
          BY <2>2, <3>3, <4>2 DEF CloserAt
        <5> QED BY <2>2, <3>2, <4>2, <5>1 DEF HandleInv, CloserAt
      <4> QED BY <4>1, <4>2
    <3>4. /\ entries[filter[p].id] = ctl'.redir /\ closer[p].pc # "match"
          /\ ctl'.pc = "own"
      BY <1>1, <1>3, <2>1
    <3>5. UNCHANGED <<filter, entries, redir, closer>>
      BY <1>2, <1>4
    <3> QED BY <3>3, <3>4, <3>5 DEF HandleInv, CloserAt, IsPreparedForRemove
  <2> QED BY <2>3, <2>4, <2>5, <2>6, <2>7, <2>8
<1>5. CASE closer' = [closer EXCEPT ![p].pc = "match", ![p].pid = ctl.pid]
           /\ ctl' = [ctl EXCEPT !.pc = "dup", !.pdo = p] /\ UNCHANGED handle /\ CanOpen(p)
  <2>1. /\ ctl' \in AddRedirectCall /\ ctl'.pc = "dup" /\ ctl'.redir = r
        /\ ctl'.dev = ctl.dev /\ ctl'.pid = ctl.pid /\ ctl'.pdo = p
    BY <1>1, <1>5 DEF AddRedirectCall, CtlPc
  <2>2. /\ closer' \in [Pdos -> OnCloseCall]
        /\ closer'[p].pc = "match" /\ closer'[p].pid = ctl.pid
        /\ closer'[p].redir = closer[p].redir
        /\ \A q \in Pdos : q # p => closer'[q] = closer[q]
    <3>1. closer \in [Pdos -> OnCloseCall]
      BY DEF Types
    <3>2. closer' = [closer EXCEPT ![p] = [closer[p] EXCEPT !.pc = "match", !.pid = ctl.pid]]
      BY <1>5, <3>1
    <3> DEFINE x == [closer[p] EXCEPT !.pc = "match", !.pid = ctl.pid]
    <3>3. /\ x \in OnCloseCall /\ x.pc = "match" /\ x.pid = ctl.pid
          /\ x.redir = closer[p].redir
      <4>1. closer[p] \in OnCloseCall /\ ctl.pid \in Pids
        BY <1>1, <3>1
      <4> QED BY <4>1 DEF OnCloseCall, CloserPc
    <3> HIDE DEF x
    <3> QED BY <1>1, <3>1, <3>2, <3>3 DEF x
  <2>3. Types'
    BY <1>2, <1>5, <2>1, <2>2 DEF Types
  <2>4. RefCountsExact'
    BY <1>1, <1>2, <2>1, <2>2, RefsFrame DEF HeldByCtl
  <2>5. (RedirInv /\ PlaceInv /\ PdosInv /\ PnpInv /\ FreshInv)'
    BY <1>2 DEF RedirInv, PlaceInv, PdosInv, Uses, PnpInv, FreshInv
  <2>6. NoLostDetachment'
    BY <1>2, <2>2 DEF NoLostDetachment
  <2>7. CtlInv'
    BY <1>1, <1>2, <2>1 DEF CtlInv
  <2>8. CloserInv'
    BY <1>1, <1>2, <1>3, <2>2 DEF CloserInv
  <2>9. HandleInv'
    <3>1. filter[p].live
      BY <1>5 DEF CanOpen
    <3>2. \A q \in Pdos : handle[q] # NoPid \/ CloserAt(q, "match") =>
              redir[entries[filter[q].id]].ownerPid # NoPid
      BY <1>1 DEF HandleInv
    <3>3. ASSUME NEW q \in Pdos, handle[q] # NoPid \/ closer'[q].pc = "match"
          PROVE  /\ handle[q] # NoPid => closer'[q].pc = "idle"
                 /\ filter[q].live /\ filter[q].id \in Devices
                 /\ entries[filter[q].id] # NoRedir
                 /\ redir[entries[filter[q].id]].redirectorDevice = q
                 /\ ~IsPreparedForRemove(entries[filter[q].id])
                 /\ redir[entries[filter[q].id]].ownerPid = NoPid => q = p
      <4>1. CASE q = p
        BY <1>1, <1>3, <3>1, <4>1, RedirectionAssumption
      <4>2. CASE q # p
        <5>1. handle[q] # NoPid \/ CloserAt(q, "match")
          BY <2>2, <3>3, <4>2 DEF CloserAt
        <5>2. handle[q] # NoPid => closer'[q].pc = "idle"
          BY <2>2, <4>2 DEF HandleInv, CloserAt
        <5> QED BY <3>2, <5>1, <5>2 DEF HandleInv
      <4> QED BY <4>1, <4>2
    <3>4. entries[filter[p].id] = ctl'.redir /\ closer'[p].pc = "match"
          /\ ctl'.pc = "dup" /\ ctl'.pdo = p
      BY <1>1, <2>1, <2>2
    <3>5. UNCHANGED <<filter, entries, redir, handle>>
      BY <1>2, <1>5
    <3> QED BY <3>3, <3>4, <3>5 DEF HandleInv, CloserAt, IsPreparedForRemove
  <2> QED BY <2>3, <2>4, <2>5, <2>6, <2>7, <2>8, <2>9
<1>6. CASE ctl' \in {NextAttempt, RollBack} /\ UNCHANGED <<handle, closer>>
  <2>1. CtlInv'
    BY <1>1, <1>2, <1>6, NextAttemptType DEF CtlInv
  <2>2. \A s \in Redirs : HeldByCtl(s)' = HeldByCtl(s)
    BY <1>1, <1>6, NextAttemptType DEF HeldByCtl
  <2> QED BY <1>1, <1>2, <1>6, <2>1, <2>2, NextAttemptType, CtlMoveIInv
<1> QED BY <1>1, <1>4, <1>5, <1>6 DEF CreateRedirectorHandle

\* The close of a handle that could not be duplicated has matched nobody.
LEMMA DuplicateFailedIInv ==
  ASSUME IInv, DuplicateFailed
  PROVE  IInv'
<1> USE DEF IInv
<1>1. /\ ctl \in AddRedirectCall /\ ctl.pc = "dup" /\ ctl.redir \in Redirs
      /\ ctl.dev \in Devices /\ closer[ctl.pdo].pc = "idle"
  BY DEF Types, CtlInv, DuplicateFailed
<1>2. UNCHANGED <<bus, child, pnp, filter, handle, entries, redir, closer>>
  BY DEF DuplicateFailed, CtlFrame
<1>3. /\ ctl' \in AddRedirectCall /\ ctl'.pc \in {"rollback", "open"}
      /\ ctl'.dev = ctl.dev /\ ctl'.pid = ctl.pid /\ ctl'.redir = ctl.redir
  <2>1. NextAttempt \in AddRedirectCall /\ ctl' = [NextAttempt EXCEPT !.pdo = NoPdo]
    BY <1>1, NextAttemptType DEF DuplicateFailed
  <2>2. /\ ctl' \in AddRedirectCall /\ ctl'.pc = NextAttempt.pc
        /\ ctl'.dev = NextAttempt.dev /\ ctl'.pid = NextAttempt.pid
        /\ ctl'.redir = NextAttempt.redir
    BY <2>1 DEF AddRedirectCall
  <2> QED BY <1>1, <2>2, NextAttemptType
<1>4. Types'
  BY <1>2, <1>3 DEF Types
<1>5. RefCountsExact'
  BY <1>1, <1>2, <1>3, RefsFrame DEF HeldByCtl
<1>6. (NoLostDetachment /\ RedirInv /\ PlaceInv /\ PdosInv /\ PnpInv /\ FreshInv)'
  BY <1>2 DEF NoLostDetachment, RedirInv, PlaceInv, PdosInv, Uses, PnpInv, FreshInv
<1>7. CtlInv'
  BY <1>1, <1>2, <1>3 DEF CtlInv
<1>8. CloserInv'
  BY <1>2 DEF CloserInv
<1>9. HandleInv'
  <2>1. \A p \in Pdos : handle[p] # NoPid \/ CloserAt(p, "match") =>
            redir[entries[filter[p].id]].ownerPid # NoPid
    BY <1>1 DEF HandleInv
  <2> QED BY <1>2, <2>1 DEF HandleInv
<1> QED BY <1>4, <1>5, <1>6, <1>7, <1>8, <1>9

\* From here on a close by the owner may begin the removal.
LEMMA SetOwnerPidIInv ==
  ASSUME IInv, SetOwnerPid
  PROVE  IInv'
<1> USE DEF IInv
<1> DEFINE r == ctl.redir
<1>1. /\ ctl \in AddRedirectCall /\ ctl.pc = "own" /\ r \in Redirs
      /\ ctl.dev \in Devices /\ ctl.pid \in Pids /\ entries[ctl.dev] = r
      /\ redir \in [Redirs -> CUsbDkRedirection] /\ redir[r].ownerPid = NoPid
  BY DEF Types, CtlInv, SetOwnerPid
<1>2. UNCHANGED <<bus, child, pnp, filter, handle, entries, closer>>
  BY DEF SetOwnerPid, CtlFrame
<1>3. /\ ctl' \in AddRedirectCall /\ ctl'.pc = "release" /\ ctl'.redir = r
      /\ ctl'.dev = ctl.dev /\ ctl'.pid = ctl.pid
  BY <1>1 DEF AddRedirectCall, CtlPc, SetOwnerPid
<1>4. /\ redir' \in [Redirs -> CUsbDkRedirection]
      /\ redir'[r].ownerPid = ctl.pid
      /\ \A s \in Redirs :
            /\ s # r => redir'[s] = redir[s]
            /\ redir'[s].refs = redir[s].refs
            /\ redir'[s].redirectorDevice = redir[s].redirectorDevice
            /\ redir'[s].removed = redir[s].removed
            /\ redir'[s].removalInProgress = redir[s].removalInProgress
            /\ redir'[s].created = redir[s].created
  BY <1>1 DEF SetOwnerPid, CUsbDkRedirection
<1>5. Types'
  BY <1>2, <1>3, <1>4 DEF Types
<1>6. RefCountsExact'
  BY <1>1, <1>2, <1>3, <1>4, RefsFrame DEF HeldByCtl
<1>7. NoLostDetachment'
  BY <1>2, <1>4 DEF NoLostDetachment, Types, CloserInv
<1>8. CtlInv'
  BY <1>1, <1>3 DEF CtlInv
<1>9. RedirInv'
  <2>1. redir[r].refs # 0
    BY <1>1, Nulls DEF RefCountsExact, RedirectionRefs, HeldByCtl, CUsbDkRedirection
  <2> QED BY <2>1, <1>4 DEF RedirInv
<1>10. PlaceInv'
  BY <1>2, <1>4 DEF PlaceInv, Types
<1>11. HandleInv'
  BY <1>1, <1>2, <1>4 DEF HandleInv, Types
<1>12. CloserInv'
  BY <1>2, <1>4 DEF CloserInv, Types
<1>13. (PdosInv /\ PnpInv)'
  BY <1>2 DEF PdosInv, Uses, PnpInv
<1>14. FreshInv'
  BY <1>2, <1>4 DEF FreshInv, Types
<1> QED BY <1>5, <1>6, <1>7, <1>8, <1>9, <1>10, <1>11, <1>12, <1>13, <1>14

\* The reset of the rollback looks its device up.
LEMMA RollBackFindDeviceIInv ==
  ASSUME IInv, RollBackFindDevice
  PROVE  IInv'
<1> USE DEF IInv
<1>1. /\ ctl' \in AddRedirectCall /\ ctl.pc = "rbfind" /\ ctl'.pc \in {"release", "rbcycle"}
      /\ ctl'.dev = ctl.dev /\ ctl'.pid = ctl.pid /\ ctl'.redir = ctl.redir
  BY DEF Types, CtlInv, RollBackFindDevice, AddRedirectCall, CtlPc
<1>2. CtlInv'
  BY <1>1 DEF CtlInv
<1>3. \A r \in Redirs : HeldByCtl(r)' = HeldByCtl(r)
  BY <1>1 DEF HeldByCtl
<1> QED BY <1>1, <1>2, <1>3, CtlMoveIInv DEF RollBackFindDevice, CtlFrame

\* The reset of the rollback cycles the port.
LEMMA RollBackCyclePortIInv ==
  ASSUME IInv, RollBackCyclePort
  PROVE  IInv'
<1> USE DEF IInv
<1>1. /\ ctl' \in AddRedirectCall /\ ctl.pc = "rbcycle" /\ ctl'.pc = "release"
      /\ ctl'.dev = ctl.dev /\ ctl'.pid = ctl.pid /\ ctl'.redir = ctl.redir
  BY DEF Types, CtlInv, RollBackCyclePort, AddRedirectCall, CtlPc
<1>2. CtlInv'
  BY <1>1 DEF CtlInv
<1>3. \A r \in Redirs : HeldByCtl(r)' = HeldByCtl(r)
  BY <1>1 DEF HeldByCtl
<1>4. UNCHANGED bus \/ \E d \in Devices : bus' = [bus EXCEPT ![d] = NoPdo]
  BY DEF RollBackCyclePort, CycleSucceeds, CycleFails, CtlInv
<1> QED BY <1>1, <1>2, <1>3, <1>4, CtlMoveIInv DEF RollBackCyclePort, CtlFrame

\* One of the three kinds of holders of r lets it go.
LEMMA ReleaseRefs ==
  ASSUME Types, RefCountsExact, NEW r \in Redirs, redir[r].refs > 0, ReleaseRedirection(r),
         \A s \in Redirs \ {r} :
             /\ (\E d \in Devices : entries'[d] = s) <=> (\E d \in Devices : entries[d] = s)
             /\ HeldByCtl(s)' <=> HeldByCtl(s)
             /\ (\E p \in Pdos : closer'[p].redir = s) <=> (\E p \in Pdos : closer[p].redir = s),
         redir[r].refs - 1 = One(\E d \in Devices : entries'[d] = r) + One(HeldByCtl(r)')
                             + One(\E p \in Pdos : closer'[p].redir = r),
         \A d, e \in Devices : entries'[d] = entries'[e] /\ entries'[d] # NoRedir => d = e,
         \A p, q \in Pdos : closer'[p].redir = closer'[q].redir /\ closer'[p].redir # NoRedir => p = q,
         ctl'.pc = "ref" => entries'[ctl'.dev] = ctl'.redir
  PROVE  RefCountsExact'
<1>1. \A s \in Redirs : s # r => redir'[s] = redir[s]
  BY ReleaseEffect DEF Types
<1>2. redir[r].refs \in Nat
  BY DEF Types, CUsbDkRedirection
<1>3. redir'[r].refs = redir[r].refs - 1
  <2>1. CASE redir[r].refs = 1
    BY <2>1, ReleaseEffect, Nulls DEF Types
  <2>2. CASE redir[r].refs > 1
    BY <2>2, ReleaseEffect DEF Types, CUsbDkRedirection
  <2> QED BY <1>2, <2>1, <2>2
<1>4. \A s \in Redirs : redir'[s].refs = One(\E d \in Devices : entries'[d] = s)
                          + One(HeldByCtl(s)') + One(\E p \in Pdos : closer'[p].redir = s)
  <2> TAKE s \in Redirs
  <2>1. CASE s = r
    BY <2>1, <1>3
  <2>2. CASE s # r
    BY <2>2, <1>1 DEF RefCountsExact, RedirectionRefs
  <2> QED BY <2>1, <2>2
<1>5. RedirectionRefs'
  BY <1>4 DEF RedirectionRefs
<1> QED BY <1>5, ReleaseEffect DEF RefCountsExact

\* What a release cannot disturb: whatever is still referred to.
LEMMA ReleaseKeeps ==
  ASSUME Types, RefCountsExact, NEW r \in Redirs, redir[r].refs > 0, ReleaseRedirection(r)
  PROVE  /\ \A s \in Redirs :
               /\ redir'[s].redirectorDevice \in {redir[s].redirectorDevice, NoPdo}
               /\ redir'[s].created => redir[s].created
               /\ s # r \/ redir[r].refs > 1 =>
                     /\ redir'[s].redirectorDevice = redir[s].redirectorDevice
                     /\ redir'[s].ownerPid = redir[s].ownerPid
                     /\ redir'[s].removalInProgress = redir[s].removalInProgress
                     /\ redir'[s].removed = redir[s].removed
                     /\ redir'[s].created = redir[s].created
         /\ \A p \in Pdos : filter[p] = NoFilter => filter'[p] = NoFilter
         /\ \A s \in Redirs, p \in Pdos :
               redir[s].redirectorDevice = p /\ (s # r \/ redir[r].refs > 1) => filter'[p] = filter[p]
<1>1. redir \in [Redirs -> CUsbDkRedirection] /\ redir[r].refs \in Nat
  BY DEF Types, CUsbDkRedirection
<1>2. /\ \A s \in Redirs : s # r => redir'[s] = redir[s]
      /\ redir[r].refs = 1 => redir'[r] = FreeRedirection
      /\ redir[r].refs > 1 => redir'[r] = [redir[r] EXCEPT !.refs = @ - 1]
  BY <1>1, ReleaseEffect
<1>3. \A p \in Pdos : filter[p] = NoFilter => redir[r].redirectorDevice # p
  BY Nulls DEF RefCountsExact, FilterRefs
<1>4. redir[r].refs = 1 \/ redir[r].refs > 1
  BY <1>1
<1>5. \A s \in Redirs :
         /\ s # r => redir'[s] = redir[s]
         /\ redir[r].refs > 1 =>
               /\ redir'[r].redirectorDevice = redir[r].redirectorDevice
               /\ redir'[r].ownerPid = redir[r].ownerPid
               /\ redir'[r].removalInProgress = redir[r].removalInProgress
               /\ redir'[r].removed = redir[r].removed
               /\ redir'[r].created = redir[r].created
  BY <1>1, <1>2 DEF CUsbDkRedirection
<1>6. \A p \in Pdos : filter[p] = NoFilter => filter'[p] = NoFilter
  BY <1>3, ReleaseEffect
<1>7. \A s \in Redirs, p \in Pdos :
         redir[s].redirectorDevice = p /\ (s # r \/ redir[r].refs > 1) => filter'[p] = filter[p]
  BY ReleaseEffect DEF RefCountsExact, FilterRefs
<1>8. \A s \in Redirs : /\ redir'[s].redirectorDevice \in {redir[s].redirectorDevice, NoPdo}
                        /\ redir'[s].created => redir[s].created
  BY <1>2, <1>4, <1>5, Nulls
<1> QED BY <1>5, <1>6, <1>7, <1>8

\* A step that releases one reference to a redirection keeps what does not
\* mention the holder that let go.
LEMMA ReleaseIInv ==
  ASSUME IInv, NEW r \in Redirs, redir[r].refs > 0, ReleaseRedirection(r),
         UNCHANGED <<bus, child, pnp, handle>>,
         ctl' \in AddRedirectCall, closer' \in [Pdos -> OnCloseCall],
         entries' \in [Devices -> Redirs \cup {NoRedir}],
         \A d \in Devices : entries'[d] # NoRedir => entries'[d] = entries[d],
         \A q \in Pdos : closer'[q].pc \in {"match", "lookup", "wait"} => closer'[q] = closer[q],
         \A q \in Pdos : closer[q].pc \in {"idle", "match"} => closer'[q] = closer[q],
         \A q \in Pdos : handle[q] # NoPid \/ closer'[q].pc \in {"match", "lookup", "wait"}
             => entries'[filter[q].id] = entries[filter[q].id],
         ctl' = ctl \/ ctl.pc \notin {"dup", "own"},
         RefCountsExact', CtlInv', CloserInv'
  PROVE  IInv'
<1> USE DEF IInv
<1>1. /\ redir' \in [Redirs -> CUsbDkRedirection]
      /\ filter' \in [Pdos -> FilterDevice]
  BY ReleaseEffect
<1>2. \A p \in Pdos : filter[p].live =>
          /\ filter'[p].live /\ filter'[p].id = filter[p].id
          /\ filter'[p].strategy = filter[p].strategy
  BY ReleaseEffect
<1>3. \A d \in Devices : entries'[d] # NoRedir =>
          /\ entries[d] = entries'[d] /\ entries[d] \in Redirs
          /\ entries[d] # r \/ redir[r].refs > 1
  <2> SUFFICES ASSUME NEW d \in Devices, entries'[d] = r PROVE redir[r].refs > 1
    BY DEF Types
  <2>1. redir'[r].refs # 0
    BY DEF RefCountsExact, RedirectionRefs
  <2>2. redir[r].refs # 1
    BY <2>1, ReleaseEffect, Nulls DEF Types
  <2> QED BY <2>2 DEF Types, CUsbDkRedirection
<1>4. Types'
  BY <1>1 DEF Types
<1>5. NoLostDetachment'
  <2> SUFFICES ASSUME NEW q \in Pdos, closer'[q].pc \in {"lookup", "wait"}
               PROVE  LET d == filter[q].id
                      IN /\ filter'[q].id = d /\ entries'[d] # NoRedir
                         /\ \/ redir'[entries'[d]].removed
                            \/ child[d] # NoPdo /\ child[d] # bus[d]
                            \/ pnp[d].pc = "notify"
    BY DEF NoLostDetachment
  <2>1. /\ closer[q].pc \in {"lookup", "wait"} /\ entries'[filter[q].id] = entries[filter[q].id]
        /\ filter[q].live /\ filter[q].id \in Devices /\ entries[filter[q].id] # NoRedir
    BY DEF CloserInv
  <2>2. redir'[entries[filter[q].id]].removed = redir[entries[filter[q].id]].removed
    BY <1>3, <2>1, ReleaseKeeps
  <2> QED BY <1>2, <2>1, <2>2 DEF NoLostDetachment
<1>6. RedirInv'
  <2>1. \A s \in Redirs : s # r => redir'[s] = redir[s]
    BY ReleaseEffect DEF Types
  <2>2. CASE redir[r].refs = 1
    <3>1. redir'[r] = FreeRedirection
      BY <2>2, ReleaseEffect DEF Types
    <3> QED BY <2>1, <3>1, Nulls DEF RedirInv
  <2>3. CASE redir[r].refs > 1
    <3>1. redir[r].refs - 1 # 0 /\ redir \in [Redirs -> CUsbDkRedirection]
      BY <2>3 DEF Types, CUsbDkRedirection
    <3>2. redir'[r].refs # 0
      BY <3>1, <2>3, ReleaseEffect DEF CUsbDkRedirection
    <3> QED BY <2>1, <2>3, <3>2, ReleaseKeeps DEF RedirInv
  <2> QED BY <2>2, <2>3 DEF Types, CUsbDkRedirection
<1>7. PlaceInv'
  <2> SUFFICES ASSUME NEW d \in Devices, entries'[d] # NoRedir,
                      redir'[entries'[d]].redirectorDevice # NoPdo
               PROVE  filter'[redir'[entries'[d]].redirectorDevice].id = d
    BY DEF PlaceInv
  <2>1. redir'[entries'[d]].redirectorDevice = redir[entries[d]].redirectorDevice
    BY <1>3, ReleaseKeeps
  <2>2. filter'[redir[entries[d]].redirectorDevice] = filter[redir[entries[d]].redirectorDevice]
    BY <1>1, <1>3, <2>1, ReleaseKeeps DEF CUsbDkRedirection
  <2> QED BY <1>3, <2>1, <2>2 DEF PlaceInv
<1>8. HandleInv'
  <2>1. ASSUME NEW q \in Pdos, handle[q] # NoPid \/ closer'[q].pc = "match"
        PROVE  LET d == filter[q].id
               IN /\ handle[q] # NoPid \/ CloserAt(q, "match")
                  /\ handle[q] # NoPid => closer'[q].pc = "idle"
                  /\ closer'[q].pc = "match" <=> closer[q].pc = "match"
                  /\ filter'[q].live /\ filter'[q].id = d /\ d \in Devices
                  /\ entries'[d] = entries[d] /\ entries[d] # NoRedir
                  /\ redir'[entries[d]].redirectorDevice = redir[entries[d]].redirectorDevice
                  /\ redir'[entries[d]].ownerPid = redir[entries[d]].ownerPid
                  /\ redir'[entries[d]].removalInProgress = redir[entries[d]].removalInProgress
    <3>1. /\ handle[q] # NoPid \/ CloserAt(q, "match")
          /\ closer'[q].pc = "match" <=> closer[q].pc = "match"
          /\ entries'[filter[q].id] = entries[filter[q].id]
      BY <2>1
    <3>2. /\ handle[q] # NoPid => closer[q].pc = "idle" /\ closer'[q] = closer[q]
          /\ filter[q].live /\ filter[q].id \in Devices /\ entries[filter[q].id] # NoRedir
      BY <3>1 DEF HandleInv
    <3> QED BY <1>2, <1>3, <3>1, <3>2, ReleaseKeeps
  <2> QED BY <2>1 DEF HandleInv
<1>9. (PdosInv /\ PnpInv)'
  BY DEF PdosInv, Uses, PnpInv
<1>10. FreshInv'
  <2>1. \A p \in Pdos : filter[p] = NoFilter => filter'[p] = NoFilter
    BY ReleaseKeeps
  <2>2. \A s \in Redirs : redir'[s].redirectorDevice \in {redir[s].redirectorDevice, NoPdo}
    BY ReleaseKeeps
  <2>3. \A d \in Devices : entries'[d] # NoRedir =>
           /\ redir'[entries'[d]].redirectorDevice = redir[entries[d]].redirectorDevice
           /\ redir'[entries'[d]].removalInProgress = redir[entries[d]].removalInProgress
    BY <1>3, ReleaseKeeps
  <2> SUFFICES ASSUME NEW d \in Devices
               PROVE  LET p == pnp[d].pdo
                      IN /\ bus[d] \notin {NoPdo, child[d], p} => filter'[bus[d]] = NoFilter
                         /\ p # NoPdo /\ pnp[d].pc # "start" => filter'[p] = NoFilter
                         /\ pnp[d].pc = "start" =>
                               /\ filter'[p].live /\ filter'[p].id = d
                               /\ \A s \in Redirs : redir'[s].redirectorDevice # p
                               /\ filter'[p].strategy = "redirector" /\ entries'[d] # NoRedir =>
                                     /\ redir'[entries'[d]].redirectorDevice = NoPdo
                                     /\ ~redir'[entries'[d]].removalInProgress
    BY DEF FreshInv
  <2>4. bus[d] \in Pdos \cup {NoPdo} /\ pnp[d].pdo \in Pdos \cup {NoPdo}
        /\ (pnp[d].pc = "start" => pnp[d].pdo # NoPdo)
    BY DEF Types, PnpWork, PnpInv
  <2>5. pnp[d].pc = "start" =>
           /\ filter'[pnp[d].pdo].live /\ filter'[pnp[d].pdo].id = d
           /\ filter'[pnp[d].pdo].strategy = filter[pnp[d].pdo].strategy
           /\ \A s \in Redirs : redir'[s].redirectorDevice # pnp[d].pdo
    BY <1>2, <2>2, <2>4 DEF FreshInv
  <2> QED BY <1>3, <2>1, <2>3, <2>4, <2>5 DEF FreshInv
<1> QED BY <1>4, <1>5, <1>6, <1>7, <1>8, <1>9, <1>10

\* The set gives up its reference to the entry of d.
LEMMA DeleteEntryEffect ==
  ASSUME Types, RefCountsExact, NEW d \in Devices, entries[d] # NoRedir, DeleteEntry(d),
         \A r \in Redirs : HeldByCtl(r)' = HeldByCtl(r),
         \A p \in Pdos : closer'[p].redir = closer[p].redir,
         ctl'.pc = "ref" => ctl'.dev \in Devices /\ ctl'.dev # d /\ entries[ctl'.dev] = ctl'.redir
  PROVE  /\ entries[d] \in Redirs /\ redir[entries[d]].refs > 0
         /\ ReleaseRedirection(entries[d])
         /\ entries' = [entries EXCEPT ![d] = NoRedir]
         /\ RefCountsExact'
<1>0. PICK r \in Redirs : r = entries[d]
  BY DEF Types
<1>1. /\ entries[d] = r /\ r \in Redirs /\ ReleaseRedirection(r) /\ entries' = [entries EXCEPT ![d] = NoRedir]
      /\ entries \in [Devices -> Redirs \cup {NoRedir}]
  BY <1>0 DEF DeleteEntry, Types
<1>2. redir[r].refs = 1 + One(HeldByCtl(r)) + One(\E p \in Pdos : closer[p].redir = r)
  <2>1. \E e \in Devices : entries[e] = r
    BY <1>1
  <2> QED BY <1>1, <2>1 DEF RefCountsExact, RedirectionRefs
<1>3. redir[r].refs > 0
  BY <1>2
<1>4. \A e \in Devices : entries'[e] = IF e = d THEN NoRedir ELSE entries[e]
  BY <1>1
<1>5. ~\E e \in Devices : entries'[e] = r
  BY <1>1, <1>4 DEF RefCountsExact, RedirectionRefs
<1>6. \A s \in Redirs \ {r} : (\E e \in Devices : entries'[e] = s) <=> (\E e \in Devices : entries[e] = s)
  BY <1>1, <1>4
<1>7. \A e, f \in Devices : entries'[e] = entries'[f] /\ entries'[e] # NoRedir => e = f
  BY <1>4 DEF RefCountsExact, RedirectionRefs
<1>8. \A p, q \in Pdos : closer'[p].redir = closer'[q].redir /\ closer'[p].redir # NoRedir => p = q
  BY DEF RefCountsExact, RedirectionRefs
<1>9. redir[r].refs - 1 = One(\E e \in Devices : entries'[e] = r) + One(HeldByCtl(r)')
                          + One(\E p \in Pdos : closer'[p].redir = r)
  <2>1. (\E p \in Pdos : closer'[p].redir = r) <=> (\E p \in Pdos : closer[p].redir = r)
    OBVIOUS
  <2>2. HeldByCtl(r)' <=> HeldByCtl(r)
    BY <1>1
  <2> QED BY <1>2, <1>5, <2>1, <2>2
<1>10. \A s \in Redirs \ {r} :
          /\ (\E e \in Devices : entries'[e] = s) <=> (\E e \in Devices : entries[e] = s)
          /\ HeldByCtl(s)' <=> HeldByCtl(s)
          /\ (\E p \in Pdos : closer'[p].redir = s) <=> (\E p \in Pdos : closer[p].redir = s)
  BY <1>6
<1>11. RefCountsExact'
  BY <1>1, <1>3, <1>4, <1>7, <1>8, <1>9, <1>10, ReleaseRefs
<1> QED BY <1>1, <1>3, <1>11

\* The rollback takes the entry out of the set while the caller still holds it.
LEMMA AddRedirectRollBackIInv ==
  ASSUME IInv, AddRedirectRollBack
  PROVE  IInv'
<1> USE DEF IInv
<1> DEFINE r == ctl.redir
<1>1. /\ ctl \in AddRedirectCall /\ ctl.pc = "rollback" /\ r \in Redirs /\ ctl.dev \in Devices
      /\ entries[ctl.dev] = r /\ ~IsPreparedForRemove(r) /\ redir[r].ownerPid = NoPid
  BY DEF Types, CtlInv, AddRedirectRollBack
<1>2. /\ ctl' \in AddRedirectCall /\ ctl'.pc \in {"rbfind", "release"}
      /\ ctl'.dev = ctl.dev /\ ctl'.pid = ctl.pid /\ ctl'.redir = r
  BY <1>1 DEF AddRedirectRollBack, AddRedirectCall, CtlPc
<1>3. UNCHANGED <<bus, child, pnp, handle, closer>> /\ DeleteEntry(ctl.dev)
  BY DEF AddRedirectRollBack, CtlFrame
<1>4. \A s \in Redirs : HeldByCtl(s)' = HeldByCtl(s)
  BY <1>1, <1>2 DEF HeldByCtl
<1>5. /\ redir[r].refs > 0 /\ ReleaseRedirection(r)
      /\ entries' = [entries EXCEPT ![ctl.dev] = NoRedir] /\ RefCountsExact'
  BY <1>1, <1>2, <1>3, <1>4, DeleteEntryEffect, RedirectionAssumption
<1>6. /\ entries' \in [Devices -> Redirs \cup {NoRedir}]
      /\ \A d \in Devices : entries'[d] = IF d = ctl.dev THEN NoRedir ELSE entries[d]
  BY <1>5 DEF Types
<1>7. CtlInv'
  BY <1>1, <1>2 DEF CtlInv
<1>8. \A q \in Pdos : handle[q] # NoPid \/ closer[q].pc \in {"match"} \cup Removing =>
          /\ filter[q].live /\ filter[q].id \in Devices /\ filter[q].id # ctl.dev
  <2>1. \A q \in Pdos : handle[q] # NoPid \/ CloserAt(q, "match") =>
          /\ filter[q].live /\ filter[q].id \in Devices /\ filter[q].id # ctl.dev
    BY <1>1 DEF HandleInv
  <2>2. \A q \in Pdos : closer[q].pc \in Removing =>
          /\ filter[q].live /\ filter[q].id \in Devices /\ filter[q].id # ctl.dev
    BY <1>1 DEF CloserInv
  <2> QED BY <2>1, <2>2
<1>9. CloserInv'
  <2>1. \A q \in Pdos : closer[q].pc \in Removing =>
          /\ filter'[q].live /\ filter'[q].id = filter[q].id
          /\ entries'[filter[q].id] = entries[filter[q].id]
          /\ redir'[entries[filter[q].id]].removalInProgress
    <3> SUFFICES ASSUME NEW q \in Pdos, closer[q].pc \in Removing
                 PROVE  /\ filter'[q].live /\ filter'[q].id = filter[q].id
                        /\ entries'[filter[q].id] = entries[filter[q].id]
                        /\ redir'[entries[filter[q].id]].removalInProgress
      OBVIOUS
    <3>1. /\ filter[q].live /\ filter[q].id \in Devices /\ filter[q].id # ctl.dev
          /\ IsPreparedForRemove(entries[filter[q].id])
          /\ entries[filter[q].id] \in Redirs
      BY <1>8 DEF CloserInv, Types
    <3>2. entries[filter[q].id] # r
      BY <1>1, <3>1
    <3> QED BY <1>1, <1>5, <1>6, <3>1, <3>2, ReleaseEffect
  <2> QED BY <1>3, <2>1 DEF CloserInv
<1> QED BY <1>1, <1>2, <1>3, <1>5, <1>6, <1>7, <1>8, <1>9, RedirectionAssumption, ReleaseIInv DEF Types

\* The dereferencer of AddRedirect gives the last reference of the call up.
LEMMA ReturnFromAddRedirectIInv ==
  ASSUME IInv, ReturnFromAddRedirect
  PROVE  IInv'
<1> USE DEF IInv
<1> DEFINE r == ctl.redir
<1>1. ctl.pc = "release" /\ r \in Redirs /\ HeldByCtl(r)
  BY DEF CtlInv, ReturnFromAddRedirect, HeldByCtl
<1>2. /\ ctl' = IdleCtl /\ ReleaseRedirection(r)
      /\ UNCHANGED <<bus, child, pnp, handle, entries, closer>>
  BY DEF ReturnFromAddRedirect, CtlFrame
<1>3. redir[r].refs = 1 + One(\E d \in Devices : entries[d] = r)
                      + One(\E p \in Pdos : closer[p].redir = r)
  BY <1>1 DEF RefCountsExact, RedirectionRefs
<1>4. \A s \in Redirs : ~HeldByCtl(s)' /\ (HeldByCtl(s) <=> s = r)
  BY <1>1, <1>2, Nulls DEF HeldByCtl
<1>5. RefCountsExact'
  BY <1>1, <1>2, <1>3, <1>4, Nulls, ReleaseRefs DEF RefCountsExact, RedirectionRefs
<1>6. CtlInv'
  BY <1>2, Nulls DEF CtlInv
<1>7. CloserInv'
  <2>1. \A q \in Pdos : closer[q].pc \in Removing =>
          /\ filter'[q].live /\ filter'[q].id = filter[q].id
          /\ redir'[entries[filter[q].id]].removalInProgress
    <3> SUFFICES ASSUME NEW q \in Pdos, closer[q].pc \in Removing
                 PROVE  /\ filter'[q].live /\ filter'[q].id = filter[q].id
                        /\ redir'[entries[filter[q].id]].removalInProgress
      OBVIOUS
    <3>1. /\ filter[q].live /\ filter[q].id \in Devices
          /\ IsPreparedForRemove(entries[filter[q].id])
          /\ entries[filter[q].id] \in Redirs
      BY DEF CloserInv, Types
    <3>2. entries[filter[q].id] # r \/ redir[r].refs > 1
      BY <1>3, <3>1
    <3> QED BY <1>1, <1>2, <1>3, <3>1, <3>2, ReleaseEffect, ReleaseKeeps
  <2> QED BY <1>2, <2>1 DEF CloserInv
<1>8. redir[r].refs > 0
  BY <1>3
<1> QED BY <1>1, <1>2, <1>5, <1>6, <1>7, <1>8, Nulls, ReleaseIInv DEF Types

\* Steps of a close that only move the call on.
LEMMA CloserMoveIInv ==
  ASSUME IInv, NEW p \in Pdos, closer[p].pc \in Removing,
         closer' \in [Pdos -> OnCloseCall],
         closer'[p].pc \in Removing \cup {"idle"}, closer'[p].redir = closer[p].redir,
         \A q \in Pdos : q # p => closer'[q] = closer[q],
         UNCHANGED <<child, pnp, ctl, filter, handle, entries, redir>>,
         bus' \in [Devices -> Pdos \cup {NoPdo}],
         \A d \in Devices : bus'[d] \in {bus[d], NoPdo},
         NoLostDetachment', CloserInv'
  PROVE  IInv'
<1> USE DEF IInv
<1>1. Types'
  BY DEF Types
<1>2. RefCountsExact'
  <2>1. \A q \in Pdos : closer'[q].redir = closer[q].redir
    OBVIOUS
  <2> QED BY <2>1, RefsFrame DEF HeldByCtl, RefCountsExact
<1>3. (CtlInv /\ RedirInv /\ PlaceInv)'
  BY DEF CtlInv, RedirInv, PlaceInv
<1>4. HandleInv'
  <2>1. handle[p] = NoPid
    BY DEF HandleInv
  <2> QED BY <2>1 DEF HandleInv
<1>5. (PdosInv /\ PnpInv)'
  BY DEF PdosInv, Uses, PnpInv
<1>6. FreshInv'
  BY DEF FreshInv
<1> QED BY <1>1, <1>2, <1>3, <1>4, <1>5, <1>6

\* A handle is closed: OnClose starts on the redirector of its device.
LEMMA CloseHandleIInv ==
  ASSUME IInv, NEW p \in Pdos, CloseHandle(p)
  PROVE  IInv'
<1> USE DEF IInv
<1>1. /\ handle[p] \in Pids /\ handle[p] # NoPid /\ closer \in [Pdos -> OnCloseCall]
      /\ handle \in [Pdos -> Pids \cup {NoPid}]
      /\ UNCHANGED <<bus, child, pnp, ctl, filter, entries, redir>>
  BY DEF Types, CloseHandle, CloserFrame
<1>2. /\ closer[p].pc = "idle" /\ filter[p].live /\ filter[p].id \in Devices
      /\ entries[filter[p].id] \in Redirs
      /\ redir[entries[filter[p].id]].redirectorDevice = p
      /\ ~IsPreparedForRemove(entries[filter[p].id])
      /\ redir[entries[filter[p].id]].ownerPid # NoPid
  BY <1>1 DEF HandleInv, Types, CloseHandle
<1>3. /\ closer' \in [Pdos -> OnCloseCall]
      /\ closer'[p].pc = "match" /\ closer'[p].pid \in Pids
      /\ closer'[p].redir = closer[p].redir
      /\ \A q \in Pdos : q # p => closer'[q] = closer[q]
  <2>1. PICK pid \in Pids : closer' = [closer EXCEPT ![p].pc = "match", ![p].pid = pid]
    BY <1>1 DEF CloseHandle
  <2> DEFINE x == [closer[p] EXCEPT !.pc = "match", !.pid = pid]
  <2>2. closer' = [closer EXCEPT ![p] = x]
    BY <2>1, <1>1
  <2>3. x \in OnCloseCall /\ x.pc = "match" /\ x.pid = pid /\ x.redir = closer[p].redir
    BY <1>1 DEF OnCloseCall, CloserPc
  <2> HIDE DEF x
  <2> QED BY <1>1, <2>2, <2>3
<1>4. /\ handle' \in [Pdos -> Pids \cup {NoPid}] /\ handle'[p] = NoPid
      /\ \A q \in Pdos : q # p => handle'[q] = handle[q]
  BY <1>1 DEF CloseHandle
<1>5. Types'
  BY <1>1, <1>3, <1>4 DEF Types
<1>6. RefCountsExact'
  <2>1. \A q \in Pdos : closer'[q].redir = closer[q].redir
    BY <1>3
  <2> QED BY <1>1, <2>1, RefsFrame DEF HeldByCtl, RefCountsExact
<1>7. NoLostDetachment'
  BY <1>1, <1>3 DEF NoLostDetachment
<1>8. (CtlInv /\ RedirInv /\ PlaceInv /\ PdosInv /\ PnpInv /\ FreshInv)'
  BY <1>1 DEF CtlInv, RedirInv, PlaceInv, PdosInv, Uses, PnpInv, FreshInv
<1>9. HandleInv'
  <2>1. handle'[p] = NoPid
    BY <1>4
  <2>2. \A q \in Pdos \ {p} : handle'[q] = handle[q] /\ closer'[q] = closer[q]
    BY <1>3, <1>4
  <2>3. ASSUME NEW q \in Pdos, handle'[q] # NoPid \/ closer'[q].pc = "match"
        PROVE  /\ handle'[q] # NoPid => closer'[q].pc = "idle"
               /\ filter[q].live /\ filter[q].id \in Devices
               /\ entries[filter[q].id] # NoRedir
               /\ redir[entries[filter[q].id]].redirectorDevice = q
               /\ ~IsPreparedForRemove(entries[filter[q].id])
               /\ redir[entries[filter[q].id]].ownerPid = NoPid =>
                     /\ ctl.redir = entries[filter[q].id]
                     /\ ctl.pc = IF closer'[q].pc = "match" THEN "dup" ELSE "own"
                     /\ closer'[q].pc = "match" => ctl.pdo = q
    <3>1. CASE q = p
      BY <1>2, <1>3, <2>1, <3>1, RedirectionAssumption DEF Types
    <3>2. CASE q # p
      BY <2>2, <2>3, <3>2 DEF HandleInv, CloserAt
    <3> QED BY <3>1, <3>2
  <2> QED BY <1>1, <2>3 DEF HandleInv, CloserAt, IsPreparedForRemove
<1>10. CloserInv'
  BY <1>1, <1>2, <1>3 DEF CloserInv
<1> QED BY <1>5, <1>6, <1>7, <1>8, <1>9, <1>10

\* A close that matches the owner makes the entry its own to remove.
LEMMA NotifyRedirectionRemovalStartedIInv ==
  ASSUME IInv, NEW p \in Pdos, NotifyRedirectionRemovalStarted(p)
  PROVE  IInv'
<1> USE DEF IInv
<1>a. CloserAt(p, "match") /\ CloserFrame /\ UNCHANGED <<bus, handle, entries>>
  BY DEF NotifyRedirectionRemovalStarted
<1>b. /\ handle[p] = NoPid /\ filter[p].live /\ filter[p].id \in Devices
      /\ entries[filter[p].id] # NoRedir
      /\ redir[entries[filter[p].id]].redirectorDevice = p
      /\ ~IsPreparedForRemove(entries[filter[p].id])
  BY <1>a DEF HandleInv, CloserAt
<1>1. PICK r \in Redirs : r = entries[filter[p].id]
  BY <1>b DEF Types
<1>2. /\ CloserAt(p, "match") /\ closer[p].pid \in Pids /\ handle[p] = NoPid
      /\ filter[p].live /\ filter[p].id \in Devices
      /\ r \in Redirs /\ redir[r].redirectorDevice = p /\ ~IsPreparedForRemove(r)
      /\ closer \in [Pdos -> OnCloseCall] /\ closer[p].redir = NoRedir
      /\ redir \in [Redirs -> CUsbDkRedirection] /\ filter \in [Pdos -> FilterDevice]
      /\ UNCHANGED <<bus, child, pnp, ctl, handle, entries>>
  <2>1. closer[p].pid \in Pids /\ closer[p].redir = NoRedir
    BY <1>a DEF CloserInv, CloserAt
  <2> QED BY <1>a, <1>b, <1>1, <2>1 DEF Types, CloserFrame
<1>3. CASE closer' = [closer EXCEPT ![p] = IdleCloser] /\ UNCHANGED <<redir, filter>>
  <2>1. /\ closer' \in [Pdos -> OnCloseCall] /\ closer'[p].pc = "idle" /\ closer'[p].redir = NoRedir
        /\ \A q \in Pdos : q # p => closer'[q] = closer[q]
    BY <1>2, <1>3, Nulls
  <2>2. Types'
    BY <1>2, <1>3, <2>1 DEF Types
  <2>3. RefCountsExact'
    <3>1. \A q \in Pdos : closer'[q].redir = closer[q].redir
      BY <1>2, <2>1
    <3> QED BY <1>2, <1>3, <3>1, RefsFrame DEF HeldByCtl, RefCountsExact
  <2>4. NoLostDetachment'
    BY <1>2, <1>3, <2>1 DEF NoLostDetachment
  <2>5. (CtlInv /\ RedirInv /\ PlaceInv /\ PdosInv /\ PnpInv /\ FreshInv)'
    BY <1>2, <1>3 DEF CtlInv, RedirInv, PlaceInv, PdosInv, Uses, PnpInv, FreshInv
  <2>6. HandleInv'
    BY <1>2, <1>3, <2>1 DEF HandleInv
  <2>7. CloserInv'
    BY <1>2, <1>3, <2>1 DEF CloserInv
  <2> QED BY <2>2, <2>3, <2>4, <2>5, <2>6, <2>7
<1>4. CASE /\ MatchProcess(r, closer[p].pid)
           /\ redir' = [redir EXCEPT ![r].removalInProgress = TRUE,
                                     ![r].redirectorDevice = NoPdo,
                                     ![r].created = FALSE]
           /\ filter' = AfterFilterRelease(redir[r].redirectorDevice)
           /\ closer' = [closer EXCEPT ![p].pc = "find"]
  <2>1. /\ closer' \in [Pdos -> OnCloseCall] /\ closer'[p].pc = "find" /\ closer'[p].redir = NoRedir
        /\ \A q \in Pdos : q # p => closer'[q] = closer[q]
    BY <1>2, <1>4 DEF OnCloseCall, CloserPc
  <2>2. /\ redir' \in [Redirs -> CUsbDkRedirection]
        /\ redir'[r].removalInProgress /\ redir'[r].redirectorDevice = NoPdo /\ ~redir'[r].created
        /\ redir'[r].refs = redir[r].refs /\ redir'[r].ownerPid = redir[r].ownerPid
        /\ \A s \in Redirs : s # r => redir'[s] = redir[s]
    <3> DEFINE x == [redir[r] EXCEPT !.removalInProgress = TRUE, !.redirectorDevice = NoPdo,
                                     !.created = FALSE]
    <3>1. redir' = [redir EXCEPT ![r] = x]
      BY <1>2, <1>4
    <3>2. /\ x \in CUsbDkRedirection /\ x.removalInProgress /\ x.redirectorDevice = NoPdo
          /\ ~x.created /\ x.refs = redir[r].refs /\ x.ownerPid = redir[r].ownerPid
      <4>1. redir[r] \in CUsbDkRedirection
        BY <1>2
      <4> QED BY <4>1 DEF CUsbDkRedirection
    <3> HIDE DEF x
    <3> QED BY <1>2, <3>1, <3>2
  <2>3. /\ filter' \in [Pdos -> FilterDevice]
        /\ filter[p].refs = 2 /\ filter'[p].refs = 1
        /\ \A q \in Pdos :
              /\ q # p => filter'[q] = filter[q]
              /\ filter'[q].live = filter[q].live /\ filter'[q].id = filter[q].id
              /\ filter'[q].strategy = filter[q].strategy
    <3>1. filter[p].refs = 2
      BY <1>2 DEF RefCountsExact, FilterRefs
    <3> DEFINE x == [filter[p] EXCEPT !.refs = 1]
    <3>2. filter' = [filter EXCEPT ![p] = x]
      <4>1. filter' = [filter EXCEPT ![p].refs = @ - 1]
        BY <1>2, <1>4, <3>1 DEF AfterFilterRelease
      <4>2. filter[p].refs - 1 = 1
        BY <3>1
      <4> QED BY <1>2, <4>1, <4>2
    <3>3. /\ x \in FilterDevice /\ x.refs = 1 /\ x.live = filter[p].live
          /\ x.id = filter[p].id /\ x.strategy = filter[p].strategy
      <4>1. filter[p] \in FilterDevice
        BY <1>2
      <4> QED BY <4>1 DEF FilterDevice
    <3> HIDE DEF x
    <3> QED BY <1>2, <3>1, <3>2, <3>3
  <2>4. \A d \in Devices : entries[d] = r => d = filter[p].id
    BY <1>1, <1>2 DEF RefCountsExact, RedirectionRefs
  <2>5. redir[r].ownerPid \in Pids
    BY <1>2, <1>4 DEF MatchProcess
  <2>6. Types'
    BY <1>2, <2>1, <2>2, <2>3 DEF Types
  <2>7. RefCountsExact'
    <3>1. \A s \in Redirs : redir'[s].refs = redir[s].refs
      BY <2>2
    <3>2. \A q \in Pdos : closer'[q].redir = closer[q].redir
      BY <1>2, <2>1
    <3>3. RedirectionRefs'
      BY <1>2, <3>1, <3>2 DEF RefCountsExact, RedirectionRefs, HeldByCtl
    <3>4. \A s \in Redirs : redir'[s].redirectorDevice = IF s = r THEN NoPdo ELSE redir[s].redirectorDevice
      BY <2>2
    <3>5. FilterRefs'
      BY <1>2, <2>3, <3>4 DEF RefCountsExact, FilterRefs
    <3> QED BY <1>2, <3>3, <3>5 DEF RefCountsExact
  <2>8. NoLostDetachment'
    <3>1. \A q \in Pdos : closer[q].pc \in Removing => entries[filter[q].id] \in Redirs \ {r}
      BY <1>2 DEF CloserInv, Types
    <3> QED BY <1>2, <2>1, <2>2, <2>3, <3>1 DEF NoLostDetachment
  <2>9. CtlInv'
    <3>1. ctl.pc \in Acquiring => ctl.redir # r
      BY <2>5 DEF CtlInv
    <3> QED BY <1>2, <2>2, <3>1 DEF CtlInv
  <2>10. RedirInv'
    <3>1. redir[r].refs # 0
      BY <1>2, Nulls DEF RedirInv
    <3> QED BY <2>2, <3>1 DEF RedirInv
  <2>11. PlaceInv'
    <3> SUFFICES ASSUME NEW d \in Devices, entries[d] # NoRedir, redir'[entries[d]].redirectorDevice # NoPdo
                 PROVE  filter'[redir'[entries[d]].redirectorDevice].id = d
      BY <1>2 DEF PlaceInv
    <3>1. entries[d] \in Redirs \ {r}
      BY <2>2 DEF Types
    <3>2. redir'[entries[d]] = redir[entries[d]] /\ redir[entries[d]].redirectorDevice \in Pdos
      BY <1>2, <2>2, <3>1 DEF CUsbDkRedirection
    <3> QED BY <2>3, <3>2 DEF PlaceInv
  <2>12. HandleInv'
    <3>1. ASSUME NEW q \in Pdos, handle[q] # NoPid \/ closer'[q].pc = "match"
          PROVE  /\ q # p /\ closer'[q] = closer[q]
                 /\ entries[filter[q].id] \in Redirs \ {r}
      <4>1. q # p /\ closer'[q] = closer[q]
        BY <1>2, <2>1, <3>1
      <4>2. entries[filter[q].id] \in Redirs /\ redir[entries[filter[q].id]].redirectorDevice = q
        BY <3>1, <4>1 DEF HandleInv, Types
      <4> QED BY <1>2, <4>1, <4>2
    <3> QED BY <1>2, <2>1, <2>2, <2>3, <3>1 DEF HandleInv
  <2>13. CloserInv'
    <3>1. \A q \in Pdos : closer[q].pc \in Removing =>
            /\ q # p /\ filter[q].id # filter[p].id /\ entries[filter[q].id] \in Redirs \ {r}
      BY <1>1, <1>2 DEF CloserInv, Types
    <3> QED BY <1>1, <1>2, <2>1, <2>2, <2>3, <3>1, SMTT(30) DEF CloserInv
  <2>14. (PdosInv /\ PnpInv)'
    BY <1>2 DEF PdosInv, Uses, PnpInv
  <2>15. FreshInv'
    <3>1. \A d \in Devices : pnp[d].pc = "start" => pnp[d].pdo # p
      BY <1>2 DEF FreshInv
    <3>2. \A q \in Pdos : filter[q] = NoFilter => filter'[q] = NoFilter
      BY <1>2, <2>3, Nulls
    <3>3. \A d \in Devices : pnp[d].pc = "start" =>
             /\ pnp[d].pdo \in Pdos
             /\ \A s \in Redirs : redir'[s].redirectorDevice # pnp[d].pdo
      BY <2>2 DEF FreshInv, PnpInv, Types, PnpWork
    <3>4. \A d \in Devices : pnp[d].pc = "start" /\ filter[pnp[d].pdo].strategy = "redirector"
                               /\ entries[d] # NoRedir => entries[d] \in Redirs \ {r}
      <4> SUFFICES ASSUME NEW d \in Devices, pnp[d].pc = "start", entries[d] = r,
                          filter[pnp[d].pdo].strategy = "redirector"
                   PROVE  FALSE
        BY DEF Types
      <4> QED BY <1>2 DEF FreshInv
    <3>5. \A d \in Devices : /\ bus[d] \in Pdos \cup {NoPdo}
                             /\ pnp[d].pdo \in Pdos \cup {NoPdo}
      BY DEF Types, PnpWork
    <3> QED BY <1>2, <2>2, <2>3, <3>2, <3>3, <3>4, <3>5 DEF FreshInv
  <2> QED BY <2>6, <2>7, <2>8, <2>9, <2>10, <2>11, <2>12, <2>13, <2>14, <2>15
<1> QED BY <1>1, <1>3, <1>4 DEF NotifyRedirectionRemovalStarted

\* The reset of RemoveRedirect looks its device up.
LEMMA CloserFindDeviceIInv ==
  ASSUME IInv, NEW p \in Pdos, CloserFindDevice(p)
  PROVE  IInv'
<1> USE DEF IInv
<1> DEFINE pdo == child[filter[p].id]
<1>1. /\ closer[p].pc = "find" /\ closer \in [Pdos -> OnCloseCall]
      /\ filter[p].live /\ filter[p].id \in Devices /\ pdo \in Pdos \cup {NoPdo}
      /\ bus \in [Devices -> Pdos \cup {NoPdo}]
      /\ UNCHANGED <<child, pnp, ctl, bus, filter, handle, entries, redir>>
  BY DEF CloserFindDevice, CloserFrame, CloserInv, Types
<1>2. /\ closer' \in [Pdos -> OnCloseCall]
      /\ closer'[p].pc \in {"delete", "cycle"} /\ closer'[p].redir = closer[p].redir
      /\ closer'[p].pc = "cycle" => pdo # NoPdo
      /\ closer'[p].pdo = pdo
      /\ \A q \in Pdos : q # p => closer'[q] = closer[q]
  <2> DEFINE x == [closer[p] EXCEPT !.pc = IF pdo = NoPdo THEN "delete" ELSE "cycle", !.pdo = pdo]
  <2>1. closer' = [closer EXCEPT ![p] = x]
    BY <1>1 DEF CloserFindDevice
  <2>2. /\ x \in OnCloseCall /\ x.pc \in {"delete", "cycle"} /\ x.redir = closer[p].redir
        /\ x.pc = "cycle" => pdo # NoPdo
        /\ x.pdo = pdo
    <3>1. closer[p] \in OnCloseCall
      BY <1>1
    <3> HIDE DEF pdo
    <3> QED BY <1>1, <3>1 DEF OnCloseCall, CloserPc
  <2> HIDE DEF x
  <2> QED BY <1>1, <2>1, <2>2
<1>3. NoLostDetachment'
  BY <1>1, <1>2 DEF NoLostDetachment
<1>4. CloserInv'
  BY <1>1, <1>2 DEF CloserInv
<1> QED BY <1>1, <1>2, <1>3, <1>4, CloserMoveIInv

\* The port is cycled: the detachment is now on its way to the child list.
LEMMA CloserCyclePortIInv ==
  ASSUME IInv, NEW p \in Pdos, CloserCyclePort(p)
  PROVE  IInv'
<1> USE DEF IInv
<1> DEFINE d == filter[p].id
<1>1. /\ closer[p].pc = "cycle" /\ closer \in [Pdos -> OnCloseCall] /\ closer[p].redir = NoRedir
      /\ filter[p].live /\ d \in Devices /\ entries[d] # NoRedir
      /\ bus \in [Devices -> Pdos \cup {NoPdo}]
      /\ UNCHANGED <<child, pnp, ctl, filter, handle, entries, redir>>
  BY DEF CloserCyclePort, CloserFrame, CloserInv, Types
<1>2. /\ closer' \in [Pdos -> OnCloseCall]
      /\ closer'[p].pc \in {"lookup", "delete", "failed"} /\ closer'[p].redir = NoRedir
      /\ closer'[p].pc = "lookup" => CycleSucceeds(d, closer[p].pdo)
      /\ \A q \in Pdos : q # p => closer'[q] = closer[q]
  <2>1. ASSUME NEW pc \in {"lookup", "delete", "failed"},
               closer' = [closer EXCEPT ![p].pc = pc, ![p].pdo = NoPdo]
        PROVE  /\ closer' \in [Pdos -> OnCloseCall]
               /\ closer'[p].pc = pc /\ closer'[p].redir = NoRedir
               /\ \A q \in Pdos : q # p => closer'[q] = closer[q]
    <3> DEFINE x == [closer[p] EXCEPT !.pc = pc, !.pdo = NoPdo]
    <3>1. closer' = [closer EXCEPT ![p] = x]
      BY <1>1, <2>1
    <3>2. x \in OnCloseCall /\ x.pc = pc /\ x.redir = closer[p].redir
      <4>1. closer[p] \in OnCloseCall
        BY <1>1
      <4> QED BY <4>1 DEF OnCloseCall, CloserPc
    <3> HIDE DEF x
    <3> QED BY <1>1, <3>1, <3>2
  <2>2. CASE CycleSucceeds(d, closer[p].pdo)
             /\ closer' = [closer EXCEPT ![p].pc = "lookup", ![p].pdo = NoPdo]
    BY <2>1, <2>2
  <2>3. CASE \E pc \in {"delete", "failed"} :
                closer' = [closer EXCEPT ![p].pc = pc, ![p].pdo = NoPdo]
    BY <2>1, <2>3
  <2> QED BY <2>2, <2>3 DEF CloserCyclePort
<1>3. /\ bus' \in [Devices -> Pdos \cup {NoPdo}]
      /\ \A e \in Devices : bus'[e] \in {bus[e], NoPdo}
  BY <1>1 DEF CloserCyclePort, CycleSucceeds, CycleFails
<1>4. closer'[p].pc = "lookup" => child[d] # NoPdo /\ child[d] # bus'[d]
  BY <1>1, <1>2 DEF CloserInv, CycleSucceeds
<1>5. NoLostDetachment'
  <2>1. \A q \in Pdos : closer'[q].pc \in {"lookup", "wait"} /\ q # p => filter[q].id \in Devices
    BY <1>2 DEF CloserInv
  <2> QED BY <1>1, <1>2, <1>3, <1>4, <2>1 DEF NoLostDetachment
<1>6. CloserInv'
  BY <1>1, <1>2, <1>3 DEF CloserInv
<1> QED BY <1>1, <1>2, <1>3, <1>5, <1>6, CloserMoveIInv

\* A close whose reset failed ends and leaves the entry as it is.
LEMMA RemoveRedirectFailsIInv ==
  ASSUME IInv, NEW p \in Pdos, RemoveRedirectFails(p)
  PROVE  IInv'
<1> USE DEF IInv
<1>1. /\ closer[p].pc = "failed" /\ closer \in [Pdos -> OnCloseCall] /\ closer[p].redir = NoRedir
      /\ bus \in [Devices -> Pdos \cup {NoPdo}]
      /\ closer' = [closer EXCEPT ![p] = IdleCloser]
      /\ UNCHANGED <<child, pnp, ctl, bus, filter, handle, entries, redir>>
  BY DEF RemoveRedirectFails, CloserFrame, CloserInv, Types
<1>2. /\ closer' \in [Pdos -> OnCloseCall]
      /\ closer'[p].pc = "idle" /\ closer'[p].redir = NoRedir
      /\ \A q \in Pdos : q # p => closer'[q] = closer[q]
  BY <1>1, Nulls
<1>3. NoLostDetachment'
  BY <1>1, <1>2 DEF NoLostDetachment
<1>4. CloserInv'
  BY <1>1, <1>2 DEF CloserInv
<1> QED BY <1>1, <1>2, <1>3, <1>4, CloserMoveIInv

\* WaitForDetachment takes a reference to the entry that is being removed.
LEMMA LookupRedirectionIInv ==
  ASSUME IInv, NEW p \in Pdos, LookupRedirection(p)
  PROVE  IInv'
<1> USE DEF IInv
<1>1. PICK r \in Redirs : r = entries[filter[p].id]
  BY DEF CloserInv, Types, LookupRedirection
<1>2. /\ closer[p].pc = "lookup" /\ closer \in [Pdos -> OnCloseCall] /\ closer[p].redir = NoRedir
      /\ filter[p].live /\ filter[p].id \in Devices /\ IsPreparedForRemove(r)
      /\ redir \in [Redirs -> CUsbDkRedirection]
      /\ UNCHANGED <<bus, child, pnp, ctl, filter, handle, entries>>
  BY <1>1 DEF LookupRedirection, CloserFrame, CloserInv, Types
<1>3. /\ closer' \in [Pdos -> OnCloseCall]
      /\ closer'[p].pc = "wait" /\ closer'[p].redir = r
      /\ \A q \in Pdos : q # p => closer'[q] = closer[q]
  <2> DEFINE x == [closer[p] EXCEPT !.pc = "wait", !.redir = r]
  <2>1. closer' = [closer EXCEPT ![p] = x]
    BY <1>1, <1>2 DEF LookupRedirection
  <2>2. x \in OnCloseCall /\ x.pc = "wait" /\ x.redir = r
    <3>1. closer[p] \in OnCloseCall
      BY <1>2
    <3> QED BY <3>1 DEF OnCloseCall, CloserPc
  <2> HIDE DEF x
  <2> QED BY <1>2, <2>1, <2>2
<1>4. redir[r].refs \in Nat /\ redir[r].refs + 1 \in Nat
  BY <1>2 DEF CUsbDkRedirection
<1>5. /\ redir' \in [Redirs -> CUsbDkRedirection]
      /\ redir'[r].refs = redir[r].refs + 1
      /\ \A s \in Redirs :
            /\ s # r => redir'[s] = redir[s]
            /\ redir'[s].redirectorDevice = redir[s].redirectorDevice
            /\ redir'[s].ownerPid = redir[s].ownerPid
            /\ redir'[s].removed = redir[s].removed
            /\ redir'[s].removalInProgress = redir[s].removalInProgress
            /\ redir'[s].created = redir[s].created
  <2>1. redir' = [redir EXCEPT ![r].refs = @ + 1]
    BY <1>1 DEF LookupRedirection
  <2> QED BY <1>2, <1>4, <2>1 DEF CUsbDkRedirection
<1>6. \A q \in Pdos : closer[q].redir # r
  <2> SUFFICES ASSUME NEW q \in Pdos, closer[q].redir = r PROVE FALSE
    OBVIOUS
  <2>1. CloserAt(q, "wait") /\ entries[filter[q].id] = r /\ filter[q].id \in Devices
    BY DEF CloserInv
  <2>2. filter[q].id = filter[p].id
    BY <1>1, <1>2, <2>1 DEF RefCountsExact, RedirectionRefs
  <2> QED BY <1>2, <2>1, <2>2 DEF CloserInv
<1>7. Types'
  BY <1>2, <1>3, <1>5 DEF Types
<1>8. RefCountsExact'
  <2>1. \A s \in Redirs : HeldByCtl(s)' <=> HeldByCtl(s)
    BY <1>2 DEF HeldByCtl
  <2>2. \A s \in Redirs : (\E q \in Pdos : closer'[q].redir = s)
                            <=> (s = r \/ \E q \in Pdos : closer[q].redir = s)
    BY <1>2, <1>3
  <2>3. \A s \in Redirs :
          redir'[s].refs = One(\E d \in Devices : entries[d] = s) + One(HeldByCtl(s))
                           + One(s = r \/ \E q \in Pdos : closer[q].redir = s)
    <3> TAKE s \in Redirs
    <3>1. redir[s].refs = One(\E d \in Devices : entries[d] = s) + One(HeldByCtl(s))
                          + One(\E q \in Pdos : closer[q].redir = s)
      BY DEF RefCountsExact, RedirectionRefs
    <3>2. CASE s = r
      BY <1>5, <1>6, <3>1, <3>2
    <3>3. CASE s # r
      BY <1>5, <3>1, <3>3
    <3> QED BY <3>2, <3>3
  <2>4. \A q, t \in Pdos : closer'[q].redir = closer'[t].redir /\ closer'[q].redir # NoRedir => q = t
    BY <1>3, <1>6 DEF RefCountsExact, RedirectionRefs
  <2>5. RedirectionRefs'
    BY <1>2, <2>1, <2>2, <2>3, <2>4 DEF RefCountsExact, RedirectionRefs
  <2>6. FilterRefs'
    BY <1>2, <1>5 DEF RefCountsExact, FilterRefs
  <2> QED BY <1>2, <2>5, <2>6 DEF RefCountsExact
<1>9. NoLostDetachment'
  BY <1>2, <1>3, <1>5 DEF NoLostDetachment, Types, CloserInv
<1>10. CtlInv'
  BY <1>2, <1>5 DEF CtlInv
<1>11. RedirInv'
  BY <1>2, <1>4, <1>5 DEF RedirInv, CUsbDkRedirection
<1>12. PlaceInv'
  BY <1>2, <1>5 DEF PlaceInv, Types
<1>13. HandleInv'
  <2>1. handle[p] = NoPid
    BY <1>2 DEF HandleInv
  <2> QED BY <1>2, <1>3, <1>5, <2>1 DEF HandleInv, Types
<1>14. CloserInv'
  <2>1. \A d \in Devices : entries[d] # NoRedir =>
           redir'[entries[d]].removalInProgress = redir[entries[d]].removalInProgress
    BY <1>5 DEF Types
  <2> QED BY <1>1, <1>2, <1>3, <2>1 DEF CloserInv
<1>15. (PdosInv /\ PnpInv)'
  BY <1>2 DEF PdosInv, Uses, PnpInv
<1>16. FreshInv'
  BY <1>2, <1>5 DEF FreshInv, Types
<1> QED BY <1>7, <1>8, <1>9, <1>10, <1>11, <1>12, <1>13, <1>14, <1>15, <1>16

\* The wait ends, with the event or without, and gives its reference up.
LEMMA WaitForDetachmentIInv ==
  ASSUME IInv, NEW p \in Pdos, WaitForDetachment(p)
  PROVE  IInv'
<1> USE DEF IInv
<1>1. PICK r \in Redirs : r = closer[p].redir
  BY DEF CloserInv, Types, WaitForDetachment
<1>2. /\ closer[p].pc = "wait" /\ closer \in [Pdos -> OnCloseCall]
      /\ filter[p].live /\ filter[p].id \in Devices /\ entries[filter[p].id] = r
      /\ ReleaseRedirection(r)
      /\ UNCHANGED <<bus, child, pnp, ctl, handle, entries>>
  BY <1>1 DEF WaitForDetachment, CloserFrame, CloserInv, Types
<1>3. /\ closer' \in [Pdos -> OnCloseCall]
      /\ closer'[p].pc \in {"delete", "idle"} /\ closer'[p].redir = NoRedir
      /\ \A q \in Pdos : q # p => closer'[q] = closer[q]
  <2>1. CASE closer' = [closer EXCEPT ![p].pc = "delete", ![p].redir = NoRedir]
    <3> DEFINE x == [closer[p] EXCEPT !.pc = "delete", !.redir = NoRedir]
    <3>1. closer' = [closer EXCEPT ![p] = x]
      BY <1>2, <2>1
    <3>2. x \in OnCloseCall /\ x.pc = "delete" /\ x.redir = NoRedir
      BY <1>2 DEF OnCloseCall, CloserPc
    <3> HIDE DEF x
    <3> QED BY <1>2, <3>1, <3>2
  <2>2. CASE closer' = [closer EXCEPT ![p] = IdleCloser]
    BY <1>2, <2>2, Nulls
  <2> QED BY <2>1, <2>2 DEF WaitForDetachment
<1>4. \A q \in Pdos : closer'[q].redir # r
  BY <1>1, <1>3 DEF RefCountsExact, RedirectionRefs
<1>5. redir[r].refs = 2 + One(HeldByCtl(r))
  BY <1>1, <1>2 DEF RefCountsExact, RedirectionRefs
<1>6. redir[r].refs > 0 /\ redir[r].refs > 1
  BY <1>5
<1>7. RefCountsExact'
  <2>1. HeldByCtl(r)' <=> HeldByCtl(r)
    BY <1>2 DEF HeldByCtl
  <2>2. redir[r].refs - 1 = One(\E d \in Devices : entries'[d] = r) + One(HeldByCtl(r)')
                            + One(\E q \in Pdos : closer'[q].redir = r)
    BY <1>2, <1>4, <1>5, <2>1
  <2>3. \A s \in Redirs \ {r} :
           /\ (\E d \in Devices : entries'[d] = s) <=> (\E d \in Devices : entries[d] = s)
           /\ HeldByCtl(s)' <=> HeldByCtl(s)
           /\ (\E q \in Pdos : closer'[q].redir = s) <=> (\E q \in Pdos : closer[q].redir = s)
    BY <1>1, <1>2, <1>3 DEF HeldByCtl
  <2>4. \A d, e \in Devices : entries'[d] = entries'[e] /\ entries'[d] # NoRedir => d = e
    BY <1>2 DEF RefCountsExact, RedirectionRefs
  <2>5. \A q, t \in Pdos : closer'[q].redir = closer'[t].redir /\ closer'[q].redir # NoRedir => q = t
    BY <1>3 DEF RefCountsExact, RedirectionRefs
  <2>6. ctl'.pc = "ref" => entries'[ctl'.dev] = ctl'.redir
    BY <1>2 DEF RefCountsExact
  <2> QED BY <1>2, <1>6, <2>2, <2>3, <2>4, <2>5, <2>6, ReleaseRefs
<1>8. CtlInv'
  BY <1>2, <1>6, ReleaseKeeps DEF CtlInv
<1>9. CloserInv'
  <2>1. \A s \in Redirs : redir'[s].removalInProgress = redir[s].removalInProgress
    BY <1>2, <1>6, ReleaseKeeps
  <2>2. \A q \in Pdos : filter'[q] = filter[q]
    BY <1>2, <1>6, ReleaseEffect
  <2> QED BY <1>2, <1>3, <2>1, <2>2 DEF CloserInv, Types
<1> QED BY <1>2, <1>3, <1>6, <1>7, <1>8, <1>9, ReleaseIInv DEF Types

\* The close deletes the entry no other close is working on.
LEMMA RemoveEntryIInv ==
  ASSUME IInv, NEW p \in Pdos, RemoveEntry(p)
  PROVE  IInv'
<1> USE DEF IInv
<1>1. PICK d \in Devices : d = filter[p].id
  BY DEF CloserInv, RemoveEntry
<1>2. /\ closer[p].pc = "delete" /\ closer \in [Pdos -> OnCloseCall] /\ closer[p].redir = NoRedir
      /\ filter[p].live /\ entries[d] # NoRedir /\ IsPreparedForRemove(entries[d])
      /\ DeleteEntry(d)
      /\ UNCHANGED <<bus, child, pnp, ctl, handle>>
  BY <1>1 DEF RemoveEntry, CloserFrame, CloserInv, Types
<1>3. /\ closer' \in [Pdos -> OnCloseCall]
      /\ closer'[p].pc = "idle" /\ closer'[p].redir = NoRedir
      /\ \A q \in Pdos : q # p => closer'[q] = closer[q]
  BY <1>2, Nulls DEF RemoveEntry
<1>4. /\ entries[d] \in Redirs /\ redir[entries[d]].refs > 0
      /\ ReleaseRedirection(entries[d])
      /\ entries' = [entries EXCEPT ![d] = NoRedir] /\ RefCountsExact'
  <2>1. \A s \in Redirs : HeldByCtl(s)' = HeldByCtl(s)
    BY <1>2 DEF HeldByCtl
  <2>2. \A q \in Pdos : closer'[q].redir = closer[q].redir
    BY <1>2, <1>3
  <2>3. ctl.pc = "ref" => ctl.dev \in Devices /\ ctl.dev # d /\ entries[ctl.dev] = ctl.redir
    BY <1>2 DEF CtlInv
  <2> QED BY <1>2, <2>1, <2>2, <2>3, DeleteEntryEffect
<1>5. PICK r \in Redirs : r = entries[d]
  BY <1>4
<1>6. /\ entries' \in [Devices -> Redirs \cup {NoRedir}]
      /\ \A e \in Devices : entries'[e] = IF e = d THEN NoRedir ELSE entries[e]
  BY <1>4 DEF Types
<1>7. \A q \in Pdos : q # p /\ (handle[q] # NoPid \/ closer[q].pc \in {"match"} \cup Removing) =>
          /\ filter[q].live /\ filter[q].id \in Devices /\ filter[q].id # d
          /\ entries[filter[q].id] \in Redirs \ {r}
  <2>1. ASSUME NEW q \in Pdos, q # p, handle[q] # NoPid \/ closer[q].pc \in {"match"} \cup Removing
        PROVE  /\ filter[q].live /\ filter[q].id \in Devices /\ filter[q].id # d
               /\ entries[filter[q].id] \in Redirs
    <3>1. CASE handle[q] # NoPid \/ CloserAt(q, "match")
      BY <1>2, <3>1 DEF HandleInv, Types
    <3>2. CASE closer[q].pc \in Removing
      BY <1>1, <1>2, <2>1, <3>2 DEF CloserInv, Types
    <3> QED BY <2>1, <3>1, <3>2
  <2> QED BY <1>5, <2>1 DEF RefCountsExact, RedirectionRefs
<1>8. CtlInv'
  <2>1. ctl.pc \in Acquiring => ctl.dev # d /\ ctl.redir # r
    BY <1>2, <1>5 DEF CtlInv
  <2>2. ctl.pc \in Acquiring => ctl.pc \notin {"idle", "add"}
    OBVIOUS
  <2>3. \A s \in Redirs : s # r => redir'[s] = redir[s]
    BY <1>4, <1>5, ReleaseEffect
  <2> QED BY <1>2, <1>6, <2>1, <2>2, <2>3 DEF CtlInv
<1>9. CloserInv'
  <2>1. ASSUME NEW q \in Pdos, closer'[q].pc \in Removing
        PROVE  /\ q # p /\ closer'[q] = closer[q]
               /\ filter'[q].live /\ filter'[q].id = filter[q].id
               /\ entries'[filter[q].id] = entries[filter[q].id]
               /\ redir'[entries[filter[q].id]] = redir[entries[filter[q].id]]
    <3>1. q # p /\ closer'[q] = closer[q]
      BY <1>3, <2>1
    <3>2. /\ filter[q].live /\ filter[q].id \in Devices /\ filter[q].id # d
          /\ entries[filter[q].id] \in Redirs \ {r}
      BY <1>7, <2>1, <3>1
    <3> QED BY <1>4, <1>5, <1>6, <3>1, <3>2, ReleaseEffect
  <2> QED BY <1>2, <1>3, <2>1 DEF CloserInv
<1>10. \A q \in Pdos : handle[q] # NoPid \/ closer'[q].pc \in {"match", "lookup", "wait"}
             => entries'[filter[q].id] = entries[filter[q].id]
  <2>1. handle[p] = NoPid
    BY <1>2 DEF HandleInv
  <2> QED BY <1>3, <1>6, <1>7, <2>1
<1> QED BY <1>2, <1>3, <1>4, <1>6, <1>8, <1>9, <1>10, ReleaseIInv DEF Types

\* Every step of every thread preserves the inductive invariant.
LEMMA NextIInv == IInv /\ [Next]_vars => IInv'
<1> SUFFICES ASSUME IInv, [Next]_vars PROVE IInv'
  OBVIOUS
<1>1. ASSUME NEW d \in Devices, Plug(d) \/ Unplug(d) PROVE IInv'
  BY <1>1, PlugIInv, UnplugIInv
<1>2. ASSUME NEW d \in Devices, PnpStep(d) PROVE IInv'
  BY <1>2, QueryDeviceRelationsIInv, DropRemovedDevicesIInv, NotifyRedirectionRemovedIInv,
     RegisterNewChildIInv, ApplyRedirectionPolicyIInv, AddDeviceIInv, MakeAvailableIInv DEF PnpStep
<1>3. ASSUME NEW d \in Devices, NEW pid \in Pids, AddRedirect(d, pid) PROVE IInv'
  BY <1>3, AddRedirectIInv
<1>4. CASE CtlStep \/ PowerRequestCompletion
  BY <1>4, AddToSetIInv, TakeReferenceIInv, FindDeviceIInv, PowerRequestCompletionIInv, CyclePortIInv, WaitForAttachmentIInv,
     CreateRedirectorHandleIInv, DuplicateFailedIInv, SetOwnerPidIInv, AddRedirectRollBackIInv,
     RollBackFindDeviceIInv, RollBackCyclePortIInv, ReturnFromAddRedirectIInv DEF CtlStep
<1>5. ASSUME NEW p \in Pdos, CloseHandle(p) \/ CloserStep(p) \/ RemoveStack(p) PROVE IInv'
  BY <1>5, CloseHandleIInv, NotifyRedirectionRemovalStartedIInv, CloserFindDeviceIInv,
     CloserCyclePortIInv, RemoveRedirectFailsIInv, LookupRedirectionIInv, WaitForDetachmentIInv, RemoveEntryIInv,
     RemoveStackIInv DEF CloserStep
<1>6. CASE UNCHANGED vars
  <2> USE <1>6 DEF vars, IInv
  <2>1. Types' /\ RefCountsExact'
    BY RefsFrame DEF Types, HeldByCtl, RefCountsExact
  <2>2. NoLostDetachment'
    BY DEF NoLostDetachment
  <2>3. CtlInv' /\ RedirInv' /\ PlaceInv'
    BY DEF CtlInv, RedirInv, PlaceInv
  <2>4. HandleInv'
    BY DEF HandleInv
  <2>5. CloserInv'
    BY DEF CloserInv
  <2>6. PdosInv' /\ PnpInv' /\ FreshInv'
    BY DEF PdosInv, Uses, PnpInv, FreshInv
  <2> QED BY <2>1, <2>2, <2>3, <2>4, <2>5, <2>6
<1> QED BY <1>1, <1>2, <1>3, <1>4, <1>5, <1>6 DEF Next

\* Whatever the interleaving of control queue, closes and PnP, and for any number
\* of devices, clients and retries, the inductive invariant holds.
THEOREM Invariance == Spec => []IInv
<1>1. Init => IInv
  BY InitIInv
<1>2. IInv /\ [Next]_vars => IInv'
  BY NextIInv
<1> QED BY <1>1, <1>2, PTL DEF Spec

\* The notices of the bus stay Booleans.
LEMMA InvalidatedStep ==
  ASSUME invalidated \in [Devices -> BOOLEAN], [Next]_vars
  PROVE  (invalidated \in [Devices -> BOOLEAN])'
<1>1. \/ UNCHANGED invalidated
      \/ \E d, v : v \in BOOLEAN /\ invalidated' = [invalidated EXCEPT ![d] = v]
  BY DEF Next, vars, Plug, Unplug, PnpStep, QueryDeviceRelations, DropRemovedDevices, NotifyRedirectionRemoved,
         RegisterNewChild, ApplyRedirectionPolicy, AddDevice, MakeAvailable, AddRedirect, CtlStep,
         PowerRequestCompletion, AddToSet, TakeReference, FindDevice, CyclePort, CycleSucceeds, CycleFails,
         WaitForAttachment, CreateRedirectorHandle, DuplicateFailed, SetOwnerPid, AddRedirectRollBack,
         RollBackFindDevice, RollBackCyclePort, ReturnFromAddRedirect, CloserStep, CloseHandle,
         NotifyRedirectionRemovalStarted, CloserFindDevice, CloserCyclePort, RemoveRedirectFails,
         LookupRedirection, WaitForDetachment, RemoveEntry, RemoveStack
<1> QED BY <1>1

\* Every variable keeps its type: in particular no reference count goes below
\* zero and the retry counter of CreateRedirectorHandle stays in its range.
THEOREM TypeCorrect == Spec => []TypeOK
<1>1. Init => invalidated \in [Devices -> BOOLEAN]
  BY DEF Init
<1>2. invalidated \in [Devices -> BOOLEAN] /\ [Next]_vars
        => (invalidated \in [Devices -> BOOLEAN])'
  BY InvalidatedStep
<1>3. IInv /\ invalidated \in [Devices -> BOOLEAN] => TypeOK
  BY DEF IInv, TypeOK
<1> QED BY <1>1, <1>2, <1>3, Invariance, PTL DEF Spec

\* The reference counts of CUsbDkRedirection and CUsbDkFilterDevice equal the
\* number of pointers to the object, whatever the threads do.
THEOREM ReferencesCorrect == Spec => []RefCountsExact
<1>1. IInv => RefCountsExact
  BY DEF IInv
<1> QED BY <1>1, Invariance, PTL

\* A close that waits for the detachment cannot have missed the event.
THEOREM DetachmentNotLost == Spec => []NoLostDetachment
<1>1. IInv => NoLostDetachment
  BY DEF IInv
<1> QED BY <1>1, Invariance, PTL

\* The unchecked m_RedirectorDevice of CreateRedirectorHandle and of
\* NotifyRedirectionRemovalStarted is never null.
THEOREM RedirectorNotNull == Spec => []NoNullRedirector
<1>1. IInv => NoNullRedirector
  <2> SUFFICES ASSUME IInv PROVE NoNullRedirector
    OBVIOUS
  <2>1. ctl.pc = "open" => IsRedirected(ctl.redir) /\ ~IsPreparedForRemove(ctl.redir)
    BY DEF IInv, CtlInv
  <2>2. \A p \in Pdos : CloserAt(p, "match") => IsRedirected(entries[filter[p].id])
    BY DEF IInv, HandleInv
  <2> QED BY <2>1, <2>2 DEF NoNullRedirector
<1> QED BY <1>1, Invariance, PTL

-----------------------------------------------------------------------------
(* A device is given back: RollBackInv and ReturningInv are inductive.     *)

\* A release of the filter device changes no strategy, or there is no filter
\* any more.
LEMMA ReleasedStrategy ==
  ASSUME Types, NEW q, NEW p \in Pdos, filter' = AfterFilterRelease(q)
  PROVE  filter'[p].strategy \in {filter[p].strategy, "none"}
<1>1. filter \in [Pdos -> FilterDevice] /\ NoFilter.strategy = "none"
  BY DEF Types, NoFilter
<1>2. CASE filter[q].refs = 1
  BY <1>1, <1>2 DEF AfterFilterRelease
<1>3. CASE filter[q].refs # 1
  <2>1. filter' = [filter EXCEPT ![q].refs = @ - 1]
    BY <1>3 DEF AfterFilterRelease
  <2> QED BY <1>1, <2>1 DEF FilterDevice
<1> QED BY <1>2, <1>3

\* What a step of PnP does to a filter device.
LEMMA PnpFilter ==
  ASSUME IInv, NEW d \in Devices, PnpStep(d), NEW p \in Pdos
  PROVE  /\ \/ filter'[p].strategy \in {filter[p].strategy, "none", "hub", "hider"}
            \/ pnp[d].pc = "adddevice" /\ pnp[d].pdo = p /\ ShouldRedirect(d)
         /\ filter[p].live => filter'[p].id = filter[p].id
<1>1. filter \in [Pdos -> FilterDevice] /\ ~NoFilter.live /\ pnp[d].pdo \in Pdos \cup {NoPdo}
  BY Nulls DEF IInv, Types, PnpWork
<1>2. CASE AddDevice(d)
  <2>1. CASE filter' = filter
    BY <2>1
  <2>2. ASSUME filter' # filter PROVE p # pnp[d].pdo => filter'[p] = filter[p]
    BY <1>1, <1>2 DEF AddDevice
  <2>3. ASSUME filter' # filter, p = pnp[d].pdo
        PROVE  \E hide \in BOOLEAN : filter'[p].strategy = SelectStrategy(d, hide)
    <3>1. PICK hide \in BOOLEAN : \E live, started, refs :
                filter' = [filter EXCEPT ![p] = [strategy |-> SelectStrategy(d, hide), id |-> d,
                                                 live |-> live, started |-> started, refs |-> refs]]
      BY <1>2, <2>3 DEF AddDevice, HideVerdicts
    <3> QED BY <1>1, <3>1
  <2>4. p = pnp[d].pdo => ~filter[p].live
    BY <1>1, <1>2 DEF IInv, FreshInv, AddDevice
  <2> QED BY <1>2, <2>1, <2>2, <2>3, <2>4 DEF AddDevice, SelectStrategy
<1>3. CASE MakeAvailable(d)
  <2>1. filter'[p].strategy = filter[p].strategy /\ filter'[p].id = filter[p].id
    BY <1>1, <1>3 DEF MakeAvailable, FilterDevice
  <2> QED BY <2>1
<1>4. CASE filter' = filter
  BY <1>4
<1> QED BY <1>2, <1>3, <1>4 DEF PnpStep, QueryDeviceRelations, DropRemovedDevices, NotifyRedirectionRemoved,
        RegisterNewChild, ApplyRedirectionPolicy

\* What the release of a redirection does to a filter device.
LEMMA ReleasedFilter ==
  ASSUME IInv, NEW r \in Redirs, redir[r].refs > 0, ReleaseRedirection(r), NEW p \in Pdos
  PROVE  /\ filter'[p].strategy \in {filter[p].strategy, "none"}
         /\ filter[p].live => filter'[p].id = filter[p].id
<1>1. filter[p].live => filter'[p].id = filter[p].id
  BY ReleaseEffect DEF IInv
<1>2. filter'[p].strategy \in {filter[p].strategy, "none"}
  BY ReleasedStrategy DEF ReleaseRedirection, IInv
<1> QED BY <1>1, <1>2

\* Whoever holds a redirection is counted.
LEMMA HolderCounts ==
  ASSUME IInv, NEW r \in Redirs,
         HeldByCtl(r) \/ (\E d \in Devices : entries[d] = r) \/ (\E p \in Pdos : closer[p].redir = r)
  PROVE  redir[r].refs > 0
BY DEF IInv, RefCountsExact, RedirectionRefs

\* A close takes the redirection's reference off its own filter device, on which
\* the framework has one more.
LEMMA RemovalStartedFilter ==
  ASSUME IInv, NEW q \in Pdos, NotifyRedirectionRemovalStarted(q), NEW p \in Pdos
  PROVE  /\ filter'[p].strategy \in {filter[p].strategy, "none"}
         /\ filter[p].live => filter'[p].id = filter[p].id
<1>1. CASE filter' = filter
  BY <1>1
<1>2. CASE filter' = AfterFilterRelease(redir[entries[filter[q].id]].redirectorDevice)
  <2>1. /\ filter[q].live /\ entries[filter[q].id] \in Redirs
        /\ redir[entries[filter[q].id]].redirectorDevice = q
    <3>1. /\ filter[q].live /\ filter[q].id \in Devices /\ entries[filter[q].id] # NoRedir
          /\ redir[entries[filter[q].id]].redirectorDevice = q
      BY DEF IInv, HandleInv, NotifyRedirectionRemovalStarted
    <3> QED BY <3>1 DEF IInv, Types
  <2>2. filter[q].refs = 2
    BY <2>1 DEF IInv, RefCountsExact, FilterRefs
  <2>3. filter' = [filter EXCEPT ![q].refs = @ - 1]
    BY <1>2, <2>1, <2>2 DEF AfterFilterRelease
  <2>4. filter \in [Pdos -> FilterDevice]
    BY DEF IInv, Types
  <2> QED BY <2>3, <2>4 DEF FilterDevice
<1> QED BY <1>1, <1>2 DEF NotifyRedirectionRemovalStarted

\* A stack that is removed is that of a filter device nobody closes.
LEMMA RemoveStackFilter ==
  ASSUME IInv, NEW q \in Pdos, RemoveStack(q), NEW p \in Pdos
  PROVE  /\ filter'[p].strategy \in {filter[p].strategy, "none"}
         /\ ~CloserAt(p, "idle") => filter'[p].id = filter[p].id
<1>1. /\ filter' = [AfterFilterRelease(q) EXCEPT ![q].live = FALSE] /\ CloserAt(q, "idle")
      /\ filter \in [Pdos -> FilterDevice] /\ NoFilter \in FilterDevice /\ NoFilter.strategy = "none"
  BY Nulls DEF RemoveStack, IInv, Types, NoFilter
<1>2. CASE filter[q].refs = 1
  <2>1. filter' = [[filter EXCEPT ![q] = NoFilter] EXCEPT ![q].live = FALSE]
    BY <1>1, <1>2 DEF AfterFilterRelease
  <2> QED BY <1>1, <2>1 DEF FilterDevice
<1>3. CASE filter[q].refs # 1
  <2>1. filter' = [[filter EXCEPT ![q].refs = @ - 1] EXCEPT ![q].live = FALSE]
    BY <1>1, <1>3 DEF AfterFilterRelease
  <2> QED BY <1>1, <2>1 DEF FilterDevice
<1> QED BY <1>2, <1>3

\* A filter device becomes a redirector in AddDevice only, for a device that
\* should be redirected, and stays the one of its device while a close runs.
LEMMA FilterStep ==
  ASSUME IInv, Next, NEW p \in Pdos
  PROVE  /\ \/ filter'[p].strategy \in {filter[p].strategy, "none", "hub", "hider"}
            \/ \E d \in Devices : pnp[d].pc = "adddevice" /\ pnp[d].pdo = p /\ ShouldRedirect(d)
         /\ filter[p].live /\ ~CloserAt(p, "idle") => filter'[p].id = filter[p].id
<1>1. CASE filter' = filter
  BY <1>1
<1>2. CASE \E d \in Devices : PnpStep(d)
  BY <1>2, PnpFilter
<1>3. CASE \E q \in Pdos : NotifyRedirectionRemovalStarted(q) \/ RemoveStack(q)
  BY <1>3, RemovalStartedFilter, RemoveStackFilter
<1>4. ASSUME NEW r \in Redirs, ReleaseRedirection(r),
             HeldByCtl(r) \/ (\E d \in Devices : entries[d] = r) \/ (\E q \in Pdos : closer[q].redir = r)
      PROVE  /\ filter'[p].strategy \in {filter[p].strategy, "none"}
             /\ filter[p].live => filter'[p].id = filter[p].id
  BY <1>4, HolderCounts, ReleasedFilter
<1>5. ASSUME NEW d \in Devices, DeleteEntry(d)
      PROVE  /\ filter'[p].strategy \in {filter[p].strategy, "none"}
             /\ filter[p].live => filter'[p].id = filter[p].id
  BY <1>4, <1>5 DEF DeleteEntry, IInv, Types
<1>6. CASE AddRedirectRollBack
  BY <1>5, <1>6 DEF AddRedirectRollBack, IInv, CtlInv
<1>7. CASE ReturnFromAddRedirect
  BY <1>4, <1>7 DEF ReturnFromAddRedirect, IInv, CtlInv, HeldByCtl
<1>8. CASE \E q \in Pdos : RemoveEntry(q)
  BY <1>5, <1>8 DEF RemoveEntry, IInv, CloserInv
<1>9. CASE \E q \in Pdos : WaitForDetachment(q)
  BY <1>4, <1>9 DEF WaitForDetachment, IInv, CloserInv, Types
<1> QED BY <1>1, <1>2, <1>3, <1>6, <1>7, <1>8, <1>9
        DEF Next, Plug, Unplug, AddRedirect, CtlStep, AddToSet, TakeReference, FindDevice, CyclePort,
            WaitForAttachment, CreateRedirectorHandle, DuplicateFailed, SetOwnerPid, RollBackFindDevice,
            RollBackCyclePort, CloserStep, CloseHandle, CloserFindDevice, CloserCyclePort, LookupRedirection,
            PowerRequestCompletion, RemoveRedirectFails

\* The PDO of a device goes, or comes new and without a filter.
LEMMA BusStep ==
  ASSUME IInv, Next, NEW d \in Devices
  PROVE  \/ bus'[d] \in {bus[d], NoPdo}
         \/ filter' = filter /\ filter[bus'[d]] = NoFilter
<1>1. bus \in [Devices -> Pdos \cup {NoPdo}]
  BY DEF IInv, Types
<1>2. CASE bus' = bus
  BY <1>2
<1>3. CASE \E e \in Devices : bus' = [bus EXCEPT ![e] = NoPdo]
  BY <1>1, <1>3
<1>4. CASE \E e \in Devices : Plug(e)
  <2>1. PICK e \in Devices, p \in Pdos : bus' = [bus EXCEPT ![e] = p] /\ filter[p] = NoFilter /\ filter' = filter
    BY <1>4 DEF Plug, Unused
  <2> QED BY <1>1, <2>1
<1>5. CASE CyclePort \/ RollBackCyclePort
  <2>1. ctl.dev \in Devices
    BY <1>5 DEF IInv, CtlInv, CyclePort, RollBackCyclePort
  <2> QED BY <1>2, <1>3, <1>5, <2>1 DEF CyclePort, RollBackCyclePort, CycleSucceeds, CycleFails
<1>6. CASE \E q \in Pdos : CloserCyclePort(q)
  <2>1. PICK q \in Pdos : CloserCyclePort(q)
    BY <1>6
  <2>2. filter[q].id \in Devices
    BY <2>1 DEF IInv, CloserInv, CloserCyclePort
  <2> QED BY <1>2, <1>3, <2>1, <2>2 DEF CloserCyclePort, CycleSucceeds, CycleFails
<1> QED BY <1>2, <1>3, <1>4, <1>5, <1>6
        DEF Next, Unplug, PnpStep, QueryDeviceRelations, DropRemovedDevices, NotifyRedirectionRemoved,
            RegisterNewChild, ApplyRedirectionPolicy, AddDevice, MakeAvailable, AddRedirect, CtlStep, CtlFrame,
            AddToSet, TakeReference, FindDevice, WaitForAttachment, CreateRedirectorHandle, DuplicateFailed,
            SetOwnerPid, AddRedirectRollBack, RollBackFindDevice, ReturnFromAddRedirect, CloserStep,
            CloseHandle, NotifyRedirectionRemovalStarted, CloserFindDevice, LookupRedirection,
            WaitForDetachment, RemoveEntry, RemoveStack, PowerRequestCompletion, RemoveRedirectFails

\* A device comes under a redirector only when it should be redirected.
LEMMA UnderRedirectorStep ==
  ASSUME IInv, Next, NEW d \in Devices, UnderRedirector(d)', ~ShouldRedirect(d)
  PROVE  UnderRedirector(d) /\ bus'[d] = bus[d]
<1>1. bus' \in [Devices -> Pdos \cup {NoPdo}] /\ bus \in [Devices -> Pdos \cup {NoPdo}]
  BY NextIInv DEF IInv, Types
<1>2. bus'[d] = bus[d] /\ bus[d] \in Pdos
  BY <1>1, BusStep DEF UnderRedirector, NoFilter
<1>3. ASSUME NEW e \in Devices, pnp[e].pdo = bus[d] PROVE e = d
  BY <1>2, <1>3 DEF IInv, PdosInv, Uses
<1>4. filter'[bus[d]].strategy = filter[bus[d]].strategy
  BY <1>2, <1>3, FilterStep DEF UnderRedirector
<1> QED BY <1>2, <1>4 DEF UnderRedirector

\* A device under a redirector is listed with the PDO the bus reports.
LEMMA UnderRedirectorListed ==
  ASSUME IInv, NEW d \in Devices, UnderRedirector(d)
  PROVE  child[d] = bus[d] /\ bus[d] # NoPdo
<1>1. filter[bus[d]] # NoFilter
  BY DEF UnderRedirector, NoFilter
<1> QED BY <1>1 DEF UnderRedirector, IInv, FreshInv, PnpInv

\* The set gets a new entry for the device of the call in AddRedirect only.
LEMMA EntriesStep ==
  ASSUME IInv, Next, NEW d \in Devices, entries[d] = NoRedir, ~(AddToSet /\ ctl.dev = d)
  PROVE  entries'[d] = NoRedir
<1>1. entries \in [Devices -> Redirs \cup {NoRedir}]
  BY DEF IInv, Types
<1>2. CASE entries' = entries
  BY <1>2
<1>3. ASSUME NEW e, DeleteEntry(e) PROVE entries'[d] = NoRedir
  BY <1>1, <1>3 DEF DeleteEntry
<1>4. CASE AddToSet
  BY <1>1, <1>4 DEF AddToSet
<1> QED BY <1>2, <1>3, <1>4
        DEF Next, Plug, Unplug, PnpStep, QueryDeviceRelations, DropRemovedDevices, NotifyRedirectionRemoved,
            RegisterNewChild, ApplyRedirectionPolicy, AddDevice, MakeAvailable, AddRedirect, CtlStep, CyclePort,
            TakeReference, FindDevice, WaitForAttachment, CreateRedirectorHandle, DuplicateFailed, SetOwnerPid,
            AddRedirectRollBack, RollBackFindDevice, RollBackCyclePort, ReturnFromAddRedirect, CloserStep,
            CloseHandle, NotifyRedirectionRemovalStarted, CloserFindDevice, CloserCyclePort, LookupRedirection,
            WaitForDetachment, RemoveEntry, RemoveStack, PowerRequestCompletion, RemoveRedirectFails

\* A rollback with a reset.
LEMMA RollBackInvStep ==
  ASSUME ~Fault("cycle"), IInv, RollBackInv, Next
  PROVE  RollBackInv'
<1>1. ctl \in AddRedirectCall /\ ctl' \in AddRedirectCall
  BY NextIInv DEF IInv, Types
<1>2. ctl.pc # "idle" => ctl.dev \in Devices
  BY DEF IInv, CtlInv
<1>3. ASSUME ctl' = ctl, NEW d \in Devices, d = ctl.dev
      PROVE  RollBackInv'
  <2> SUFFICES ASSUME ctl.withReset, ctl.pc # "rollback"
               PROVE  /\ entries'[d] = NoRedir
                      /\ ctl.pc = "rbcycle" /\ UnderRedirector(d)' => ctl.pdo = bus'[d]
                      /\ ctl.pc = "release" => ~UnderRedirector(d)'
    BY <1>3 DEF RollBackInv, UnderRedirector
  <2>1. entries[d] = NoRedir /\ ~AddToSet
    BY <1>3 DEF RollBackInv, AddToSet
  <2>2. UnderRedirector(d)' => UnderRedirector(d) /\ bus'[d] = bus[d]
    BY <2>1, UnderRedirectorStep DEF ShouldRedirect
  <2>3. entries'[d] = NoRedir
    BY <2>1, EntriesStep
  <2> QED BY <1>3, <2>2, <2>3 DEF RollBackInv
<1>4. CASE ctl' = ctl
  <2>1. CASE ctl.pc = "idle"
    BY <1>4, <2>1 DEF RollBackInv
  <2> QED BY <1>2, <1>3, <1>4, <2>1
<1>5. CASE AddToSet \/ TakeReference
  <2>1. ~ctl.withReset
    BY <1>5 DEF RollBackInv, AddToSet, TakeReference
  <2>2. ctl'.pc \in {"idle", "ref", "find"} /\ ~ctl'.withReset
    <3>1. CASE ctl' = IdleCtl
      BY <3>1 DEF IdleCtl
    <3>2. CASE \/ \E r : ctl' = [ctl EXCEPT !.pc = "ref", !.redir = r]
               \/ ctl' = [ctl EXCEPT !.pc = "find"]
      BY <1>1, <2>1, <3>2 DEF AddRedirectCall
    <3> QED BY <1>5, <3>1, <3>2 DEF AddToSet, TakeReference
  <2> QED BY <2>2 DEF RollBackInv
<1>6. CASE FindDevice \/ PowerRequestCompletion \/ CyclePort
  <2>1. ~ctl.withReset
    BY <1>6 DEF RollBackInv, FindDevice, PowerRequestCompletion, CyclePort
  <2>2. ctl'.pc \in {"rollback", "power", "cycle", "attach"} /\ ~ctl'.withReset
    <3>1. CASE FindDevice \/ PowerRequestCompletion
      BY <1>1, <2>1, <3>1 DEF AddRedirectCall, FindDevice, PowerRequestCompletion
    <3>2. CASE CyclePort
      <4>1. \E pc \in {"attach", "rollback"} : ctl' = [ctl EXCEPT !.pc = pc, !.pdo = NoPdo]
        BY <3>2 DEF CyclePort
      <4> QED BY <1>1, <2>1, <4>1 DEF AddRedirectCall
    <3> QED BY <1>6, <3>1, <3>2
  <2> QED BY <2>2 DEF RollBackInv
<1>7. CASE WaitForAttachment \/ CreateRedirectorHandle \/ DuplicateFailed
  <2>1. ~ctl.withReset
    BY <1>7 DEF RollBackInv, WaitForAttachment, CreateRedirectorHandle, DuplicateFailed
  <2>2. /\ RollBack.pc = "rollback"
        /\ NextAttempt.pc \in {"rollback", "open"} /\ (NextAttempt.withReset => NextAttempt.pc = "rollback")
        /\ [NextAttempt EXCEPT !.pdo = NoPdo].pc = NextAttempt.pc
        /\ [NextAttempt EXCEPT !.pdo = NoPdo].withReset = NextAttempt.withReset
    BY <1>1, <2>1 DEF AddRedirectCall, RollBack, NextAttempt
  <2>3. ctl'.pc \in {"rollback", "open", "own", "dup"} /\ (ctl'.withReset => ctl'.pc = "rollback")
    <3>1. CASE ctl' \in {RollBack, NextAttempt, [NextAttempt EXCEPT !.pdo = NoPdo]}
      BY <2>2, <3>1
    <3>2. CASE \/ ctl' = [ctl EXCEPT !.pc = "open", !.left = MaxRetries]
               \/ ctl' = [ctl EXCEPT !.pc = "own"]
               \/ \E p : ctl' = [ctl EXCEPT !.pc = "dup", !.pdo = p]
      BY <1>1, <2>1, <3>2 DEF AddRedirectCall
    <3> QED BY <1>7, <3>1, <3>2 DEF WaitForAttachment, CreateRedirectorHandle, DuplicateFailed
  <2> QED BY <2>3 DEF RollBackInv
<1>8. CASE SetOwnerPid \/ ReturnFromAddRedirect \/ (\E d \in Devices, pid \in Pids : AddRedirect(d, pid))
  <2>1. ctl'.pc \in {"release", "idle", "add"} /\ ~ctl'.withReset
    <3>1. CASE SetOwnerPid
      BY <1>1, <3>1 DEF RollBackInv, AddRedirectCall, SetOwnerPid
    <3>2. CASE ReturnFromAddRedirect
      BY <3>2 DEF IdleCtl, ReturnFromAddRedirect
    <3>3. CASE \E d \in Devices, pid \in Pids : AddRedirect(d, pid)
      BY <3>3 DEF IdleCtl, AddRedirect
    <3> QED BY <1>8, <3>1, <3>2, <3>3
  <2> QED BY <2>1 DEF RollBackInv
<1>9. CASE AddRedirectRollBack
  <2>1. /\ ctl.dev \in Devices /\ ctl.pc = "rollback" /\ entries[ctl.dev] # NoRedir /\ ctl.redir \in Redirs
        /\ entries \in [Devices -> Redirs \cup {NoRedir}]
    BY <1>2, <1>9 DEF AddRedirectRollBack, IInv, CtlInv, Types
  <2>2. entries' = [entries EXCEPT ![ctl.dev] = NoRedir]
    BY <1>9, <2>1 DEF AddRedirectRollBack, DeleteEntry
  <2>3. /\ ctl'.dev = ctl.dev /\ ctl'.withReset = ctl.withReset
        /\ ctl'.pc = IF ctl.withReset THEN "rbfind" ELSE "release"
    BY <1>1, <1>9 DEF AddRedirectRollBack, AddRedirectCall
  <2> QED BY <2>1, <2>2, <2>3 DEF RollBackInv
<1>10. CASE RollBackFindDevice
  <2>1. PICK d \in Devices : d = ctl.dev
    BY <1>2, <1>10 DEF RollBackFindDevice
  <2>2. ctl.withReset /\ entries[d] = NoRedir /\ entries' = entries /\ UNCHANGED <<bus, filter>>
    BY <1>10, <2>1 DEF RollBackFindDevice, RollBackInv
  <2>3. UnderRedirector(d) => child[d] = bus[d] /\ bus[d] # NoPdo
    BY UnderRedirectorListed
  <2>4. CASE child[d] = NoPdo
    <3>1. ctl'.pc = "release" /\ ctl'.dev = d /\ ctl'.withReset
      BY <1>1, <1>10, <2>1, <2>2, <2>4 DEF RollBackFindDevice, AddRedirectCall
    <3> QED BY <2>2, <2>3, <2>4, <3>1 DEF RollBackInv, UnderRedirector
  <2>5. CASE child[d] # NoPdo
    <3>1. ctl'.pc = "rbcycle" /\ ctl'.dev = d /\ ctl'.withReset /\ ctl'.pdo = child[d]
      BY <1>1, <1>10, <2>1, <2>2, <2>5 DEF RollBackFindDevice, AddRedirectCall
    <3> QED BY <2>2, <2>3, <3>1 DEF RollBackInv, UnderRedirector
  <2> QED BY <2>4, <2>5
<1>11. CASE RollBackCyclePort
  <2>1. PICK d \in Devices : d = ctl.dev
    BY <1>2, <1>11 DEF RollBackCyclePort
  <2>2. ctl.withReset /\ entries[d] = NoRedir /\ UNCHANGED <<entries, filter>>
    BY <1>11, <2>1 DEF RollBackCyclePort, RollBackInv
  <2>3. ctl'.pc = "release" /\ ctl'.dev = d /\ ctl'.withReset
    BY <1>1, <1>11, <2>1, <2>2 DEF RollBackCyclePort, AddRedirectCall
  <2>4. ~(bus'[d] # NoPdo /\ filter'[bus'[d]].strategy = "redirector")
    <3>1. CASE CycleSucceeds(d, ctl.pdo)
      BY <3>1 DEF CycleSucceeds, IInv, Types
    <3>2. CASE CycleFails(d, ctl.pdo)
      BY <1>11, <2>1, <2>2, <3>2 DEF CycleFails, RollBackCyclePort, RollBackInv, UnderRedirector
    <3> QED BY <1>11, <2>1, <3>1, <3>2 DEF RollBackCyclePort
  <2> QED BY <2>2, <2>3, <2>4 DEF RollBackInv, UnderRedirector
<1> QED BY <1>4, <1>5, <1>6, <1>7, <1>8, <1>9, <1>10, <1>11
        DEF Next, Plug, Unplug, PnpStep, QueryDeviceRelations, DropRemovedDevices, NotifyRedirectionRemoved,
            RegisterNewChild, ApplyRedirectionPolicy, AddDevice, MakeAvailable, CtlStep, CloserStep, CloserFrame,
            CloseHandle, NotifyRedirectionRemovalStarted, CloserFindDevice, CloserCyclePort, LookupRedirection,
            WaitForDetachment, RemoveEntry, RemoveStack, RemoveRedirectFails

\* The reset of a close.
LEMMA ReturningInvStep ==
  ASSUME ~Fault("cycle"), IInv, ReturningInv, Next
  PROVE  ReturningInv'
<1> SUFFICES ASSUME NEW p \in Pdos, NEW d \in Devices, filter'[p].id = d,
                    closer'[p].pc \in {"cycle", "lookup", "wait", "delete"}
             PROVE  /\ closer'[p].pc = "cycle" /\ UnderRedirector(d)' => closer'[p].pdo = bus'[d]
                    /\ closer'[p].pc # "cycle" => ~UnderRedirector(d)'
  BY DEF ReturningInv
<1>1. closer \in [Pdos -> OnCloseCall]
  BY DEF IInv, Types
<1>2. \/ closer'[p] = closer[p]
      \/ CloserFindDevice(p) \/ CloserCyclePort(p) \/ LookupRedirection(p) \/ WaitForDetachment(p)
  <2>1. CASE closer' = closer
    BY <2>1
  <2>2. CASE CreateRedirectorHandle
    <3>1. PICK q : closer' = closer \/ \E pid : closer' = [closer EXCEPT ![q].pc = "match", ![q].pid = pid]
      BY <2>2 DEF CreateRedirectorHandle
    <3> QED BY <1>1, <3>1 DEF OnCloseCall
  <2>3. ASSUME NEW q \in Pdos, CloseHandle(q) PROVE closer'[p] = closer[p]
    BY <1>1, <2>3 DEF CloseHandle, OnCloseCall
  <2>4. ASSUME NEW q \in Pdos, CloserStep(q)
        PROVE  \/ closer'[p] = closer[p]
               \/ CloserFindDevice(p) \/ CloserCyclePort(p) \/ LookupRedirection(p) \/ WaitForDetachment(p)
    <3>1. CASE q # p
      BY <1>1, <2>4, <3>1 DEF CloserStep, NotifyRedirectionRemovalStarted, CloserFindDevice, CloserCyclePort,
         LookupRedirection, WaitForDetachment, RemoveEntry, RemoveRedirectFails
    <3>2. CASE NotifyRedirectionRemovalStarted(p) \/ RemoveEntry(p) \/ RemoveRedirectFails(p)
      <4>1. CASE closer' = [closer EXCEPT ![p].pc = "find"]
        BY <1>1, <4>1 DEF OnCloseCall
      <4>2. CASE closer' = [closer EXCEPT ![p] = IdleCloser]
        BY <1>1, <4>2, Nulls
      <4> QED BY <3>2, <4>1, <4>2 DEF NotifyRedirectionRemovalStarted, RemoveEntry, RemoveRedirectFails
    <3> QED BY <2>4, <3>1, <3>2 DEF CloserStep
  <2> QED BY <2>1, <2>2, <2>3, <2>4
      DEF Next, Plug, Unplug, PnpStep, QueryDeviceRelations, DropRemovedDevices, NotifyRedirectionRemoved,
          RegisterNewChild, ApplyRedirectionPolicy, AddDevice, MakeAvailable, AddRedirect, CtlStep, CtlFrame,
          AddToSet, TakeReference, FindDevice, CyclePort, WaitForAttachment, DuplicateFailed, SetOwnerPid,
          AddRedirectRollBack, RollBackFindDevice, RollBackCyclePort, ReturnFromAddRedirect, RemoveStack,
          PowerRequestCompletion
<1>3. closer[p].pc \in Removing
  BY <1>2 DEF CloserFindDevice, CloserCyclePort, LookupRedirection, WaitForDetachment
<1>4. filter[p].live
  BY <1>3 DEF IInv, CloserInv
<1>5. filter[p].id = d
  BY <1>3, <1>4, FilterStep
<1>6. ~ShouldRedirect(d)
  BY <1>3, <1>5 DEF IInv, CloserInv, ShouldRedirect
<1>7. UnderRedirector(d)' => UnderRedirector(d) /\ bus'[d] = bus[d]
  BY <1>6, UnderRedirectorStep
<1>8. CASE closer'[p] = closer[p]
  BY <1>5, <1>7, <1>8 DEF ReturningInv
<1>9. CASE CloserFindDevice(p)
  <2>1. closer'[p].pc = (IF child[d] = NoPdo THEN "delete" ELSE "cycle") /\ closer'[p].pdo = child[d]
    BY <1>1, <1>5, <1>9 DEF CloserFindDevice, OnCloseCall
  <2>2. UnderRedirector(d) => child[d] = bus[d] /\ bus[d] # NoPdo
    BY UnderRedirectorListed
  <2> QED BY <1>7, <2>1, <2>2
<1>10. CASE CloserCyclePort(p)
  <2>1. closer'[p].pc # "cycle"
    BY <1>1, <1>10, Nulls DEF CloserCyclePort, OnCloseCall
  <2>2. ~UnderRedirector(d)'
    <3>1. CASE CycleSucceeds(d, closer[p].pdo)
      BY <3>1 DEF CycleSucceeds, IInv, Types, UnderRedirector
    <3>2. CASE CycleFails(d, closer[p].pdo)
      BY <1>5, <1>7, <1>10, <3>2 DEF CycleFails, CloserCyclePort, ReturningInv
    <3> QED BY <1>5, <1>10, <3>1, <3>2 DEF CloserCyclePort
  <2> QED BY <2>1, <2>2
<1>11. CASE LookupRedirection(p) \/ WaitForDetachment(p)
  <2>1. closer[p].pc \in {"lookup", "wait"}
    BY <1>11 DEF LookupRedirection, WaitForDetachment
  <2>2. closer'[p].pc # "cycle"
    <3>1. CASE \E pc \in {"wait", "delete"} : \E r : closer' = [closer EXCEPT ![p] = [@ EXCEPT !.pc = pc, !.redir = r]]
      BY <1>1, <3>1 DEF OnCloseCall
    <3>2. CASE closer' = [closer EXCEPT ![p] = IdleCloser]
      BY <1>1, <3>2, Nulls
    <3>3. closer[p] \in OnCloseCall
      BY <1>1
    <3> QED BY <1>11, <3>1, <3>2, <3>3 DEF LookupRedirection, WaitForDetachment
  <2> QED BY <1>5, <1>7, <2>1, <2>2 DEF ReturningInv
<1> QED BY <1>2, <1>8, <1>9, <1>10, <1>11

\* If ports can be cycled, a device is not under a redirector any more when its
\* rollback, or its close, drops the redirection.
THEOREM DevicesAreGivenBack ==
  ASSUME ~Fault("cycle")
  PROVE  Spec => []GivenBack
<1>1. Init => RollBackInv /\ ReturningInv
  BY Nulls DEF Init, RollBackInv, ReturningInv, IdleCtl, IdleCloser
<1>2. IInv /\ (RollBackInv /\ ReturningInv) /\ [Next]_vars => (RollBackInv /\ ReturningInv)'
  <2>1. CASE UNCHANGED vars
    BY <2>1 DEF vars, RollBackInv, ReturningInv, UnderRedirector
  <2> QED BY <2>1, RollBackInvStep, ReturningInvStep
<1>3. IInv /\ (RollBackInv /\ ReturningInv) => GivenBack
  <2> SUFFICES ASSUME IInv, RollBackInv, ReturningInv, NEW d \in Devices,
                      bus[d] = child[d], child[d] # NoPdo,
                      \/ ctl.dev = d /\ ctl.pc = "release" /\ ctl.withReset
                      \/ \E q \in Pdos : filter[q].id = d /\ CloserAt(q, "delete")
               PROVE  filter[child[d]].strategy # "redirector"
    BY DEF GivenBack
  <2>1. ~UnderRedirector(d)
    BY DEF RollBackInv, ReturningInv
  <2> QED BY <2>1 DEF UnderRedirector
<1> QED BY <1>1, <1>2, <1>3, Invariance, PTL DEF Spec

-----------------------------------------------------------------------------
(* The driver implements DeviceOwnership: seen through m_Redirections, the *)
(* acquisition of every device moves only as that specification allows.    *)

\* What the abstract state of a device is computed from does not change.
SameAt(d) ==
    /\ entries'[d] = entries[d]
    /\ entries[d] # NoRedir =>
          /\ redir'[entries[d]].ownerPid = redir[entries[d]].ownerPid
          /\ redir'[entries[d]].removalInProgress = redir[entries[d]].removalInProgress

\* A step that touches no entry, no owner and no removal flag is a stutter.
LEMMA OwnershipStutter ==
  ASSUME \A d \in Devices : SameAt(d)
  PROVE  acquisition' = acquisition /\ owner' = owner
<1>1. acquisition' = acquisition
  BY DEF acquisition, SameAt
<1>2. owner' = owner
  BY DEF owner, SameAt
<1> QED BY <1>1, <1>2

\* A close that gives its device back goes on with it, and no other starts.
SameClose(p) ==
    /\ closer'[p].pc \in Removing <=> closer[p].pc \in Removing
    /\ closer[p].pc \in Removing => closer'[p].pid = closer[p].pid

\* The filter a close works on stays the one of its device.
LEMMA ClosersStay ==
  ASSUME IInv, Next, NEW p \in Pdos, closer[p].pc \in Removing
  PROVE  filter'[p].id = filter[p].id
<1>1. filter[p].live /\ ~CloserAt(p, "idle")
  BY DEF IInv, CloserInv
<1> QED BY <1>1, FilterStep

LEMMA ClosingStutter ==
  ASSUME IInv, Next, \A p \in Pdos : SameClose(p)
  PROVE  closing' = closing
<1>1. \A d \in Devices : {closer'[p].pid : p \in {q \in Pdos : filter'[q].id = d /\ closer'[q].pc \in Removing}}
                         = {closer[p].pid : p \in {q \in Pdos : filter[q].id = d /\ closer[q].pc \in Removing}}
  <2> SUFFICES ASSUME NEW d \in Devices, NEW p \in Pdos
               PROVE  /\ filter'[p].id = d /\ closer'[p].pc \in Removing
                            <=> filter[p].id = d /\ closer[p].pc \in Removing
                      /\ closer[p].pc \in Removing => closer'[p].pid = closer[p].pid
    OBVIOUS
  <2> QED BY ClosersStay DEF SameClose
<1> QED BY <1>1 DEF closing, Closers

\* A step of the only close at a device moves the closes of that device only.
LEMMA OneCloserMoves ==
  ASSUME IInv, Next, NEW p \in Pdos, NEW d \in Devices, filter[p].id = d,
         closer[p].pc # "idle", filter[p].live,
         \A q \in Pdos \ {p} : SameClose(q) /\ (closer[q].pc \in Removing => filter[q].id # d)
  PROVE  closing' = [closing EXCEPT ![d] = IF closer'[p].pc \in Removing THEN {closer'[p].pid} ELSE {}]
<1> DEFINE x == IF closer'[p].pc \in Removing THEN {closer'[p].pid} ELSE {}
           C(e) == {q \in Pdos : filter[q].id = e /\ closer[q].pc \in Removing}
           D(e) == {q \in Pdos : filter'[q].id = e /\ closer'[q].pc \in Removing}
<1>1. filter'[p].id = d
  BY FilterStep
<1>2. \A q \in Pdos \ {p} : closer[q].pc \in Removing => filter'[q].id = filter[q].id
  BY ClosersStay
<1>3. D(d) = IF closer'[p].pc \in Removing THEN {p} ELSE {}
  BY <1>1, <1>2 DEF SameClose
<1>4. \A e \in Devices \ {d} : D(e) = C(e) /\ \A q \in C(e) : closer'[q].pid = closer[q].pid
  BY <1>1, <1>2 DEF SameClose
<1>5. {closer'[q].pid : q \in D(d)} = x
  BY <1>3
<1>6. \A e \in Devices \ {d} : {closer'[q].pid : q \in D(e)} = {closer[q].pid : q \in C(e)}
  BY <1>4
<1>7. closing' = [e \in Devices |-> {closer'[q].pid : q \in D(e)}]
  BY DEF closing, Closers
<1>8. closing = [e \in Devices |-> {closer[q].pid : q \in C(e)}]
  BY DEF closing, Closers
<1> HIDE DEF x, C, D
<1> QED BY <1>5, <1>6, <1>7, <1>8 DEF x

\* A step that touches one device moves the abstract state of that device only.
LEMMA OneDeviceMoves ==
  ASSUME NEW d \in Devices, \A e \in Devices \ {d} : SameAt(e)
  PROVE  /\ acquisition' = [acquisition EXCEPT ![d] = acquisition'[d]]
         /\ owner' = [owner EXCEPT ![d] = owner'[d]]
<1>1. acquisition' = [acquisition EXCEPT ![d] = acquisition'[d]]
  <2>1. \A e \in Devices \ {d} : acquisition'[e] = acquisition[e]
    BY DEF acquisition, SameAt
  <2>2. acquisition = [e \in Devices |-> acquisition[e]]
    BY DEF acquisition
  <2>3. acquisition' = [e \in Devices |-> acquisition'[e]]
    BY DEF acquisition
  <2> HIDE DEF acquisition
  <2> QED BY <2>1, <2>2, <2>3
<1>2. owner' = [owner EXCEPT ![d] = owner'[d]]
  <2>1. \A e \in Devices \ {d} : owner'[e] = owner[e]
    BY DEF owner, SameAt
  <2>2. owner = [e \in Devices |-> owner[e]]
    BY DEF owner
  <2>3. owner' = [e \in Devices |-> owner'[e]]
    BY DEF owner
  <2> HIDE DEF owner
  <2> QED BY <2>1, <2>2, <2>3
<1> QED BY <1>1, <1>2

\* A redirection in the set is not destroyed by the release of another holder.
LEMMA ReleaseStutter ==
  ASSUME IInv, NEW r \in Redirs, ReleaseRedirection(r), UNCHANGED entries,
         HeldByCtl(r) \/ \E p \in Pdos : closer[p].redir = r
  PROVE  \A d \in Devices : SameAt(d)
<1>1. redir \in [Redirs -> CUsbDkRedirection] /\ entries \in [Devices -> Redirs \cup {NoRedir}]
  BY DEF IInv, Types
<1>2. ASSUME NEW d \in Devices, entries[d] = r
      PROVE  redir[r].refs # 1
  BY <1>2 DEF IInv, RefCountsExact, RedirectionRefs, One
<1>3. ASSUME NEW d \in Devices, entries[d] # NoRedir
      PROVE  /\ redir'[entries[d]].ownerPid = redir[entries[d]].ownerPid
             /\ redir'[entries[d]].removalInProgress = redir[entries[d]].removalInProgress
  <2>1. CASE redir[r].refs = 1
    <3>1. redir' = [redir EXCEPT ![r] = FreeRedirection] /\ entries[d] # r
      BY <1>2, <2>1 DEF ReleaseRedirection
    <3> QED BY <1>1, <3>1
  <2>2. CASE redir[r].refs # 1
    <3>1. redir' = [redir EXCEPT ![r].refs = @ - 1]
      BY <2>2 DEF ReleaseRedirection
    <3> QED BY <1>1, <1>3, <3>1 DEF CUsbDkRedirection
  <2> QED BY <2>1, <2>2
<1> QED BY <1>3 DEF SameAt

\* Deleting an entry leaves the entries of the other devices as they are.
LEMMA DeleteOthers ==
  ASSUME IInv, NEW d \in Devices, entries[d] # NoRedir, DeleteEntry(d)
  PROVE  entries' = [entries EXCEPT ![d] = NoRedir] /\ \A e \in Devices \ {d} : SameAt(e)
<1>1. redir \in [Redirs -> CUsbDkRedirection] /\ entries \in [Devices -> Redirs \cup {NoRedir}]
  BY DEF IInv, Types
<1>2. entries' = [entries EXCEPT ![d] = NoRedir] /\ ReleaseRedirection(entries[d])
  BY DEF DeleteEntry
<1>3. \A s \in Redirs \ {entries[d]} : redir'[s] = redir[s]
  BY <1>1, <1>2 DEF ReleaseRedirection
<1>4. \A e \in Devices \ {d} : entries[e] # entries[d]
  BY DEF IInv, RefCountsExact, RedirectionRefs
<1> QED BY <1>1, <1>2, <1>3, <1>4 DEF SameAt

-----------------------------------------------------------------------------
\* AddRedirect requests the device, or finds that somebody else did.
LEMMA AddToSetOwnership ==
  ASSUME IInv, AddToSet, closing' = closing
  PROVE  [Ownership!Next]_Ownership!vars
<1>1. /\ redir \in [Redirs -> CUsbDkRedirection] /\ ctl.dev \in Devices
      /\ entries \in [Devices -> Redirs \cup {NoRedir}]
  BY DEF IInv, Types, CtlInv, AddToSet
<1>2. CASE UNCHANGED <<entries, redir>>
  BY <1>2, OwnershipStutter DEF SameAt, Ownership!vars
<1>3. CASE /\ entries[ctl.dev] = NoRedir
           /\ \E r \in Redirs : /\ redir[r].refs = 0
                                /\ redir' = [redir EXCEPT ![r] = NewRedirection]
                                /\ entries' = [entries EXCEPT ![ctl.dev] = r]
  <2> PICK d \in Devices : d = ctl.dev
    BY <1>1
  <2>1. PICK r \in Redirs : /\ redir[r].refs = 0
                            /\ redir' = [redir EXCEPT ![r] = NewRedirection]
                            /\ entries' = [entries EXCEPT ![d] = r]
    BY <1>3
  <2>2. \A e \in Devices : entries[e] # r
    BY <2>1 DEF IInv, RefCountsExact, RedirectionRefs, HeldByCtl, One
  <2>3. \A e \in Devices \ {d} : SameAt(e)
    BY <1>1, <2>1, <2>2 DEF SameAt
  <2>4. acquisition[d] = "free" /\ acquisition'[d] = "requested"
    BY <1>1, <1>3, <2>1, Nulls, RedirectionAssumption DEF acquisition
  <2>5. owner'[d] = owner[d]
    BY <1>1, <1>3, <2>1, Nulls, RedirectionAssumption DEF owner
  <2>6. owner' = owner
    <3>1. owner = [owner EXCEPT ![d] = owner[d]]
      BY DEF owner
    <3> QED BY <2>3, <2>5, <3>1, OneDeviceMoves
  <2>7. Ownership!Request(d)
    BY <2>3, <2>4, <2>6, OneDeviceMoves DEF Ownership!Request, Ownership!Move
  <2> QED BY <2>7 DEF Ownership!Next
<1> QED BY <1>2, <1>3 DEF AddToSet

\* SetOwnerPid grants the request it belongs to.
LEMMA SetOwnerPidOwnership ==
  ASSUME IInv, SetOwnerPid, closing' = closing
  PROVE  [Ownership!Next]_Ownership!vars
<1>1. /\ redir \in [Redirs -> CUsbDkRedirection] /\ ctl.dev \in Devices /\ ctl.pid \in Pids
      /\ entries \in [Devices -> Redirs \cup {NoRedir}] /\ ctl.redir \in Redirs
      /\ entries[ctl.dev] = ctl.redir /\ redir[ctl.redir].ownerPid = NoPid
      /\ ~redir[ctl.redir].removalInProgress
  BY DEF IInv, Types, CtlInv, SetOwnerPid, Acquiring, IsPreparedForRemove
<1> PICK d \in Devices, r \in Redirs, pid \in Pids :
        d = ctl.dev /\ r = ctl.redir /\ pid = ctl.pid
  BY <1>1
<1>2. redir' = [redir EXCEPT ![r].ownerPid = pid] /\ UNCHANGED entries
  BY DEF SetOwnerPid
<1>3. \A e \in Devices \ {d} : entries[e] # r
  BY <1>1, RedirectionAssumption DEF IInv, RefCountsExact, RedirectionRefs
<1>4. \A e \in Devices \ {d} : SameAt(e)
  BY <1>1, <1>2, <1>3 DEF SameAt
<1>5. redir'[r].ownerPid = pid /\ ~redir'[r].removalInProgress
  BY <1>1, <1>2 DEF CUsbDkRedirection
<1>6. acquisition[d] = "requested" /\ acquisition'[d] = "owned"
  BY <1>1, <1>2, <1>5, RedirectionAssumption DEF acquisition
<1>7. owner'[d] = pid
  BY <1>1, <1>2, <1>5, RedirectionAssumption DEF owner
<1>8. Ownership!Grant(d, pid)
  BY <1>4, <1>6, <1>7, OneDeviceMoves DEF Ownership!Grant, Ownership!Move
<1> QED BY <1>8 DEF Ownership!Next

\* A roll-back withdraws the request.
LEMMA AddRedirectRollBackOwnership ==
  ASSUME IInv, AddRedirectRollBack, closing' = closing
  PROVE  [Ownership!Next]_Ownership!vars
<1>1. /\ redir \in [Redirs -> CUsbDkRedirection] /\ ctl.dev \in Devices
      /\ entries \in [Devices -> Redirs \cup {NoRedir}] /\ ctl.redir \in Redirs
      /\ entries[ctl.dev] = ctl.redir /\ redir[ctl.redir].ownerPid = NoPid
      /\ ~redir[ctl.redir].removalInProgress
  BY DEF IInv, Types, CtlInv, AddRedirectRollBack, Acquiring, IsPreparedForRemove
<1> PICK d \in Devices : d = ctl.dev
  BY <1>1
<1>2. entries[d] # NoRedir /\ DeleteEntry(d)
  BY <1>1, RedirectionAssumption DEF AddRedirectRollBack
<1>3. entries' = [entries EXCEPT ![d] = NoRedir] /\ \A e \in Devices \ {d} : SameAt(e)
  BY <1>2, DeleteOthers
<1>4. acquisition[d] = "requested" /\ acquisition'[d] = "free"
  BY <1>1, <1>2, <1>3 DEF acquisition
<1>5. owner'[d] = owner[d]
  BY <1>1, <1>2, <1>3 DEF owner
<1>6. owner' = owner
  <2>1. owner = [owner EXCEPT ![d] = owner[d]]
    BY DEF owner
  <2> QED BY <1>3, <1>5, <2>1, OneDeviceMoves
<1>7. Ownership!Withdraw(d)
  BY <1>3, <1>4, <1>6, OneDeviceMoves DEF Ownership!Withdraw, Ownership!Move
<1> QED BY <1>7 DEF Ownership!Next

\* Only a close by the owning process begins the return.
LEMMA RemovalStartedOwnership ==
  ASSUME IInv, Next, NEW p \in Pdos, NotifyRedirectionRemovalStarted(p)
  PROVE  [Ownership!Next]_Ownership!vars
<1>1. redir \in [Redirs -> CUsbDkRedirection] /\ entries \in [Devices -> Redirs \cup {NoRedir}]
  BY DEF IInv, Types
<1>m. CloserAt(p, "match")
  BY DEF NotifyRedirectionRemovalStarted
<1>2. /\ filter[p].id \in Devices /\ entries[filter[p].id] # NoRedir
      /\ ~IsPreparedForRemove(entries[filter[p].id])
  BY <1>m DEF IInv, HandleInv
<1>3. closer[p].pid \in Pids
  BY <1>m DEF IInv, CloserInv
<1> PICK d \in Devices, r \in Redirs : d = filter[p].id /\ r = entries[d]
  BY <1>1, <1>2
<1>d. entries[d] = r /\ r # NoRedir /\ ~redir[r].removalInProgress
  BY <1>2 DEF IsPreparedForRemove
<1>c. closer \in [Pdos -> OnCloseCall]
  BY DEF IInv, Types
<1>4. CASE UNCHANGED <<entries, redir>> /\ closer' = [closer EXCEPT ![p] = IdleCloser]
  <2>1. \A q \in Pdos : SameClose(q)
    BY <1>c, <1>m, <1>4, Nulls DEF SameClose
  <2> QED BY <1>4, <2>1, OwnershipStutter, ClosingStutter DEF SameAt, Ownership!vars
<1>5. CASE /\ MatchProcess(r, closer[p].pid) /\ UNCHANGED entries
           /\ closer' = [closer EXCEPT ![p].pc = "find"]
           /\ redir' = [redir EXCEPT ![r].removalInProgress = TRUE,
                                     ![r].redirectorDevice = NoPdo,
                                     ![r].created = FALSE]
  <2>1. /\ redir'[r].removalInProgress /\ redir'[r].ownerPid = redir[r].ownerPid
        /\ \A s \in Redirs \ {r} : redir'[s] = redir[s]
    <3> DEFINE x == [redir[r] EXCEPT !.removalInProgress = TRUE,
                                     !.redirectorDevice = NoPdo, !.created = FALSE]
    <3>1. redir[r] \in CUsbDkRedirection
      BY <1>1
    <3>2. x.removalInProgress /\ x.ownerPid = redir[r].ownerPid
      BY <3>1 DEF CUsbDkRedirection
    <3>3. redir' = [redir EXCEPT ![r] = x]
      BY <1>1, <1>5
    <3> HIDE DEF x
    <3> QED BY <1>1, <3>2, <3>3
  <2>2. \A e \in Devices \ {d} : entries[e] # r
    <3>1. \A a, e \in Devices : entries[a] = entries[e] /\ entries[a] # NoRedir => a = e
      BY DEF IInv, RefCountsExact, RedirectionRefs
    <3> QED BY <1>d, <3>1
  <2>3. \A e \in Devices \ {d} : SameAt(e)
    <3>1. \A e \in Devices \ {d} : entries[e] # NoRedir => redir'[entries[e]] = redir[entries[e]]
      BY <1>1, <2>1, <2>2
    <3>2. UNCHANGED entries
      BY <1>5
    <3> QED BY <3>1, <3>2 DEF SameAt
  <2>4. redir[r].ownerPid # NoPid
    BY <1>3, <1>5, RedirectionAssumption DEF MatchProcess
  <2>5. acquisition[d] = "owned" /\ acquisition'[d] = "returning"
    BY <1>d, <1>5, <2>1, <2>4 DEF acquisition
  <2>6. owner'[d] = owner[d]
    BY <1>d, <1>5, <2>1 DEF owner
  <2>7. owner' = owner
    <3>1. owner = [owner EXCEPT ![d] = owner[d]]
      BY DEF owner
    <3> QED BY <2>3, <2>6, <3>1, OneDeviceMoves
  <2>8. closing' = [closing EXCEPT ![d] = {closer[p].pid}]
    <3>1. closer'[p].pc = "find" /\ closer'[p].pid = closer[p].pid /\ \A q \in Pdos \ {p} : closer'[q] = closer[q]
      BY <1>c, <1>5 DEF OnCloseCall
    <3>2. \A q \in Pdos : closer[q].pc \in Removing => filter[q].id # d
      BY <1>d DEF IInv, CloserInv
    <3>3. filter[p].live
      BY <1>m DEF IInv, HandleInv
    <3> QED BY <1>m, <3>1, <3>2, <3>3, OneCloserMoves DEF SameClose
  <2>9. owner[d] = closer[p].pid
    BY <1>d, <1>5 DEF owner, MatchProcess
  <2>10. Ownership!BeginReturn(d, closer[p].pid)
    BY <2>3, <2>5, <2>7, <2>8, <2>9, OneDeviceMoves DEF Ownership!BeginReturn, Ownership!Move
  <2> QED BY <1>3, <2>10 DEF Ownership!Next
<1> QED BY <1>4, <1>5 DEF NotifyRedirectionRemovalStarted

\* A close that gives its device back is the only one to do so, and it ends.
LEMMA CloseEnds ==
  ASSUME IInv, Next, NEW p \in Pdos, NEW d \in Devices, filter[p].id = d, closer[p].pc \in Removing,
         closer' = [closer EXCEPT ![p] = IdleCloser]
  PROVE  closing[d] # {} /\ closing' = [closing EXCEPT ![d] = {}]
<1>1. closer \in [Pdos -> OnCloseCall]
  BY DEF IInv, Types
<1>2. closer'[p].pc \notin Removing /\ \A q \in Pdos \ {p} : closer'[q] = closer[q]
  BY <1>1, Nulls
<1>3. \A q \in Pdos \ {p} : closer[q].pc \in Removing => filter[q].id # d
  BY DEF IInv, CloserInv
<1>4. filter[p].live
  BY DEF IInv, CloserInv
<1>5. closing' = [closing EXCEPT ![d] = {}]
  <2>1. \A q \in Pdos \ {p} : SameClose(q) /\ (closer[q].pc \in Removing => filter[q].id # d)
    BY <1>2, <1>3 DEF SameClose
  <2>2. closer[p].pc # "idle"
    OBVIOUS
  <2>3. closing' = [closing EXCEPT ![d] = IF closer'[p].pc \in Removing THEN {closer'[p].pid} ELSE {}]
    BY <1>4, <2>1, <2>2, OneCloserMoves DEF SameClose
  <2> QED BY <1>2, <2>3
<1>6. closing[d] # {}
  <2>1. closer[p].pid \in {closer[q].pid : q \in Closers(d)}
    BY DEF Closers
  <2>2. closing[d] = {closer[q].pid : q \in Closers(d)}
    BY DEF closing
  <2> QED BY <2>1, <2>2
<1> QED BY <1>5, <1>6

\* A close may also end without having returned its device.
LEMMA GiveUpOwnership ==
  ASSUME IInv, Next, NEW p \in Pdos, closer[p].pc \in Removing,
         closer' = [closer EXCEPT ![p] = IdleCloser], \A d \in Devices : SameAt(d)
  PROVE  [Ownership!Next]_Ownership!vars
<1>1. /\ filter[p].id \in Devices /\ entries[filter[p].id] # NoRedir
      /\ redir[entries[filter[p].id]].removalInProgress
  BY DEF IInv, CloserInv
<1> PICK d \in Devices : d = filter[p].id
  BY <1>1
<1>2. acquisition[d] = "returning"
  BY <1>1 DEF acquisition
<1>3. Ownership!GiveUp(d)
  BY <1>2, OwnershipStutter, CloseEnds DEF Ownership!GiveUp
<1> QED BY <1>3 DEF Ownership!Next

\* The close that began the return ends it.
LEMMA RemoveEntryOwnership ==
  ASSUME IInv, Next, NEW p \in Pdos, RemoveEntry(p)
  PROVE  [Ownership!Next]_Ownership!vars
<1>1. redir \in [Redirs -> CUsbDkRedirection] /\ entries \in [Devices -> Redirs \cup {NoRedir}]
  BY DEF IInv, Types
<1>2. /\ filter[p].id \in Devices /\ entries[filter[p].id] # NoRedir
      /\ redir[entries[filter[p].id]].removalInProgress
  BY DEF IInv, CloserInv, RemoveEntry, Removing, CloserAt, IsPreparedForRemove
<1> PICK d \in Devices : d = filter[p].id
  BY <1>2
<1>3. entries' = [entries EXCEPT ![d] = NoRedir] /\ \A e \in Devices \ {d} : SameAt(e)
  BY <1>2, DeleteOthers DEF RemoveEntry
<1>4. acquisition[d] = "returning" /\ acquisition'[d] = "free"
  BY <1>1, <1>2, <1>3 DEF acquisition
<1>5. owner'[d] = NoPid
  BY <1>1, <1>3 DEF owner
<1>6. closing[d] # {} /\ closing' = [closing EXCEPT ![d] = {}]
  BY CloseEnds DEF RemoveEntry
<1>7. Ownership!Return(d)
  BY <1>3, <1>4, <1>5, <1>6, OneDeviceMoves DEF Ownership!Return, Ownership!Move
<1> QED BY <1>7 DEF Ownership!Next

-----------------------------------------------------------------------------
\* The steps of the PnP worker say nothing about who owns a device.
LEMMA PnpOwnership ==
  ASSUME IInv, NEW d \in Devices, Plug(d) \/ Unplug(d) \/ PnpStep(d)
  PROVE  \A e \in Devices : SameAt(e)
<1>1. redir \in [Redirs -> CUsbDkRedirection] /\ entries \in [Devices -> Redirs \cup {NoRedir}]
  BY DEF IInv, Types
<1>2. CASE UNCHANGED <<entries, redir>>
  BY <1>2 DEF SameAt
<1>3. ASSUME NEW r \in Redirs, redir' = [redir EXCEPT ![r].removed = TRUE], UNCHANGED entries
      PROVE  \A e \in Devices : SameAt(e)
  BY <1>1, <1>3 DEF SameAt, CUsbDkRedirection
<1>4. ASSUME NEW r \in Redirs, NEW p, NotifyRedirectorCreated(r, p), UNCHANGED entries
      PROVE  \A e \in Devices : SameAt(e)
  BY <1>1, <1>4 DEF SameAt, CUsbDkRedirection, NotifyRedirectorCreated
<1>5. CASE NotifyRedirectionRemoved(d)
  BY <1>1, <1>2, <1>3, <1>5 DEF NotifyRedirectionRemoved
<1>6. CASE MakeAvailable(d)
  <2>1. pnp[d].pc = "start" => filter[pnp[d].pdo].id = d
    BY DEF IInv, FreshInv
  <2> QED BY <1>1, <1>2, <1>4, <1>6, <2>1 DEF MakeAvailable
<1> QED BY <1>2, <1>5, <1>6 DEF Plug, Unplug, PnpStep, QueryDeviceRelations,
        DropRemovedDevices, RegisterNewChild, ApplyRedirectionPolicy, AddDevice

\* A new reference says nothing about the owner either.
LEMMA ReferenceStutter ==
  ASSUME IInv, NEW r \in Redirs, redir' = [redir EXCEPT ![r].refs = @ + 1], UNCHANGED entries
  PROVE  \A d \in Devices : SameAt(d)
<1>1. redir \in [Redirs -> CUsbDkRedirection] /\ entries \in [Devices -> Redirs \cup {NoRedir}]
  BY DEF IInv, Types
<1> QED BY <1>1 DEF SameAt, CUsbDkRedirection

\* The steps of the control queue request, grant, withdraw or stutter.
LEMMA CtlOwnership ==
  ASSUME IInv, CtlStep \/ PowerRequestCompletion, closing' = closing
  PROVE  [Ownership!Next]_Ownership!vars
<1>1. CASE UNCHANGED <<entries, redir>>
  BY <1>1, OwnershipStutter DEF SameAt, Ownership!vars
<1>2. CASE TakeReference
  <2>1. ctl.redir \in Redirs
    BY <1>2 DEF IInv, CtlInv, TakeReference
  <2>2. \A d \in Devices : SameAt(d)
    BY <1>2, <2>1, ReferenceStutter DEF TakeReference
  <2> QED BY <2>2, OwnershipStutter DEF Ownership!vars
<1>3. CASE ReturnFromAddRedirect
  <2>1. ctl.redir \in Redirs /\ HeldByCtl(ctl.redir)
    BY <1>3 DEF IInv, CtlInv, ReturnFromAddRedirect, HeldByCtl
  <2>2. \A d \in Devices : SameAt(d)
    BY <1>3, <2>1, ReleaseStutter DEF ReturnFromAddRedirect
  <2> QED BY <2>2, OwnershipStutter DEF Ownership!vars
<1>4. CASE AddToSet \/ SetOwnerPid \/ AddRedirectRollBack
  BY <1>4, AddToSetOwnership, SetOwnerPidOwnership, AddRedirectRollBackOwnership
<1> QED BY <1>1, <1>2, <1>3, <1>4 DEF CtlStep, FindDevice, CyclePort, WaitForAttachment,
        CreateRedirectorHandle, DuplicateFailed, RollBackFindDevice, RollBackCyclePort, PowerRequestCompletion

\* The steps of a close begin or end the return, or stutter.
LEMMA CloserOwnership ==
  ASSUME IInv, Next, NEW p \in Pdos, CloseHandle(p) \/ CloserStep(p) \/ RemoveStack(p)
  PROVE  [Ownership!Next]_Ownership!vars
<1>c. closer \in [Pdos -> OnCloseCall]
  BY DEF IInv, Types
<1>1. ASSUME \A d \in Devices : SameAt(d), \A q \in Pdos : SameClose(q)
      PROVE  [Ownership!Next]_Ownership!vars
  BY <1>1, OwnershipStutter, ClosingStutter DEF Ownership!vars
<1>2. CASE LookupRedirection(p)
  <2>0. PICK r \in Redirs : r = entries[filter[p].id] /\ r # NoRedir
    BY <1>2 DEF IInv, Types, CloserInv, LookupRedirection
  <2>1. redir' = [redir EXCEPT ![r].refs = @ + 1] /\ UNCHANGED entries
    BY <1>2, <2>0 DEF LookupRedirection
  <2>2. \A d \in Devices : SameAt(d)
    BY <2>1, ReferenceStutter
  <2>3. closer' = [closer EXCEPT ![p] = [@ EXCEPT !.pc = "wait", !.redir = r]]
    BY <1>2, <2>0 DEF LookupRedirection
  <2>4. \A q \in Pdos : SameClose(q)
    <3> DEFINE x == [closer[p] EXCEPT !.pc = "wait", !.redir = r]
    <3>1. closer[p] \in OnCloseCall /\ closer[p].pc = "lookup"
      BY <1>c, <1>2 DEF LookupRedirection
    <3>2. x.pc = "wait" /\ x.pid = closer[p].pid
      BY <3>1 DEF OnCloseCall
    <3>3. closer' = [closer EXCEPT ![p] = x]
      BY <2>3
    <3> HIDE DEF x
    <3> QED BY <1>c, <3>1, <3>2, <3>3 DEF SameClose
  <2> QED BY <1>1, <2>2, <2>4
<1>3. CASE WaitForDetachment(p)
  <2>1. closer[p].redir \in Redirs /\ closer[p].pc = "wait"
    BY <1>3 DEF IInv, Types, CloserInv, WaitForDetachment
  <2>2. \A d \in Devices : SameAt(d)
    BY <1>3, <2>1, ReleaseStutter DEF WaitForDetachment
  <2>3. CASE closer' = [closer EXCEPT ![p].pc = "delete", ![p].redir = NoRedir]
    <3>1. \A q \in Pdos : SameClose(q)
      BY <1>c, <2>1, <2>3 DEF SameClose, OnCloseCall
    <3> QED BY <1>1, <2>2, <3>1
  <2>4. CASE closer' = [closer EXCEPT ![p] = IdleCloser]
    BY <2>1, <2>2, <2>4, GiveUpOwnership
  <2> QED BY <1>3, <2>3, <2>4 DEF WaitForDetachment
<1>4. CASE NotifyRedirectionRemovalStarted(p) \/ RemoveEntry(p)
  BY <1>4, RemovalStartedOwnership, RemoveEntryOwnership
<1>5. CASE RemoveRedirectFails(p)
  <2>1. \A d \in Devices : SameAt(d)
    BY <1>5 DEF RemoveRedirectFails, SameAt
  <2> QED BY <1>5, <2>1, GiveUpOwnership DEF RemoveRedirectFails
<1>6. CASE CloserFindDevice(p) \/ CloserCyclePort(p)
  <2>1. \A d \in Devices : SameAt(d)
    BY <1>6 DEF CloserFindDevice, CloserCyclePort, SameAt
  <2>2. closer[p].pc \in Removing
    BY <1>6 DEF CloserFindDevice, CloserCyclePort
  <2>3. \E pc \in Removing : \E x : closer' = [closer EXCEPT ![p].pc = pc, ![p].pdo = x]
    BY <1>6 DEF CloserFindDevice, CloserCyclePort
  <2>4. \A q \in Pdos : SameClose(q)
    BY <1>c, <2>2, <2>3 DEF SameClose, OnCloseCall
  <2> QED BY <1>1, <2>1, <2>4
<1>7. CASE CloseHandle(p)
  <2>1. \A d \in Devices : SameAt(d)
    BY <1>7 DEF CloseHandle, SameAt
  <2>2. closer[p].pc = "idle"
    BY <1>7 DEF IInv, HandleInv, CloseHandle
  <2>3. \E pid : closer' = [closer EXCEPT ![p].pc = "match", ![p].pid = pid]
    BY <1>7 DEF CloseHandle
  <2>4. \A q \in Pdos : SameClose(q)
    BY <1>c, <2>2, <2>3 DEF SameClose, OnCloseCall
  <2> QED BY <1>1, <2>1, <2>4
<1>8. CASE RemoveStack(p)
  BY <1>1, <1>8 DEF RemoveStack, SameAt, SameClose
<1> QED BY <1>2, <1>3, <1>4, <1>5, <1>6, <1>7, <1>8 DEF CloserStep

\* The control queue starts a close only for a handle it could not duplicate,
\* whose device is not being given back.
LEMMA CtlClosing ==
  ASSUME IInv, Next, CtlStep \/ PowerRequestCompletion
  PROVE  closing' = closing
<1>1. CASE closer' = closer
  BY <1>1, ClosingStutter DEF SameClose
<1>2. CASE CreateRedirectorHandle /\ closer' # closer
  <2>1. PICK p : /\ p = redir[ctl.redir].redirectorDevice
                 /\ closer' = [closer EXCEPT ![p].pc = "match", ![p].pid = ctl.pid]
    BY <1>2 DEF CreateRedirectorHandle
  <2>2. /\ closer \in [Pdos -> OnCloseCall] /\ p \in Pdos /\ ctl.dev \in Devices
        /\ entries[ctl.dev] = ctl.redir /\ ctl.redir # NoRedir /\ ~IsPreparedForRemove(ctl.redir)
    BY <1>2, <2>1, RedirectionAssumption DEF IInv, Types, CUsbDkRedirection, CtlInv, CreateRedirectorHandle
  <2>3. filter[p].id = ctl.dev
    BY <2>1, <2>2, RedirectionAssumption DEF IInv, PlaceInv
  <2>4. closer[p].pc \notin Removing
    BY <2>2, <2>3 DEF IInv, CloserInv
  <2>5. \A q \in Pdos : SameClose(q)
    BY <2>1, <2>2, <2>4 DEF SameClose, OnCloseCall
  <2> QED BY <2>5, ClosingStutter
<1> QED BY <1>1, <1>2 DEF CtlStep, PowerRequestCompletion, AddToSet, TakeReference, FindDevice, CyclePort,
        WaitForAttachment, DuplicateFailed, SetOwnerPid, AddRedirectRollBack, RollBackFindDevice,
        RollBackCyclePort, ReturnFromAddRedirect

\* Nobody owns anything at first.
LEMMA InitOwnership == Init => Ownership!Init
<1> SUFFICES ASSUME Init PROVE Ownership!Init
  OBVIOUS
<1>1. acquisition = [d \in Devices |-> "free"]
  BY DEF Init, acquisition
<1>2. owner = [d \in Devices |-> NoPid]
  BY DEF Init, owner
<1>3. closing = [d \in Devices |-> {}]
  <2>1. \A d \in Devices : Closers(d) = {}
    BY Nulls DEF Init, Closers
  <2> QED BY <2>1 DEF closing
<1> QED BY <1>1, <1>2, <1>3 DEF Ownership!Init

\* Every step of the driver is a step of DeviceOwnership, or none.
LEMMA NextOwnership == IInv /\ [Next]_vars => [Ownership!Next]_Ownership!vars
<1> SUFFICES ASSUME IInv, [Next]_vars PROVE [Ownership!Next]_Ownership!vars
  OBVIOUS
<1>1. CASE UNCHANGED vars
  BY <1>1 DEF vars, Ownership!vars, acquisition, owner, closing, Closers
<1>2. CASE Next
  <2> USE <1>2
  <2>1. ASSUME \A d \in Devices : SameAt(d), UNCHANGED closer
        PROVE  [Ownership!Next]_Ownership!vars
    BY <2>1, OwnershipStutter, ClosingStutter DEF SameClose, Ownership!vars
  <2>2. ASSUME NEW d \in Devices, Plug(d) \/ Unplug(d) \/ PnpStep(d)
        PROVE  UNCHANGED closer
    BY <2>2 DEF Plug, Unplug, PnpStep, QueryDeviceRelations, DropRemovedDevices, NotifyRedirectionRemoved,
                RegisterNewChild, ApplyRedirectionPolicy, AddDevice, MakeAvailable
  <2>3. ASSUME NEW d \in Devices, Plug(d) \/ Unplug(d) \/ PnpStep(d)
        PROVE  [Ownership!Next]_Ownership!vars
    BY <2>1, <2>2, <2>3, PnpOwnership
  <2>4. ASSUME NEW d \in Devices, NEW pid \in Pids, AddRedirect(d, pid)
        PROVE  [Ownership!Next]_Ownership!vars
    BY <2>1, <2>4 DEF AddRedirect, SameAt
  <2>5. CASE CtlStep \/ PowerRequestCompletion
    BY <2>5, CtlClosing, CtlOwnership
  <2>6. ASSUME NEW p \in Pdos, CloseHandle(p) \/ CloserStep(p) \/ RemoveStack(p)
        PROVE  [Ownership!Next]_Ownership!vars
    BY <2>6, CloserOwnership
  <2> QED BY <2>3, <2>4, <2>5, <2>6 DEF Next
<1> QED BY <1>1, <1>2

\* The redirections of the driver implement DeviceOwnership: whatever the
\* interleaving, a device passes from client to client only by way of a request
\* that was granted, of a return that a close in the name of its owner began, and
\* of the end of that very close.
THEOREM ImplementsOwnership == Spec => OwnershipSpec
<1>1. Init => Ownership!Init
  BY InitOwnership
<1>2. IInv /\ [Next]_vars => [Ownership!Next]_Ownership!vars
  BY NextOwnership
<1> QED BY <1>1, <1>2, Invariance, PTL DEF Spec, OwnershipSpec, Ownership!Spec
=============================================================================
