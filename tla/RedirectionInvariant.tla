------------------------- MODULE RedirectionInvariant -------------------------
(***************************************************************************)
(* The inductive invariant of Redirection: why the threads of the driver   *)
(* do not step on one another although most of their steps hold no lock.   *)
(***************************************************************************)
EXTENDS Redirection

\* While AddRedirect works on its entry nobody else can take the entry away:
\* it has no owner yet, so no close matches it.
Acquiring == {"ref", "find", "power", "cycle", "attach", "open", "dup", "own", "rollback"}

CtlInv ==
    /\ ctl.pc # "idle" => ctl.dev \in Devices /\ ctl.pid \in Pids
    /\ ctl.pc \notin {"idle", "add"} => ctl.redir \in Redirs
    /\ ctl.pc \in Acquiring =>
          /\ entries[ctl.dev] = ctl.redir
          /\ redir[ctl.redir].ownerPid = NoPid
          /\ ~IsPreparedForRemove(ctl.redir)
    /\ ctl.pc \in {"open", "dup", "own"} => IsRedirected(ctl.redir)

RedirInv ==
    \A r \in Redirs :
        /\ redir[r].refs = 0 => redir[r] = FreeRedirection
        /\ redir[r].created => IsRedirected(r)

\* A redirector sits over the device its redirection is for.
PlaceInv ==
    \A d \in Devices :
        entries[d] # NoRedir /\ IsRedirected(entries[d]) =>
            filter[redir[entries[d]].redirectorDevice].id = d

\* A filter is in the hands of a client, or of a close that did not look at the
\* redirections yet, only while it is the redirector of its device.
HandleInv ==
    \A p \in Pdos : handle[p] # NoPid \/ CloserAt(p, "match") =>
        LET d == filter[p].id
        IN /\ handle[p] # NoPid => CloserAt(p, "idle")
           /\ filter[p].live /\ d \in Devices
           /\ entries[d] # NoRedir
           /\ redir[entries[d]].redirectorDevice = p
           /\ ~IsPreparedForRemove(entries[d])
           /\ redir[entries[d]].ownerPid = NoPid =>
                 /\ ctl.redir = entries[d]
                 /\ ctl.pc = IF CloserAt(p, "match") THEN "dup" ELSE "own"
                 /\ CloserAt(p, "match") => ctl.pdo = p

\* From then on the entry is being removed, by this close alone.
CloserInv ==
    \A p \in Pdos :
        LET d == filter[p].id
        IN /\ CloserAt(p, "match") => closer[p].pid \in Pids
           /\ closer[p].redir = IF CloserAt(p, "wait") THEN entries[d] ELSE NoRedir
           /\ closer[p].pc \in Removing =>
                 /\ filter[p].live /\ d \in Devices
                 /\ entries[d] # NoRedir /\ IsPreparedForRemove(entries[d])
                 /\ \A q \in Pdos : closer[q].pc \in Removing /\ filter[q].id = d => q = p
           /\ CloserAt(p, "cycle") =>
                 /\ closer[p].pdo # NoPdo
                 /\ bus[d] = closer[p].pdo => child[d] = closer[p].pdo

\* PDOs are never shared between devices.
Uses(d, p) == p \in {bus[d], child[d], pnp[d].pdo}

PdosInv == \A d, e \in Devices, p \in Pdos : Uses(d, p) /\ Uses(e, p) => d = e

PnpInv ==
    \A d \in Devices :
        LET p == pnp[d].pdo
        IN /\ pnp[d].pc = "drop" => child[d] \notin {NoPdo, bus[d], p}
           /\ pnp[d].pc \in {"notify", "register"} => child[d] = NoPdo
           /\ pnp[d].pc \in {"register", "policy", "adddevice", "start"} => p # NoPdo
           /\ pnp[d].pc \in {"policy", "adddevice", "start"} => child[d] = p
           /\ pnp[d].pc = "idle" => p = NoPdo

\* A PDO that did not get as far as AddDevice has no filter, and the filter on
\* its way to MakeAvailable is the redirector of nobody yet.
FreshInv ==
    \A d \in Devices :
        LET p == pnp[d].pdo
        IN /\ bus[d] \notin {NoPdo, child[d], p} => filter[bus[d]] = NoFilter
           /\ p # NoPdo /\ pnp[d].pc # "start" => filter[p] = NoFilter
           /\ pnp[d].pc = "start" =>
                 /\ filter[p].live /\ filter[p].id = d
                 /\ \A r \in Redirs : redir[r].redirectorDevice # p
                 /\ filter[p].strategy = "redirector" /\ entries[d] # NoRedir =>
                       ~IsRedirected(entries[d]) /\ ~IsPreparedForRemove(entries[d])

IInv ==
    /\ Types /\ RefCountsExact /\ NoLostDetachment
    /\ CtlInv /\ RedirInv /\ PlaceInv /\ HandleInv /\ CloserInv
    /\ PdosInv /\ PnpInv /\ FreshInv
-----------------------------------------------------------------------------
(* Why devices are given back, where a port can always be cycled.          *)

\* The bus reports the device and a redirector sits on its PDO.
UnderRedirector(d) == bus[d] # NoPdo /\ filter[bus[d]].strategy = "redirector"

\* The reset of a rollback takes off the redirector that is there, and no other
\* comes: the entry is gone.
RollBackInv ==
    /\ ctl.withReset => ctl.pc \in {"rollback", "rbfind", "rbcycle", "release"}
    /\ ctl.pc \in {"rbfind", "rbcycle"} => ctl.withReset
    /\ ctl.withReset /\ ctl.pc # "rollback" => entries[ctl.dev] = NoRedir
    /\ ctl.pc = "rbcycle" /\ UnderRedirector(ctl.dev) => ctl.pdo = bus[ctl.dev]
    /\ ctl.pc = "release" /\ ctl.withReset => ~UnderRedirector(ctl.dev)

\* The reset of a close does the same: the entry is prepared for removal.
ReturningInv ==
    \A p \in Pdos, d \in Devices : filter[p].id = d =>
        /\ CloserAt(p, "cycle") /\ UnderRedirector(d) => closer[p].pdo = bus[d]
        /\ closer[p].pc \in {"lookup", "wait", "delete"} => ~UnderRedirector(d)
=============================================================================
