--------------------------- MODULE DeviceOwnership ---------------------------
(***************************************************************************)
(* What the control device promises about the acquisition of USB devices,  *)
(* whatever the threads of the driver do: a device is requested by one     *)
(* client at a time, belongs to one process until a close by that very     *)
(* process begins its return, and is free again only after the request was *)
(* withdrawn or that close has run its course.                             *)
(***************************************************************************)
CONSTANTS Devices, Pids, NoPid

VARIABLES
    acquisition,  \* "free", "requested", "owned" or "returning", by device
    owner,        \* the process that owns it, while it is owned or returning
    closing       \* the processes whose closes are giving it back

vars == <<acquisition, owner, closing>>

Init ==
    /\ acquisition = [d \in Devices |-> "free"]
    /\ owner = [d \in Devices |-> NoPid]
    /\ closing = [d \in Devices |-> {}]

Move(d, from, to) ==
    /\ acquisition[d] = from
    /\ acquisition' = [acquisition EXCEPT ![d] = to]

Request(d) == Move(d, "free", "requested") /\ UNCHANGED <<owner, closing>>

Grant(d, pid) ==
    /\ Move(d, "requested", "owned")
    /\ owner' = [owner EXCEPT ![d] = pid]
    /\ UNCHANGED closing

Withdraw(d) == Move(d, "requested", "free") /\ UNCHANGED <<owner, closing>>

\* Nobody but the owner lets a device go.
BeginReturn(d, pid) ==
    /\ Move(d, "owned", "returning")
    /\ owner[d] = pid
    /\ closing' = [closing EXCEPT ![d] = {pid}]
    /\ UNCHANGED owner

\* The close ends without having returned the device, which nobody can do then.
GiveUp(d) ==
    /\ acquisition[d] = "returning" /\ closing[d] # {}
    /\ closing' = [closing EXCEPT ![d] = {}]
    /\ UNCHANGED <<acquisition, owner>>

\* The close that began the return ends it.
Return(d) ==
    /\ closing[d] # {} /\ Move(d, "returning", "free")
    /\ owner' = [owner EXCEPT ![d] = NoPid]
    /\ closing' = [closing EXCEPT ![d] = {}]

Next ==
    \E d \in Devices :
        \/ Request(d) \/ Withdraw(d) \/ GiveUp(d) \/ Return(d)
        \/ \E pid \in Pids : Grant(d, pid) \/ BeginReturn(d, pid)

Spec == Init /\ [][Next]_vars
=============================================================================
