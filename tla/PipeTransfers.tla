---------------------------- MODULE PipeTransfers ----------------------------
(***************************************************************************)
(* The requests of a redirector. Reads and writes go through a parallel    *)
(* queue whose handlers send them to the USB target asynchronously; all    *)
(* other requests are forwarded from it to a sequential queue, whose       *)
(* thread aborts and resets pipes and changes alternate settings. A change *)
(* of the setting lets the parallel queue drain: it takes no new request   *)
(* until it is started again, and nobody waits for those it has or has     *)
(* delivered. The setting is selected meanwhile, and the array of pipes    *)
(* replaced under a lock that the handlers of transfers share.             *)
(*                                                                         *)
(* A request is completed by whoever owns it: the CWdfRequest object of a  *)
(* handler completes it when it goes out of scope, unless the request was  *)
(* detached because a queue or the target took it over.                    *)
(***************************************************************************)
EXTENDS Naturals, SequencesExt

CONSTANTS
    Requests,       \* requests (IRPs) clients reuse
    NumInterfaces,  \* m_NumInterfaces
    Settings,       \* alternate settings; 0 is the first one
    Endpoints,      \* endpoint addresses
    PipesOf,        \* the endpoints of an interface with a setting
    Operations,     \* what clients ask for with a request
    Silent,         \* endpoints the device may never answer on
    NoRequest, NoOperation, NoPipe,
    Faults          \* "preprocess", "lock", "enqueue", "forward", "send",
                    \* "input", "abort", "select", "pipes": such calls may fail

Interfaces == 0 .. NumInterfaces - 1

NullPipes == {NoPipe}  \* a null array

Codes == {"read", "write", "abort", "reset", "alt", "resetDevice", "other"}

TransferTypes == {"control", "bulk", "iso"}  \* bulk stands for interrupt, too

OperationType ==
    [code: Codes, type: TransferTypes, ep: Endpoints,
     iface: 0 .. NumInterfaces, setting: Settings]

ASSUME PipeTransfersAssumption ==
    /\ NumInterfaces \in Nat \ {0} /\ 0 \in Settings
    /\ PipesOf \in [Interfaces -> [Settings -> SUBSET Endpoints]]
    /\ Operations \in [Requests -> SUBSET OperationType]
    /\ NoRequest \notin Requests /\ NoOperation \notin OperationType
    /\ NoPipe \notin Endpoints \cup {"control"}

VARIABLES
    req,        \* the requests and who has them
    thread,     \* the handler of a read or write
    pipes,      \* m_Pipes of an interface, by endpoint address
    selected,   \* the setting the device has selected for an interface
    dataQueue,  \* m_IncomingDataQueue takes new requests or not
    waiting,    \* m_IncomingConfigQueue
    config      \* its thread

vars == <<req, thread, pipes, selected, dataQueue, waiting, config>>

Places == {"client", "dataQueue", "driver", "target", "configQueue", "config"}

RequestType == [op: OperationType \cup {NoOperation}, at: Places, aborted: BOOLEAN]

\* "crashed": the array of pipes was null, or the pipe was a deleted one
ThreadType == [pc: {"none", "search", "inPipe", "leave", "return", "crashed"},
               iface: 0 .. NumInterfaces, pipe: Endpoints \cup {NoPipe}, holds: BOOLEAN]

ConfigType == [pc: {"idle", "abort", "reset", "alt", "select", "replace",
                    "start", "resetDevice", "other", "crashed"},
               r: Requests \cup {NoRequest}, iface: 0 .. NumInterfaces, success: BOOLEAN]

NoThread == [pc |-> "none", iface |-> 0, pipe |-> NoPipe, holds |-> FALSE]

NewThread(pc) == [pc |-> pc, iface |-> 0, pipe |-> NoPipe, holds |-> TRUE]

IdleConfig == [pc |-> "idle", r |-> NoRequest, iface |-> 0, success |-> TRUE]

-----------------------------------------------------------------------------
(* CWdfUsbTarget::Create has selected the first setting of every interface. *)

IdleRequest == [op |-> NoOperation, at |-> "client", aborted |-> FALSE]

Init ==
    /\ req = [r \in Requests |-> IdleRequest]
    /\ thread = [r \in Requests |-> NoThread]
    /\ pipes = [i \in Interfaces |-> PipesOf[i][0]]
    /\ selected = [i \in Interfaces |-> 0]
    /\ dataQueue = "started"
    /\ waiting = <<>>
    /\ config = IdleConfig

IsTransfer(r) == req[r].op.code \in {"read", "write"}

Place(r, place) == req' = [req EXCEPT ![r].at = place]

\* ~CWdfRequest of an object that still has the request
Complete(r) == req' = [req EXCEPT ![r] = IdleRequest]

-----------------------------------------------------------------------------
(* The client's thread.                                                    *)

\* IoInCallerContextRW reads the parameters of a transfer and locks its buffers,
\* which may fail: wrong types and addresses are among what it finds.
IoInCallerContextRWFails(op) ==
    op.code \in {"read", "write"} /\ "lock" \in Faults

\* The request is enqueued, or completed at once, as a draining queue does.
IoInCallerContext(r, op) ==
    \/ /\ dataQueue = "started"
       /\ req' = [req EXCEPT ![r] = [op |-> op, at |-> "dataQueue", aborted |-> FALSE]]
    \/ /\ IoInCallerContextRWFails(op) \/ "enqueue" \in Faults \/ dataQueue = "draining"
       /\ Complete(r)

Ask(r) ==
    /\ req[r].at = "client" /\ thread[r].pc = "none"
    /\ \E op \in Operations[r] : IoInCallerContext(r, op)
    /\ UNCHANGED <<thread, pipes, selected, dataQueue, waiting, config>>

-----------------------------------------------------------------------------
(* The parallel queue and its handlers.                                    *)

\* Mutant: the request the target has taken over is not detached.
SendWithCompletion_NoDetach(r, next) ==
    /\ Place(r, "target")
    /\ thread' = [thread EXCEPT ![r].pc = next, ![r].holds = TRUE]

\* Mutant: the request is detached before the status of the send is known.
SendWithCompletion_DetachFirst(r, next) ==
    /\ \/ Place(r, "target")
       \/ "send" \in Faults /\ Place(r, "driver")
    /\ thread' = [thread EXCEPT ![r].pc = next, ![r].holds = FALSE]

\* SendWithCompletion detaches the request when the target takes it over; a
\* request that cannot be formatted or sent stays with its handler.
SendWithCompletion(r, next) ==
    \/ /\ Place(r, "target")
       /\ thread' = [thread EXCEPT ![r].pc = next, ![r].holds = FALSE]
    \/ /\ "send" \in Faults
       /\ Place(r, "driver")
       /\ thread' = [thread EXCEPT ![r].pc = next, ![r].holds = TRUE]

DoControlTransfer(r) == SendWithCompletion(r, "return")

\* The handler of a read or write up to its first use of the pipes. Short of
\* resources the framework may have skipped IoInCallerContext. The transfer
\* on the control pipe takes no lock.
StartTransfer(r) ==
    \/ /\ "preprocess" \in Faults
       /\ thread' = [thread EXCEPT ![r] = NewThread("return")]
       /\ Place(r, "driver")
    \/ req[r].op.type = "control" /\ DoControlTransfer(r)
    \/ /\ req[r].op.type # "control"
       /\ thread' = [thread EXCEPT ![r] = NewThread("search")]
       /\ Place(r, "driver")

\* Reads and writes are handled, the rest forwarded to the sequential queue. A
\* draining queue delivers what it has.
IoDeviceControl(r) ==
    /\ req[r].at = "dataQueue"
    /\ \/ IsTransfer(r) /\ StartTransfer(r) /\ UNCHANGED waiting
       \/ /\ ~IsTransfer(r)
          /\ Place(r, "configQueue")
          /\ waiting' = Append(waiting, r)
          /\ UNCHANGED thread
       \/ /\ ~IsTransfer(r) /\ "forward" \in Faults
          /\ Complete(r)
          /\ UNCHANGED <<thread, waiting>>
    /\ UNCHANGED <<pipes, selected, dataQueue, config>>

\* DoPipeOperation<SharedLock>, one interface: the lock stays taken in a pipe
FindPipe(r) ==
    LET i == thread[r].iface
    IN  /\ thread[r].pc = "search"
        /\ \/ /\ i = NumInterfaces
              /\ thread' = [thread EXCEPT ![r].pc = "return"]
           \/ /\ i < NumInterfaces /\ pipes[i] = NullPipes
              /\ thread' = [thread EXCEPT ![r].pc = "crashed"]
           \/ /\ i < NumInterfaces /\ pipes[i] # NullPipes /\ req[r].op.ep \in pipes[i]
              /\ thread' = [thread EXCEPT ![r].pc = "inPipe", ![r].pipe = req[r].op.ep]
           \/ /\ i < NumInterfaces /\ pipes[i] # NullPipes /\ req[r].op.ep \notin pipes[i]
              /\ thread' = [thread EXCEPT ![r].iface = i + 1]
        /\ UNCHANGED <<req, pipes, selected, dataQueue, waiting, config>>

\* The framework deletes the pipes of a setting when it selects another one;
\* until SetAltSetting has the lock the array still has them.
PipesDeleted(i) == config.pc = "replace" /\ config.iface = i

\* ReadAsync, WriteAsync, SubmitIsochronousTransfer. A deleted pipe refuses the
\* request, or its handle stands for something else by now, or for nothing.
Submit(r) ==
    /\ thread[r].pc = "inPipe"
    /\ \/ SendWithCompletion(r, "leave")
       \/ /\ PipesDeleted(thread[r].iface)
          /\ \E pc \in {"leave", "crashed"} : thread' = [thread EXCEPT ![r].pc = pc]
          /\ UNCHANGED req
    /\ UNCHANGED <<pipes, selected, dataQueue, waiting, config>>

\* The handler returns: its lock goes, and its object of the request.
Return(r) ==
    /\ thread[r].pc \in {"leave", "return"}
    /\ IF thread[r].holds THEN Complete(r) ELSE UNCHANGED req
    /\ thread' = [thread EXCEPT ![r] = NoThread]
    /\ UNCHANGED <<pipes, selected, dataQueue, waiting, config>>

-----------------------------------------------------------------------------
(* The USB target.                                                         *)

\* The completion routine of the transfer completes the request.
CompleteTransferRequest(r) ==
    /\ req[r].at = "target"
    /\ Complete(r)
    /\ UNCHANGED <<thread, pipes, selected, dataQueue, waiting, config>>

-----------------------------------------------------------------------------
(* The sequential queue and its thread.                                    *)

IoDeviceControlConfig ==
    /\ config.pc = "idle" /\ waiting # <<>>
    /\ config' = [pc |-> req[Head(waiting)].op.code, r |-> Head(waiting),
                  iface |-> 0, success |-> TRUE]
    /\ waiting' = Tail(waiting)
    /\ Place(Head(waiting), "config")
    /\ UNCHANGED <<thread, pipes, selected, dataQueue>>

Handled ==
    /\ Complete(config.r)
    /\ config' = IdleConfig

FailsToFetchInput ==
    /\ "input" \in Faults
    /\ Handled

\* the first interface that has the endpoint, without a lock; a null array
\* on the way is dereferenced
Reached(e) ==
    {i \in Interfaces : \A j \in 0 .. i - 1 : pipes[j] # NullPipes /\ e \notin pipes[j]}

FoundAt(e) == {i \in Reached(e) : pipes[i] # NullPipes /\ e \in pipes[i]}

HitsNull(e) == \E i \in Reached(e) : pipes[i] = NullPipes

\* a transfer on one of these endpoints, which ends without the device's answer
Aborted(r, endpoints) ==
    /\ req[r].at = "target" /\ req[r].op.type # "control"
    /\ req[r].op.ep \in endpoints

\* the transfers on these endpoints end, the others go on
AbortOn(endpoints) ==
    req' = [q \in Requests |->
               IF Aborted(q, endpoints) THEN [req[q] EXCEPT !.aborted = TRUE] ELSE req[q]]

AbortPipe ==
    LET r == config.r
        e == req[r].op.ep
    IN  /\ config.pc = "abort"
        /\ \/ FailsToFetchInput
           \/ HitsNull(e) /\ config' = [config EXCEPT !.pc = "crashed"] /\ UNCHANGED req
           \/ ~HitsNull(e) /\ FoundAt(e) = {} /\ Handled
           \/ FoundAt(e) # {} /\ "abort" \in Faults /\ Handled
           \/ /\ FoundAt(e) # {}
              /\ req' = [q \in Requests |->
                            IF q = r THEN IdleRequest
                            ELSE IF Aborted(q, {e}) THEN [req[q] EXCEPT !.aborted = TRUE]
                            ELSE req[q]]
              /\ config' = IdleConfig
        /\ UNCHANGED <<thread, pipes, selected, dataQueue, waiting>>

ResetPipe ==
    LET e == req[config.r].op.ep
    IN  /\ config.pc = "reset"
        /\ \/ FailsToFetchInput
           \/ HitsNull(e) /\ config' = [config EXCEPT !.pc = "crashed"] /\ UNCHANGED req
           \/ ~HitsNull(e) /\ FoundAt(e) = {} /\ Handled
           \/ FoundAt(e) # {} /\ Handled
        /\ UNCHANGED <<thread, pipes, selected, dataQueue, waiting>>

\* Mutant: one interface too many is reset.
ResetDevice_OffByOne ==
    /\ config.pc = "resetDevice"
    /\ \/ config.iface > NumInterfaces /\ Handled
       \/ /\ config.iface <= NumInterfaces
          /\ config' = [config EXCEPT !.iface = @ + 1]
          /\ UNCHANGED req
    /\ UNCHANGED <<thread, pipes, selected, dataQueue, waiting>>

\* CWdfUsbInterface::Reset of one interface: each pipe is aborted and reset
ResetDevice ==
    LET i == config.iface
    IN  /\ config.pc = "resetDevice"
        /\ \/ i = NumInterfaces /\ Handled
           \/ /\ i < NumInterfaces /\ pipes[i] = NullPipes
              /\ config' = [config EXCEPT !.pc = "crashed"]
              /\ UNCHANGED req
           \/ /\ i < NumInterfaces /\ pipes[i] # NullPipes
              /\ \E failed \in SUBSET pipes[i] :
                     /\ failed = {} \/ "abort" \in Faults
                     /\ AbortOn(pipes[i] \ failed)
                     /\ config' = [config EXCEPT !.iface = i + 1]
        /\ UNCHANGED <<thread, pipes, selected, dataQueue, waiting>>

\* Any other request is for the driver below, which completes it.
ForwardRequest ==
    /\ config.pc = "other"
    /\ Handled
    /\ UNCHANGED <<thread, pipes, selected, dataQueue, waiting>>

\* StopSync of the parallel queue, a drain that waits for nothing
StopDataQueue ==
    /\ config.pc = "alt"
    /\ dataQueue' = "draining"
    /\ config' = [config EXCEPT !.pc = "select"]
    /\ UNCHANGED <<req, thread, pipes, selected, waiting>>

\* Mutant: the status of the framework's call is not looked at.
SetInterfaceAltSetting_Unchecked ==
    LET op == req[config.r].op
    IN  /\ config.pc = "select"
        /\ \/ /\ {"input", "select"} \cap Faults # {} \/ op.iface >= NumInterfaces
              /\ config' = [config EXCEPT !.pc = "start"]
              /\ UNCHANGED <<req, selected>>
           \/ /\ op.iface < NumInterfaces
              /\ selected' = [selected EXCEPT ![op.iface] = op.setting]
              /\ config' = [config EXCEPT !.pc = "replace", !.iface = op.iface]
              /\ AbortOn(PipesOf[op.iface][selected[op.iface]])
        /\ UNCHANGED <<thread, pipes, dataQueue, waiting>>

\* WdfUsbInterfaceSelectSetting, without the lock: it cancels what is under way
\* on the pipes it deletes.
SetInterfaceAltSetting ==
    LET op == req[config.r].op
    IN  /\ config.pc = "select"
        /\ \/ /\ {"input", "select"} \cap Faults # {} \/ op.iface >= NumInterfaces
              /\ config' = [config EXCEPT !.pc = "start", !.success = FALSE]
              /\ UNCHANGED <<req, selected>>
           \/ /\ op.iface < NumInterfaces
              /\ selected' = [selected EXCEPT ![op.iface] = op.setting]
              /\ config' = [config EXCEPT !.pc = "replace", !.iface = op.iface]
              /\ AbortOn(PipesOf[op.iface][selected[op.iface]])
        /\ UNCHANGED <<thread, pipes, dataQueue, waiting>>

\* Mutant: the queue is drained, so why take the lock.
LockFree_Always(i) == TRUE

\* ExclusiveLock: no handler is in a pipe of the interface
LockFree(i) ==
    \A r \in Requests : ~(thread[r].pc \in {"inPipe", "leave"} /\ thread[r].iface = i)

\* m_NumPipes is set before the array is allocated
SetAltSetting ==
    LET i == config.iface
        new == PipesOf[i][selected[i]]
    IN  /\ config.pc = "replace" /\ LockFree(i)
        /\ \/ /\ pipes' = [pipes EXCEPT ![i] = new]
              /\ config' = [config EXCEPT !.pc = "start"]
           \/ /\ new # {} /\ "pipes" \in Faults
              /\ pipes' = [pipes EXCEPT ![i] = NullPipes]
              /\ config' = [config EXCEPT !.pc = "start", !.success = FALSE]
        /\ UNCHANGED <<req, thread, selected, dataQueue, waiting>>

\* Mutant: the queue is started again only after a success.
StartDataQueue_OnSuccess ==
    /\ config.pc = "start"
    /\ dataQueue' = IF config.success THEN "started" ELSE dataQueue
    /\ Handled
    /\ UNCHANGED <<thread, pipes, selected, waiting>>

StartDataQueue ==
    /\ config.pc = "start"
    /\ dataQueue' = "started"
    /\ Handled
    /\ UNCHANGED <<thread, pipes, selected, waiting>>

-----------------------------------------------------------------------------

HandlerStep(r) == FindPipe(r) \/ Submit(r) \/ Return(r)

ConfigStep ==
    \/ IoDeviceControlConfig \/ AbortPipe \/ ResetPipe \/ ResetDevice
    \/ ForwardRequest \/ StopDataQueue
    \/ SetInterfaceAltSetting \/ SetAltSetting \/ StartDataQueue

Next ==
    \/ \E r \in Requests :
           \/ Ask(r) \/ IoDeviceControl(r) \/ HandlerStep(r) \/ CompleteTransferRequest(r)
    \/ ConfigStep

Spec == Init /\ [][Next]_vars

\* the target owes an answer to a transfer unless the endpoint is silent
MustAnswer(r) ==
    req[r].at = "target" =>
        req[r].op.type = "control" \/ req[r].op.ep \notin Silent \/ req[r].aborted

FairSpec ==
    /\ Spec
    /\ \A r \in Requests :
           /\ WF_vars(HandlerStep(r))
           /\ WF_vars(MustAnswer(r) /\ CompleteTransferRequest(r))
           /\ WF_vars(IoDeviceControl(r))
    /\ WF_vars(ConfigStep)

-----------------------------------------------------------------------------
(* Properties. *)

TypeOK ==
    /\ req \in [Requests -> RequestType]
    /\ thread \in [Requests -> ThreadType]
    /\ pipes \in [Interfaces -> (SUBSET Endpoints) \cup {NullPipes}]
    /\ selected \in [Interfaces -> Settings]
    /\ dataQueue \in {"started", "draining"}
    /\ waiting \in Seq(Requests)
    /\ config \in ConfigType

\* A request has one owner: the object of its handler still has it just when
\* it is with the handler, and the thread of the sequential queue has the
\* one it works on. Two owners would complete it twice, none never.
OneOwner ==
    /\ \A r \in Requests : thread[r].holds <=> req[r].at = "driver"
    /\ \A r \in Requests : req[r].at = "config" <=> config.r = r

\* The lock keeps the array of pipes a handler is in: nobody replaces it, and its
\* pipes are those of the setting in force, short of the moment in which the
\* sequential thread has selected a setting and does not have the lock yet. The
\* drain keeps no handler away from that.
PipeStaysInUse ==
    \A r \in Requests :
        thread[r].pc \in {"inPipe", "leave"} =>
            LET i == thread[r].iface
            IN  /\ pipes[i] # NullPipes /\ thread[r].pipe \in pipes[i]
                /\ PipesDeleted(i) \/ thread[r].pipe \in PipesOf[i][selected[i]]

\* The arrays are those of the settings the device has, but for the interface
\* the sequential thread is changing, which is why AbortPipe, ResetPipe and
\* ResetDevice need no lock: a change that fails leaves the interface as it was
\* or without pipes. A change is completed with success only when the device
\* and the driver have the setting the client asked for.
PipesFollowDevice ==
    /\ \A i \in Interfaces :
           pipes[i] # NullPipes /\ ~PipesDeleted(i) => pipes[i] = PipesOf[i][selected[i]]
    /\ config.pc = "start" /\ config.success =>
           LET op == req[config.r].op
           IN  pipes[op.iface] # NullPipes /\ selected[op.iface] = op.setting

\* Every request is completed, unless it is a transfer on a silent endpoint that
\* no abort, reset or change of the setting has ended.
OnSilent(r) == req[r].at = "target" /\ ~MustAnswer(r)

Crashed == config.pc = "crashed" \/ \E r \in Requests : thread[r].pc = "crashed"

RequestsEnd ==
    \A r \in Requests : req[r].at # "client" ~> req[r].at = "client" \/ OnSilent(r) \/ Crashed

\* Whether it succeeds or fails, a change of the setting ends the drain, and no
\* silent endpoint keeps it from that: otherwise the redirector would refuse
\* every request from then on.
DrainEnds == dataQueue = "draining" ~> dataQueue = "started" \/ Crashed
=============================================================================
