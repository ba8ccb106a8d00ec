------------------------- MODULE PipeTransfersProofs -------------------------
(***************************************************************************)
(* IInv is an inductive invariant of PipeTransfers, for any number of      *)
(* requests, interfaces, settings and endpoints and any faults.            *)
(***************************************************************************)
EXTENDS PipeTransfers, SequenceTheorems, TLAPS

\* What the sequential queue gets.
ConfigCodes == Codes \ {"read", "write"}

\* A request in the driver asks for something, and what is forwarded to the
\* sequential queue is no transfer.
OpsInv == \A r \in Requests :
    /\ req[r].at # "client" => req[r].op \in OperationType
    /\ req[r].at \in {"configQueue", "config"} => req[r].op.code \in ConfigCodes

\* Until its handler has sent it a transfer is with the driver; a handler in a
\* pipe is at an interface of the device, in the pipe that was asked for.
HandlerInv == \A r \in Requests :
    /\ thread[r].pc \in {"search", "inPipe"} => req[r].at = "driver"
    /\ thread[r].pc \in {"inPipe", "leave"} => thread[r].iface \in Interfaces
    /\ thread[r].pc = "inPipe" => thread[r].pipe = req[r].op.ep

\* The sequential queue has each of its requests once.
QueueInv ==
    /\ \A i \in 1 .. Len(waiting) : req[waiting[i]].at = "configQueue"
    /\ \A i, j \in 1 .. Len(waiting) : i # j => waiting[i] # waiting[j]

\* The array a handler has found its pipe in stays as long as it is in the pipe.
LockInv == \A r \in Requests :
    thread[r].pc \in {"inPipe", "leave"} =>
        /\ pipes[thread[r].iface] # NullPipes
        /\ thread[r].pipe \in pipes[thread[r].iface]

\* The sequential thread works on a request or is idle; the parallel queue
\* drains from the start to the end of a change of the setting.
Changing == {"select", "replace", "start"}

ConfigInv ==
    /\ config.pc = "idle" <=> config.r = NoRequest
    /\ dataQueue = "draining" <=> config.pc \in Changing

\* How far the change of a setting has come.
ChangeInv ==
    /\ config.pc = "replace" =>
          /\ config.iface \in Interfaces
          /\ req[config.r].op.iface = config.iface
          /\ selected[config.iface] = req[config.r].op.setting
    /\ config.pc = "start" /\ config.success =>
          /\ req[config.r].op.iface \in Interfaces
          /\ pipes[req[config.r].op.iface] # NullPipes
          /\ selected[req[config.r].op.iface] = req[config.r].op.setting

\* Device and driver agree on the pipes except between the two steps of a change.
Agreement == \A i \in Interfaces :
    pipes[i] # NullPipes /\ ~PipesDeleted(i) => pipes[i] = PipesOf[i][selected[i]]

\* The inductive invariant: OneOwner and LockInv depend on the other parts, which
\* say where the handlers and the sequential thread are.
IInv ==
    /\ TypeOK /\ OneOwner /\ LockInv
    /\ OpsInv /\ HandlerInv /\ QueueInv /\ ConfigInv /\ ChangeInv /\ Agreement

-----------------------------------------------------------------------------
\* The invariant holds when the redirector has been created.
LEMMA InitIInv == Init => IInv
<1> SUFFICES ASSUME Init PROVE IInv
    OBVIOUS
<1> USE PipeTransfersAssumption
<1>1. 0 \in 0 .. NumInterfaces
    BY DEF Interfaces
<1>2. IdleRequest \in RequestType
    BY DEF IdleRequest, RequestType, Places
<1>3. NoThread \in ThreadType
    BY <1>1 DEF NoThread, ThreadType
<1>4. IdleConfig \in ConfigType
    BY <1>1 DEF IdleConfig, ConfigType
<1>5. TypeOK
    BY <1>2, <1>3, <1>4 DEF Init, TypeOK
<1>6. OneOwner /\ LockInv /\ OpsInv /\ HandlerInv
    BY DEF Init, OneOwner, LockInv, OpsInv, HandlerInv, IdleRequest, NoThread, IdleConfig
<1>7. QueueInv
    BY DEF Init, QueueInv
<1>8. ConfigInv /\ ChangeInv
    BY DEF Init, ConfigInv, ChangeInv, IdleConfig, Changing
<1>9. Agreement
    BY DEF Init, Agreement
<1> QED
    BY <1>5, <1>6, <1>7, <1>8, <1>9 DEF IInv

\* A step that touches one request, which is not the one the sequential queue
\* works on, and its handler.
LEMMA RequestStep ==
    ASSUME IInv, NEW r \in Requests,
           req' \in [Requests -> RequestType], thread' \in [Requests -> ThreadType],
           waiting' \in Seq(Requests),
           \A q \in Requests \ {r} : req'[q] = req[q] /\ thread'[q] = thread[q],
           UNCHANGED <<pipes, selected, dataQueue, config>>,
           thread'[r].holds <=> req'[r].at = "driver",
           "config" \in {req[r].at, req'[r].at} => req'[r] = req[r],
           req'[r].at # "client" => req'[r].op \in OperationType,
           req'[r].at \in {"configQueue", "config"} => req'[r].op.code \in ConfigCodes,
           thread'[r].pc \in {"search", "inPipe"} => req'[r].at = "driver",
           thread'[r].pc \in {"inPipe", "leave"} =>
               /\ thread'[r].iface \in Interfaces
               /\ pipes[thread'[r].iface] # NullPipes
               /\ thread'[r].pipe \in pipes[thread'[r].iface],
           thread'[r].pc = "inPipe" => thread'[r].pipe = req'[r].op.ep,
           QueueInv'
    PROVE  IInv'
<1>1. TypeOK'
    BY DEF IInv, TypeOK
<1>2. OneOwner'
    BY DEF IInv, OneOwner
<1>3. LockInv'
    BY DEF IInv, LockInv
<1>4. OpsInv'
    BY DEF IInv, OpsInv
<1>5. HandlerInv'
    BY DEF IInv, HandlerInv
<1>6. ConfigInv'
    BY DEF IInv, ConfigInv
<1>7. config.pc \in {"replace", "start"} => req'[config.r].op = req[config.r].op
  <2> SUFFICES ASSUME config.pc \in {"replace", "start"}
               PROVE  req'[config.r].op = req[config.r].op
      OBVIOUS
  <2>1. config.r \in Requests
      BY DEF IInv, TypeOK, ConfigType, ConfigInv
  <2>2. req[config.r].at = "config"
      BY <2>1 DEF IInv, OneOwner
  <2> QED
      BY <2>1, <2>2
<1>8. ChangeInv'
    BY <1>7 DEF IInv, ChangeInv
<1>9. Agreement'
    BY DEF IInv, Agreement, PipesDeleted
<1> QED
    BY <1>1, <1>2, <1>3, <1>4, <1>5, <1>6, <1>8, <1>9 DEF IInv

\* A step of a request that does not wait in the sequential queue leaves that
\* queue as it is.
LEMMA OtherPlaces ==
    ASSUME IInv, NEW r \in Requests, req[r].at # "configQueue", waiting' = waiting,
           \A q \in Requests \ {r} : req'[q] = req[q]
    PROVE  QueueInv'
<1>1. waiting \in Seq(Requests)
    BY DEF IInv, TypeOK
<1>2. ASSUME NEW i \in 1 .. Len(waiting) PROVE waiting[i] \in Requests
    BY <1>1, ElementOfSeq
<1> QED
    BY <1>1, <1>2 DEF IInv, QueueInv

\* The types of the requests and of the records the steps store.
LEMMA RequestTypes ==
    ASSUME IInv, NEW r \in Requests
    PROVE  /\ req \in [Requests -> RequestType] /\ thread \in [Requests -> ThreadType]
           /\ waiting \in Seq(Requests)
           /\ IdleRequest \in RequestType /\ NoThread \in ThreadType
           /\ NewThread("return") \in ThreadType /\ NewThread("search") \in ThreadType
           /\ req[r] \in RequestType /\ thread[r] \in ThreadType
<1>1. 0 \in 0 .. NumInterfaces
    BY PipeTransfersAssumption
<1>2. IdleRequest \in RequestType
    BY DEF IdleRequest, RequestType, Places
<1>3. NoThread \in ThreadType
    BY <1>1 DEF NoThread, ThreadType
<1>4. NewThread("return") \in ThreadType /\ NewThread("search") \in ThreadType
    BY <1>1 DEF NewThread, ThreadType
<1>5. /\ req \in [Requests -> RequestType] /\ thread \in [Requests -> ThreadType]
      /\ waiting \in Seq(Requests)
    BY DEF IInv, TypeOK
<1> QED
    BY <1>2, <1>3, <1>4, <1>5

\* IoInCallerContext preserves the invariant.
LEMMA AskStep ==
    ASSUME IInv, NEW r \in Requests, Ask(r)
    PROVE  IInv'
<1>1. /\ req[r].at = "client" /\ thread[r].pc = "none"
      /\ UNCHANGED <<thread, pipes, selected, dataQueue, waiting, config>>
    BY DEF Ask
<1>2. PICK op \in Operations[r] : IoInCallerContext(r, op)
    BY DEF Ask
<1>3. op \in OperationType
    BY PipeTransfersAssumption
<1>4. thread[r].holds = FALSE
    BY <1>1, RequestTypes DEF IInv, OneOwner, ThreadType
<1>5. CASE req' = [req EXCEPT ![r] = [op |-> op, at |-> "dataQueue", aborted |-> FALSE]]
  <2>1. [op |-> op, at |-> "dataQueue", aborted |-> FALSE] \in RequestType
      BY <1>3 DEF RequestType, Places
  <2>2. req'[r].at = "dataQueue" /\ req'[r].op = op
      BY <1>5, RequestTypes
  <2>3. /\ req' \in [Requests -> RequestType]
        /\ \A q \in Requests \ {r} : req'[q] = req[q]
      BY <1>5, <2>1, RequestTypes
  <2>4. QueueInv'
      BY <1>1, <2>3, OtherPlaces
  <2> QED
      BY <1>1, <1>3, <1>4, <2>2, <2>3, <2>4, RequestTypes, RequestStep
<1>6. CASE Complete(r)
  <2>1. req'[r].at = "client"
      BY <1>6, RequestTypes DEF Complete, IdleRequest
  <2>2. /\ req' \in [Requests -> RequestType]
        /\ \A q \in Requests \ {r} : req'[q] = req[q]
      BY <1>6, RequestTypes DEF Complete
  <2>3. QueueInv'
      BY <1>1, <2>2, OtherPlaces
  <2> QED
      BY <1>1, <1>4, <2>1, <2>2, <2>3, RequestTypes, RequestStep
<1> QED
    BY <1>2, <1>5, <1>6 DEF IoInCallerContext

\* The completion routine of a transfer preserves the invariant: it has the
\* request its handler has detached.
LEMMA CompleteTransferRequestStep ==
    ASSUME IInv, NEW r \in Requests, CompleteTransferRequest(r)
    PROVE  IInv'
<1>1. /\ req[r].at = "target" /\ Complete(r)
      /\ UNCHANGED <<thread, pipes, selected, dataQueue, waiting, config>>
    BY DEF CompleteTransferRequest
<1>2. /\ req'[r].at = "client" /\ req' \in [Requests -> RequestType]
      /\ \A q \in Requests \ {r} : req'[q] = req[q]
    BY <1>1, RequestTypes DEF Complete, IdleRequest
<1>3. thread[r].holds = FALSE /\ thread[r].pc \notin {"search", "inPipe"}
    BY <1>1, RequestTypes DEF IInv, OneOwner, HandlerInv, ThreadType
<1>4. thread[r].pc = "leave" =>
          /\ thread[r].iface \in Interfaces
          /\ pipes[thread[r].iface] # NullPipes
          /\ thread[r].pipe \in pipes[thread[r].iface]
    BY DEF IInv, HandlerInv, LockInv
<1>5. QueueInv'
    BY <1>1, <1>2, OtherPlaces
<1> QED
    BY <1>1, <1>2, <1>3, <1>4, <1>5, RequestTypes, RequestStep

\* The search of DoPipeOperation preserves the invariant.
LEMMA FindPipeStep ==
    ASSUME IInv, NEW r \in Requests, FindPipe(r)
    PROVE  IInv'
<1> DEFINE i == thread[r].iface
<1>1. /\ thread[r].pc = "search"
      /\ UNCHANGED <<req, pipes, selected, dataQueue, waiting, config>>
    BY DEF FindPipe
<1>2. req[r].at = "driver" /\ thread[r].holds = TRUE /\ req[r].op \in OperationType
    BY <1>1, RequestTypes DEF IInv, OneOwner, HandlerInv, OpsInv, ThreadType
<1>3. QueueInv'
    BY <1>1, <1>2, OtherPlaces
<1>4. i \in 0 .. NumInterfaces /\ NumInterfaces \in Nat
    BY RequestTypes, PipeTransfersAssumption DEF ThreadType
<1>5. CASE thread' = [thread EXCEPT ![r].pc = "return"]
  <2>1. /\ thread' \in [Requests -> ThreadType]
        /\ thread'[r].pc = "return" /\ thread'[r].holds = TRUE
        /\ \A q \in Requests \ {r} : thread'[q] = thread[q]
      BY <1>5, <1>2, RequestTypes DEF ThreadType
  <2> QED
      BY <1>1, <1>2, <1>3, <2>1, RequestTypes, RequestStep
<1>6. CASE thread' = [thread EXCEPT ![r].pc = "crashed"]
  <2>1. /\ thread' \in [Requests -> ThreadType]
        /\ thread'[r].pc = "crashed" /\ thread'[r].holds = TRUE
        /\ \A q \in Requests \ {r} : thread'[q] = thread[q]
      BY <1>6, <1>2, RequestTypes DEF ThreadType
  <2> QED
      BY <1>1, <1>2, <1>3, <2>1, RequestTypes, RequestStep
<1>7. CASE /\ i < NumInterfaces /\ pipes[i] # NullPipes /\ req[r].op.ep \in pipes[i]
           /\ thread' = [thread EXCEPT ![r].pc = "inPipe", ![r].pipe = req[r].op.ep]
  <2>1. req[r].op.ep \in Endpoints
      BY <1>2 DEF OperationType
  <2>2. /\ thread' \in [Requests -> ThreadType]
        /\ thread'[r].pc = "inPipe" /\ thread'[r].holds = TRUE
        /\ thread'[r].iface = i /\ thread'[r].pipe = req[r].op.ep
        /\ \A q \in Requests \ {r} : thread'[q] = thread[q]
      BY <1>7, <1>2, <2>1, RequestTypes DEF ThreadType
  <2>3. i \in Interfaces
      BY <1>4, <1>7 DEF Interfaces
  <2> QED
      BY <1>1, <1>2, <1>3, <1>7, <2>2, <2>3, RequestTypes, RequestStep
<1>8. CASE /\ i < NumInterfaces
           /\ thread' = [thread EXCEPT ![r].iface = i + 1]
  <2>1. i + 1 \in 0 .. NumInterfaces
      BY <1>4, <1>8
  <2>2. /\ thread' \in [Requests -> ThreadType]
        /\ thread'[r].pc = "search" /\ thread'[r].holds = TRUE
        /\ \A q \in Requests \ {r} : thread'[q] = thread[q]
      BY <1>1, <1>2, <1>8, <2>1, RequestTypes DEF ThreadType
  <2> QED
      BY <1>1, <1>2, <1>3, <2>2, RequestTypes, RequestStep
<1> QED
    BY <1>5, <1>6, <1>7, <1>8 DEF FindPipe

\* The return of a handler preserves the invariant: ~CWdfRequest completes the
\* request only where the handler still has it.
LEMMA ReturnStep ==
    ASSUME IInv, NEW r \in Requests, Return(r)
    PROVE  IInv'
<1>1. /\ thread[r].pc \in {"leave", "return"}
      /\ thread' = [thread EXCEPT ![r] = NoThread]
      /\ UNCHANGED <<pipes, selected, dataQueue, waiting, config>>
    BY DEF Return
<1>2. /\ thread' \in [Requests -> ThreadType] /\ thread'[r] = NoThread
      /\ \A q \in Requests \ {r} : thread'[q] = thread[q]
    BY <1>1, RequestTypes
<1>3. NoThread.holds = FALSE /\ NoThread.pc = "none"
    BY DEF NoThread
<1>4. CASE thread[r].holds /\ Complete(r)
  <2>1. req[r].at = "driver"
      BY <1>4 DEF IInv, OneOwner
  <2>2. /\ req'[r].at = "client" /\ req' \in [Requests -> RequestType]
        /\ \A q \in Requests \ {r} : req'[q] = req[q]
      BY <1>4, RequestTypes DEF Complete, IdleRequest
  <2>3. QueueInv'
      BY <1>1, <2>1, <2>2, OtherPlaces
  <2> QED
      BY <1>1, <1>2, <1>3, <2>1, <2>2, <2>3, RequestTypes, RequestStep
<1>5. CASE ~thread[r].holds /\ UNCHANGED req
  <2>1. req[r].at # "driver"
      BY <1>5 DEF IInv, OneOwner
  <2>2. QueueInv'
      BY <1>1, <1>5 DEF IInv, QueueInv
  <2>3. /\ req[r].at # "client" => req[r].op \in OperationType
        /\ req[r].at \in {"configQueue", "config"} => req[r].op.code \in ConfigCodes
      BY DEF IInv, OpsInv
  <2> QED
      BY <1>1, <1>2, <1>3, <1>5, <2>1, <2>2, <2>3, RequestTypes, RequestStep
<1> QED
    BY <1>4, <1>5 DEF Return

\* SendWithCompletion preserves the invariant.
LEMMA SendStep ==
    ASSUME IInv, NEW r \in Requests, NEW next \in {"return", "leave"},
           SendWithCompletion(r, next),
           req[r].at \in {"dataQueue", "driver"},
           next = "leave" => thread[r].pc = "inPipe",
           UNCHANGED <<pipes, selected, dataQueue, waiting, config>>
    PROVE  IInv'
<1>1. next = "leave" =>
          /\ thread[r].iface \in Interfaces
          /\ pipes[thread[r].iface] # NullPipes
          /\ thread[r].pipe \in pipes[thread[r].iface]
    BY DEF IInv, HandlerInv, LockInv
<1>2. req[r].op \in OperationType
    BY DEF IInv, OpsInv
<1>3. CASE /\ Place(r, "target")
           /\ thread' = [thread EXCEPT ![r].pc = next, ![r].holds = FALSE]
  <2>1. /\ req' \in [Requests -> RequestType]
        /\ req'[r].at = "target" /\ req'[r].op = req[r].op
        /\ \A q \in Requests \ {r} : req'[q] = req[q]
      BY <1>3, RequestTypes DEF Place, RequestType, Places
  <2>2. /\ thread' \in [Requests -> ThreadType]
        /\ thread'[r].pc = next /\ thread'[r].holds = FALSE
        /\ thread'[r].iface = thread[r].iface /\ thread'[r].pipe = thread[r].pipe
        /\ \A q \in Requests \ {r} : thread'[q] = thread[q]
      BY <1>3, RequestTypes DEF ThreadType
  <2>3. QueueInv'
      BY <2>1, OtherPlaces
  <2> QED
      BY <1>1, <1>2, <2>1, <2>2, <2>3, RequestTypes, RequestStep
<1>4. CASE /\ Place(r, "driver")
           /\ thread' = [thread EXCEPT ![r].pc = next, ![r].holds = TRUE]
  <2>1. /\ req' \in [Requests -> RequestType]
        /\ req'[r].at = "driver" /\ req'[r].op = req[r].op
        /\ \A q \in Requests \ {r} : req'[q] = req[q]
      BY <1>4, RequestTypes DEF Place, RequestType, Places
  <2>2. /\ thread' \in [Requests -> ThreadType]
        /\ thread'[r].pc = next /\ thread'[r].holds = TRUE
        /\ thread'[r].iface = thread[r].iface /\ thread'[r].pipe = thread[r].pipe
        /\ \A q \in Requests \ {r} : thread'[q] = thread[q]
      BY <1>4, RequestTypes DEF ThreadType
  <2>3. QueueInv'
      BY <2>1, OtherPlaces
  <2> QED
      BY <1>1, <1>2, <2>1, <2>2, <2>3, RequestTypes, RequestStep
<1> QED
    BY <1>3, <1>4 DEF SendWithCompletion

\* ReadAsync, WriteAsync and SubmitIsochronousTransfer preserve the invariant,
\* also when the pipe has been deleted.
LEMMA SubmitStep ==
    ASSUME IInv, NEW r \in Requests, Submit(r)
    PROVE  IInv'
<1>1. thread[r].pc = "inPipe" /\ UNCHANGED <<pipes, selected, dataQueue, waiting, config>>
    BY DEF Submit
<1>2. req[r].at = "driver"
    BY <1>1 DEF IInv, HandlerInv
<1>3. CASE SendWithCompletion(r, "leave")
    BY <1>1, <1>2, <1>3, SendStep
<1>4. ASSUME NEW pc \in {"leave", "crashed"},
             thread' = [thread EXCEPT ![r].pc = pc], UNCHANGED req
      PROVE  IInv'
  <2>1. /\ thread' \in [Requests -> ThreadType] /\ thread'[r].pc = pc
        /\ thread'[r].holds = thread[r].holds
        /\ thread'[r].iface = thread[r].iface /\ thread'[r].pipe = thread[r].pipe
        /\ \A q \in Requests \ {r} : thread'[q] = thread[q]
      BY <1>4, RequestTypes DEF ThreadType
  <2>2. /\ thread[r].holds = TRUE /\ thread[r].iface \in Interfaces
        /\ pipes[thread[r].iface] # NullPipes
        /\ thread[r].pipe \in pipes[thread[r].iface]
      BY <1>1, <1>2, RequestTypes DEF IInv, OneOwner, HandlerInv, LockInv, ThreadType
  <2>3. req[r].op \in OperationType
      BY <1>2 DEF IInv, OpsInv
  <2>4. QueueInv'
      BY <1>1, <1>2, <1>4, OtherPlaces
  <2> QED
      BY <1>1, <1>2, <1>4, <2>1, <2>2, <2>3, <2>4, RequestTypes, RequestStep
<1> QED
    BY <1>1, <1>3, <1>4 DEF Submit

\* The start of a handler that keeps its request preserves the invariant.
LEMMA StartHandlerStep ==
    ASSUME IInv, NEW r \in Requests, NEW pc \in {"return", "search"},
           req[r].at = "dataQueue",
           thread' = [thread EXCEPT ![r] = NewThread(pc)], Place(r, "driver"),
           UNCHANGED <<pipes, selected, dataQueue, waiting, config>>
    PROVE  IInv'
<1>1. /\ req' \in [Requests -> RequestType]
      /\ req'[r].at = "driver" /\ req'[r].op = req[r].op
      /\ \A q \in Requests \ {r} : req'[q] = req[q]
    BY RequestTypes DEF Place, RequestType, Places
<1>2. /\ thread' \in [Requests -> ThreadType] /\ thread'[r] = NewThread(pc)
      /\ \A q \in Requests \ {r} : thread'[q] = thread[q]
    BY RequestTypes
<1>3. NewThread(pc).pc = pc /\ NewThread(pc).holds = TRUE
    BY DEF NewThread
<1>4. QueueInv'
    BY <1>1, OtherPlaces
<1>5. req[r].op \in OperationType
    BY DEF IInv, OpsInv
<1> QED
    BY <1>1, <1>2, <1>3, <1>4, <1>5, RequestTypes, RequestStep

\* The forwarding to the sequential queue preserves the invariant.
LEMMA AppendStep ==
    ASSUME IInv, NEW r \in Requests,
           req[r].at = "dataQueue", ~IsTransfer(r),
           Place(r, "configQueue"), waiting' = Append(waiting, r),
           UNCHANGED <<thread, pipes, selected, dataQueue, config>>
    PROVE  IInv'
<1>1. /\ req' \in [Requests -> RequestType]
      /\ req'[r].at = "configQueue" /\ req'[r].op = req[r].op
      /\ \A q \in Requests \ {r} : req'[q] = req[q]
    BY RequestTypes DEF Place, RequestType, Places
<1>2. req[r].op \in OperationType /\ req[r].op.code \in ConfigCodes
    BY DEF IInv, OpsInv, OperationType, IsTransfer, ConfigCodes
<1>3. thread[r].holds = FALSE /\ thread[r].pc \notin {"search", "inPipe"}
    BY RequestTypes DEF IInv, OneOwner, HandlerInv, ThreadType
<1>4. thread[r].pc = "leave" =>
          /\ thread[r].iface \in Interfaces
          /\ pipes[thread[r].iface] # NullPipes
          /\ thread[r].pipe \in pipes[thread[r].iface]
    BY DEF IInv, HandlerInv, LockInv
<1>5. /\ waiting \in Seq(Requests) /\ waiting' \in Seq(Requests)
      /\ Len(waiting') = Len(waiting) + 1 /\ Len(waiting) \in Nat
      /\ waiting'[Len(waiting) + 1] = r
      /\ \A i \in 1 .. Len(waiting) : waiting'[i] = waiting[i]
    BY RequestTypes, AppendProperties
<1>6. \A i \in 1 .. Len(waiting) :
          waiting[i] \in Requests \ {r} /\ req[waiting[i]].at = "configQueue"
    BY <1>5, ElementOfSeq DEF IInv, QueueInv
<1>7. \A i \in 1 .. Len(waiting') : i = Len(waiting) + 1 \/ i \in 1 .. Len(waiting)
    BY <1>5
<1>8. \A i \in 1 .. Len(waiting') : req'[waiting'[i]].at = "configQueue"
    BY <1>1, <1>5, <1>6, <1>7
<1>9. \A i, j \in 1 .. Len(waiting) : i # j => waiting[i] # waiting[j]
    BY DEF IInv, QueueInv
<1>10. \A i, j \in 1 .. Len(waiting') : i # j => waiting'[i] # waiting'[j]
    BY <1>5, <1>6, <1>7, <1>9
<1>11. QueueInv'
    BY <1>8, <1>10 DEF QueueInv
<1> QED
    BY <1>1, <1>2, <1>3, <1>4, <1>5, <1>11, RequestTypes, RequestStep

\* A request that could not be forwarded is completed.
LEMMA ForwardFailsStep ==
    ASSUME IInv, NEW r \in Requests, req[r].at = "dataQueue", Complete(r),
           UNCHANGED <<thread, waiting, pipes, selected, dataQueue, config>>
    PROVE  IInv'
<1>1. /\ req'[r].at = "client" /\ req' \in [Requests -> RequestType]
      /\ \A q \in Requests \ {r} : req'[q] = req[q]
    BY RequestTypes DEF Complete, IdleRequest
<1>2. thread[r].holds = FALSE /\ thread[r].pc \notin {"search", "inPipe"}
    BY RequestTypes DEF IInv, OneOwner, HandlerInv, ThreadType
<1>3. thread[r].pc = "leave" =>
          /\ thread[r].iface \in Interfaces
          /\ pipes[thread[r].iface] # NullPipes
          /\ thread[r].pipe \in pipes[thread[r].iface]
    BY DEF IInv, HandlerInv, LockInv
<1>4. QueueInv'
    BY <1>1, OtherPlaces
<1> QED
    BY <1>1, <1>2, <1>3, <1>4, RequestTypes, RequestStep

\* The callback of the parallel queue preserves the invariant.
LEMMA IoDeviceControlStep ==
    ASSUME IInv, NEW r \in Requests, IoDeviceControl(r)
    PROVE  IInv'
<1>1. /\ req[r].at = "dataQueue"
      /\ UNCHANGED <<pipes, selected, dataQueue, config>>
    BY DEF IoDeviceControl
<1>2. CASE StartTransfer(r) /\ UNCHANGED waiting
  <2>1. CASE DoControlTransfer(r)
      BY <1>1, <1>2, <2>1, SendStep DEF DoControlTransfer
  <2>2. ASSUME NEW pc \in {"return", "search"},
               thread' = [thread EXCEPT ![r] = NewThread(pc)], Place(r, "driver")
        PROVE  IInv'
      BY <1>1, <1>2, <2>2, StartHandlerStep
  <2> QED
      BY <1>2, <2>1, <2>2 DEF StartTransfer
<1>3. CASE /\ ~IsTransfer(r) /\ Place(r, "configQueue")
           /\ waiting' = Append(waiting, r) /\ UNCHANGED thread
    BY <1>1, <1>3, AppendStep
<1>4. CASE Complete(r) /\ UNCHANGED <<thread, waiting>>
    BY <1>1, <1>4, ForwardFailsStep
<1> QED
    BY <1>2, <1>3, <1>4 DEF IoDeviceControl

\* The thread of the sequential queue has the request it works on.
LEMMA Busy ==
    ASSUME IInv, config.pc # "idle"
    PROVE  /\ config \in ConfigType
           /\ config.r \in Requests /\ req[config.r].at = "config"
           /\ thread[config.r].holds = FALSE
           /\ thread[config.r].pc \notin {"search", "inPipe"}
           /\ req[config.r].op \in OperationType
<1>1. config \in ConfigType /\ config.r \in Requests
    BY DEF IInv, TypeOK, ConfigType, ConfigInv
<1>2. req[config.r].at = "config"
    BY <1>1 DEF IInv, OneOwner
<1>3. thread[config.r].holds = FALSE /\ thread[config.r].pc \notin {"search", "inPipe"}
    BY <1>1, <1>2, RequestTypes DEF IInv, OneOwner, HandlerInv, ThreadType
<1>4. req[config.r].op \in OperationType
    BY <1>1, <1>2 DEF IInv, OpsInv
<1> QED
    BY <1>1, <1>2, <1>3, <1>4

\* The end of a request of the sequential queue preserves the invariant, also
\* when it has aborted transfers of others.
LEMMA HandledStep ==
    ASSUME IInv, config.pc \notin {"idle", "replace"},
           req' \in [Requests -> RequestType], req'[config.r] = IdleRequest,
           \A q \in Requests \ {config.r} :
               req'[q].op = req[q].op /\ req'[q].at = req[q].at,
           config' = IdleConfig, dataQueue' = "started",
           UNCHANGED <<thread, pipes, selected, waiting>>
    PROVE  IInv'
<1> USE Busy
<1>1. IdleConfig \in ConfigType /\ IdleConfig.pc = "idle" /\ IdleConfig.r = NoRequest
    BY PipeTransfersAssumption DEF IdleConfig, ConfigType
<1>2. req'[config.r].at = "client"
    BY DEF IdleRequest
<1>3. TypeOK'
    BY <1>1 DEF IInv, TypeOK
<1>4. \A q \in Requests : req[q].at = "config" <=> config.r = q
    BY DEF IInv, OneOwner
<1>5. \A q \in Requests : req'[q].at # "config"
    BY <1>2, <1>4
<1>6. \A q \in Requests : thread[q].holds <=> req'[q].at = "driver"
    BY <1>2, <1>4 DEF IInv, OneOwner
<1>7. OneOwner'
    BY <1>1, <1>5, <1>6, PipeTransfersAssumption DEF OneOwner
<1>8. LockInv'
    BY DEF IInv, LockInv
<1>9. OpsInv'
    BY <1>2 DEF IInv, OpsInv
<1>10. HandlerInv'
    BY <1>2 DEF IInv, HandlerInv
<1>11. \A i \in 1 .. Len(waiting) : waiting[i] \in Requests /\ waiting[i] # config.r
    BY RequestTypes, ElementOfSeq DEF IInv, QueueInv
<1>12. QueueInv'
    BY <1>11 DEF IInv, QueueInv
<1>13. ConfigInv' /\ ChangeInv'
    BY <1>1 DEF ConfigInv, ChangeInv, Changing
<1>14. Agreement'
    BY <1>1 DEF IInv, Agreement, PipesDeleted
<1> QED
    BY <1>3, <1>7, <1>8, <1>9, <1>10, <1>12, <1>13, <1>14 DEF IInv

\* A step within such a request that changes no setting and no array does, too.
LEMMA WorkStep ==
    ASSUME IInv, config.pc \notin {"idle", "replace"},
           req' \in [Requests -> RequestType],
           \A q \in Requests : req'[q].op = req[q].op /\ req'[q].at = req[q].at,
           config' \in ConfigType, config'.r = config.r,
           config'.pc \notin {"idle", "replace"},
           config'.pc = "start" => ~config'.success,
           dataQueue' \in {"started", "draining"},
           dataQueue' = "draining" <=> config'.pc \in Changing,
           UNCHANGED <<thread, pipes, selected, waiting>>
    PROVE  IInv'
<1>1. config.r \in Requests
    BY Busy
<1>2. TypeOK'
    BY DEF IInv, TypeOK
<1>3. OneOwner' /\ LockInv'
    BY DEF IInv, OneOwner, LockInv
<1>4. OpsInv' /\ HandlerInv'
    BY DEF IInv, OpsInv, HandlerInv
<1>5. \A i \in 1 .. Len(waiting) : waiting[i] \in Requests
    BY <1>1, RequestTypes, ElementOfSeq
<1>6. QueueInv'
    BY <1>5 DEF IInv, QueueInv
<1>7. ConfigInv'
    BY <1>1, PipeTransfersAssumption DEF IInv, ConfigInv
<1>8. ChangeInv' /\ Agreement'
    BY DEF IInv, ChangeInv, Agreement, PipesDeleted
<1> QED
    BY <1>2, <1>3, <1>4, <1>6, <1>7, <1>8 DEF IInv

\* The end of a request that leaves the others alone.
LEMMA HandledAloneStep ==
    ASSUME IInv, config.pc \notin {"idle", "replace"}, Handled,
           dataQueue' = "started",
           UNCHANGED <<thread, pipes, selected, waiting>>
    PROVE  IInv'
<1>1. config.r \in Requests
    BY Busy
<1>2. /\ req' \in [Requests -> RequestType] /\ req'[config.r] = IdleRequest
      /\ \A q \in Requests \ {config.r} : req'[q] = req[q]
    BY <1>1, RequestTypes DEF Handled, Complete
<1>3. config' = IdleConfig
    BY DEF Handled
<1> QED
    BY <1>2, <1>3, HandledStep

\* A null array ends the thread in the middle of its request.
LEMMA CrashStep ==
    ASSUME IInv, config.pc \notin {"idle"} \cup Changing,
           config' = [config EXCEPT !.pc = "crashed"],
           UNCHANGED <<req, thread, pipes, selected, dataQueue, waiting>>
    PROVE  IInv'
<1>1. config' \in ConfigType /\ config'.pc = "crashed" /\ config'.r = config.r
    BY Busy DEF ConfigType
<1>2. req \in [Requests -> RequestType] /\ dataQueue = "started"
    BY DEF IInv, TypeOK, ConfigInv
<1> QED
    BY <1>1, <1>2, WorkStep DEF Changing

\* The callback of the sequential queue preserves the invariant.
LEMMA IoDeviceControlConfigStep ==
    ASSUME IInv, IoDeviceControlConfig
    PROVE  IInv'
<1> DEFINE r == Head(waiting)
<1>1. /\ config.pc = "idle" /\ waiting # <<>> /\ waiting' = Tail(waiting)
      /\ config' = [pc |-> req[r].op.code, r |-> r, iface |-> 0, success |-> TRUE]
      /\ Place(r, "config") /\ UNCHANGED <<thread, pipes, selected, dataQueue>>
    BY DEF IoDeviceControlConfig
<1>2. /\ waiting \in Seq(Requests) /\ Len(waiting) \in Nat
      /\ Len(waiting') = Len(waiting) - 1 /\ Len(waiting) >= 1
      /\ waiting' \in Seq(Requests)
      /\ \A i \in 1 .. Len(waiting') : waiting'[i] = waiting[i + 1]
    BY <1>1, HeadTailProperties, EmptySeq, LenProperties DEF IInv, TypeOK
<1>3. 1 \in 1 .. Len(waiting) /\ r = waiting[1]
    BY <1>1, <1>2
<1>4. r \in Requests /\ req[r].at = "configQueue"
    BY <1>2, <1>3, ElementOfSeq DEF IInv, QueueInv
<1>5. req[r].op \in OperationType /\ req[r].op.code \in ConfigCodes
    BY <1>4 DEF IInv, OpsInv
<1>6. req \in [Requests -> RequestType] /\ req[r] \in RequestType
    BY <1>4, RequestTypes
<1>7. /\ req' \in [Requests -> RequestType]
      /\ req'[r].at = "config" /\ req'[r].op = req[r].op
      /\ \A q \in Requests \ {r} : req'[q] = req[q]
    BY <1>1, <1>4, <1>6 DEF Place, RequestType, Places
<1>8. config' \in ConfigType
  <2>1. 0 \in 0 .. NumInterfaces
      BY PipeTransfersAssumption
  <2> QED
      BY <1>1, <1>4, <1>5, <2>1 DEF ConfigType, ConfigCodes, Codes
<1>9. config'.r = r /\ config'.pc \in ConfigCodes
    BY <1>1, <1>5
<1>10. thread[r].holds = FALSE /\ thread[r].pc \notin {"search", "inPipe"}
    BY <1>4, RequestTypes DEF IInv, OneOwner, HandlerInv, ThreadType
<1>11. config.r = NoRequest /\ \A q \in Requests : req[q].at # "config"
    BY <1>1, PipeTransfersAssumption DEF IInv, ConfigInv, OneOwner
<1>12. TypeOK'
    BY <1>1, <1>2, <1>7, <1>8 DEF IInv, TypeOK
<1>13. OneOwner'
  <2>1. \A q \in Requests : thread[q].holds <=> req'[q].at = "driver"
      BY <1>7, <1>10 DEF IInv, OneOwner
  <2>2. \A q \in Requests : req'[q].at = "config" <=> config'.r = q
      BY <1>7, <1>9, <1>11
  <2> QED
      BY <1>1, <2>1, <2>2 DEF OneOwner
<1>14. LockInv'
    BY <1>1 DEF IInv, LockInv
<1>15. OpsInv'
    BY <1>5, <1>7 DEF IInv, OpsInv
<1>16. HandlerInv'
    BY <1>1, <1>7, <1>10 DEF IInv, HandlerInv
<1>17. QueueInv'
  <2>1. ASSUME NEW i \in 1 .. Len(waiting')
        PROVE  i + 1 \in 1 .. Len(waiting) /\ i + 1 # 1
      BY <1>2
  <2>2. \A i \in 1 .. Len(waiting) : waiting[i] \in Requests
      BY <1>2, ElementOfSeq
  <2>3. \A i \in 1 .. Len(waiting') : waiting'[i] \in Requests \ {r}
      BY <1>2, <1>3, <2>1, <2>2 DEF IInv, QueueInv
  <2>4. \A i \in 1 .. Len(waiting') : req'[waiting'[i]].at = "configQueue"
      BY <1>2, <1>7, <2>1, <2>3 DEF IInv, QueueInv
  <2>5. ASSUME NEW i \in 1 .. Len(waiting'), NEW j \in 1 .. Len(waiting'), i # j
        PROVE  waiting'[i] # waiting'[j]
    <3>1. i + 1 # j + 1
        BY <2>5
    <3> QED
        BY <1>2, <2>1, <3>1 DEF IInv, QueueInv
  <2> QED
      BY <2>4, <2>5 DEF QueueInv
<1>18. ConfigInv' /\ ChangeInv'
    BY <1>1, <1>4, <1>9, PipeTransfersAssumption
       DEF IInv, ConfigInv, ChangeInv, ConfigCodes, Codes, Changing
<1>19. Agreement'
    BY <1>1, <1>9 DEF IInv, Agreement, PipesDeleted, ConfigCodes, Codes
<1> QED
    BY <1>12, <1>13, <1>14, <1>15, <1>16, <1>17, <1>18, <1>19 DEF IInv

\* The cancellation of transfers moves no request.
LEMMA AbortOnMovesNone ==
    ASSUME IInv, NEW endpoints, AbortOn(endpoints)
    PROVE  /\ req' \in [Requests -> RequestType]
           /\ \A q \in Requests : req'[q].op = req[q].op /\ req'[q].at = req[q].at
<1>1. ASSUME NEW q \in Requests, NEW new, new = [req[q] EXCEPT !.aborted = TRUE]
      PROVE  new \in RequestType /\ new.op = req[q].op /\ new.at = req[q].at
    BY <1>1, RequestTypes DEF RequestType
<1>2. \A q \in Requests : req'[q] \in {req[q], [req[q] EXCEPT !.aborted = TRUE]}
    BY DEF AbortOn
<1>3. \A q \in Requests : /\ req'[q] \in RequestType
                          /\ req'[q].op = req[q].op /\ req'[q].at = req[q].at
    BY <1>1, <1>2, RequestTypes
<1>4. req' \in [Requests -> RequestType]
    BY <1>3 DEF AbortOn
<1> QED
    BY <1>3, <1>4

\* AbortPipe preserves the invariant.
LEMMA AbortPipeStep ==
    ASSUME IInv, AbortPipe
    PROVE  IInv'
<1> DEFINE r == config.r
           e == req[r].op.ep
<1>1. /\ config.pc = "abort"
      /\ UNCHANGED <<thread, pipes, selected, dataQueue, waiting>>
    BY DEF AbortPipe
<1>2. dataQueue' = "started"
    BY <1>1 DEF IInv, TypeOK, ConfigInv, Changing
<1>3. CASE Handled
    BY <1>1, <1>2, <1>3, HandledAloneStep
<1>4. CASE config' = [config EXCEPT !.pc = "crashed"] /\ UNCHANGED req
    BY <1>1, <1>4, CrashStep DEF Changing
<1>5. CASE /\ req' = [q \in Requests |->
                        IF q = r THEN IdleRequest
                        ELSE IF Aborted(q, {e}) THEN [req[q] EXCEPT !.aborted = TRUE]
                        ELSE req[q]]
           /\ config' = IdleConfig
  <2>1. r \in Requests
      BY <1>1, Busy
  <2>2. ASSUME NEW q \in Requests, NEW new, new = [req[q] EXCEPT !.aborted = TRUE]
        PROVE  new \in RequestType /\ new.op = req[q].op /\ new.at = req[q].at
      BY <2>2, RequestTypes DEF RequestType
  <2>3. ASSUME NEW q \in Requests
        PROVE  req'[q] \in {IdleRequest, req[q], [req[q] EXCEPT !.aborted = TRUE]}
      BY <1>5
  <2>4. req'[r] = IdleRequest
      BY <1>5, <2>1
  <2>5. \A q \in Requests \ {r} :
            req'[q] \in {req[q], [req[q] EXCEPT !.aborted = TRUE]}
      BY <1>5
  <2>6. \A q \in Requests \ {r} : req'[q].op = req[q].op /\ req'[q].at = req[q].at
      BY <2>2, <2>5
  <2>7. \A q \in Requests : req'[q] \in RequestType
      BY <2>2, <2>3, RequestTypes
  <2>8. req' \in [Requests -> RequestType]
      BY <1>5, <2>7
  <2> QED
      BY <1>1, <1>2, <1>5, <2>4, <2>6, <2>8, HandledStep
<1> QED
    BY <1>3, <1>4, <1>5 DEF AbortPipe, FailsToFetchInput

\* ResetPipe preserves the invariant.
LEMMA ResetPipeStep ==
    ASSUME IInv, ResetPipe
    PROVE  IInv'
<1>1. /\ config.pc = "reset"
      /\ UNCHANGED <<thread, pipes, selected, dataQueue, waiting>>
    BY DEF ResetPipe
<1>2. dataQueue' = "started"
    BY <1>1 DEF IInv, TypeOK, ConfigInv, Changing
<1>3. CASE Handled
    BY <1>1, <1>2, <1>3, HandledAloneStep
<1>4. CASE config' = [config EXCEPT !.pc = "crashed"] /\ UNCHANGED req
    BY <1>1, <1>4, CrashStep DEF Changing
<1> QED
    BY <1>3, <1>4 DEF ResetPipe, FailsToFetchInput

\* ResetDevice preserves the invariant, one interface after the other.
LEMMA ResetDeviceStep ==
    ASSUME IInv, ResetDevice
    PROVE  IInv'
<1> DEFINE i == config.iface
<1>1. /\ config.pc = "resetDevice"
      /\ UNCHANGED <<thread, pipes, selected, dataQueue, waiting>>
    BY DEF ResetDevice
<1>2. dataQueue' = "started"
    BY <1>1 DEF IInv, TypeOK, ConfigInv, Changing
<1>3. CASE Handled
    BY <1>1, <1>2, <1>3, HandledAloneStep
<1>4. CASE config' = [config EXCEPT !.pc = "crashed"] /\ UNCHANGED req
    BY <1>1, <1>4, CrashStep DEF Changing
<1>5. ASSUME NEW failed \in SUBSET pipes[i], i < NumInterfaces,
             AbortOn(pipes[i] \ failed), config' = [config EXCEPT !.iface = i + 1]
      PROVE  IInv'
  <2>1. config \in ConfigType /\ i \in 0 .. NumInterfaces
      BY <1>1, Busy DEF ConfigType
  <2>2. i + 1 \in 0 .. NumInterfaces
      BY <1>5, <2>1, PipeTransfersAssumption
  <2>3. /\ config' \in ConfigType
        /\ config'.pc = "resetDevice" /\ config'.r = config.r
      BY <1>1, <1>5, <2>1, <2>2 DEF ConfigType
  <2> QED
      BY <1>1, <1>2, <1>5, <2>3, AbortOnMovesNone, WorkStep DEF Changing
<1> QED
    BY <1>3, <1>4, <1>5 DEF ResetDevice

\* The request for the driver below preserves the invariant.
LEMMA ForwardRequestStep ==
    ASSUME IInv, ForwardRequest
    PROVE  IInv'
<1>1. /\ config.pc = "other" /\ Handled
      /\ UNCHANGED <<thread, pipes, selected, dataQueue, waiting>>
    BY DEF ForwardRequest
<1>2. dataQueue' = "started"
    BY <1>1 DEF IInv, TypeOK, ConfigInv, Changing
<1> QED
    BY <1>1, <1>2, HandledAloneStep

\* The start of the drain preserves the invariant.
LEMMA StopDataQueueStep ==
    ASSUME IInv, StopDataQueue
    PROVE  IInv'
<1>1. /\ config.pc = "alt" /\ dataQueue' = "draining"
      /\ config' = [config EXCEPT !.pc = "select"]
      /\ UNCHANGED <<req, thread, pipes, selected, waiting>>
    BY DEF StopDataQueue
<1>2. config' \in ConfigType /\ config'.pc = "select" /\ config'.r = config.r
    BY <1>1, Busy DEF ConfigType
<1>3. req \in [Requests -> RequestType]
    BY DEF IInv, TypeOK
<1> QED
    BY <1>1, <1>2, <1>3, WorkStep DEF Changing

\* The selection of a setting preserves the invariant.
LEMMA SetInterfaceAltSettingStep ==
    ASSUME IInv, SetInterfaceAltSetting
    PROVE  IInv'
<1> DEFINE op == req[config.r].op
           i == op.iface
<1>1. config.pc = "select" /\ UNCHANGED <<thread, pipes, dataQueue, waiting>>
    BY DEF SetInterfaceAltSetting
<1>2. /\ config \in ConfigType /\ config.r \in Requests
      /\ req[config.r].at = "config" /\ op \in OperationType
    BY <1>1, Busy
<1>3. req \in [Requests -> RequestType] /\ dataQueue = "draining"
    BY <1>1 DEF IInv, TypeOK, ConfigInv, Changing
<1>4. CASE /\ config' = [config EXCEPT !.pc = "start", !.success = FALSE]
           /\ UNCHANGED <<req, selected>>
  <2>1. /\ config' \in ConfigType /\ config'.pc = "start"
        /\ config'.r = config.r /\ config'.success = FALSE
      BY <1>2, <1>4 DEF ConfigType
  <2> QED
      BY <1>1, <1>3, <1>4, <2>1, WorkStep DEF Changing
<1>5. CASE /\ i < NumInterfaces
           /\ selected' = [selected EXCEPT ![i] = op.setting]
           /\ config' = [config EXCEPT !.pc = "replace", !.iface = i]
           /\ AbortOn(PipesOf[i][selected[i]])
  <2>1. i \in 0 .. NumInterfaces /\ op.setting \in Settings
      BY <1>2 DEF OperationType
  <2>2. i \in Interfaces
    <3>1. NumInterfaces \in Nat /\ i < NumInterfaces
        BY <1>5, PipeTransfersAssumption
    <3> HIDE DEF i
    <3> QED
        BY <2>1, <3>1 DEF Interfaces
  <2>3. /\ config' \in ConfigType /\ config'.pc = "replace"
        /\ config'.r = config.r /\ config'.iface = i
      BY <1>2, <1>5, <2>1 DEF ConfigType
  <2>4. selected \in [Interfaces -> Settings]
      BY DEF IInv, TypeOK
  <2>5. /\ selected' \in [Interfaces -> Settings] /\ selected'[i] = op.setting
        /\ \A j \in Interfaces \ {i} : selected'[j] = selected[j]
      BY <1>5, <2>1, <2>2, <2>4
  <2>6. /\ req' \in [Requests -> RequestType]
        /\ \A q \in Requests : req'[q].op = req[q].op /\ req'[q].at = req[q].at
      BY <1>5, AbortOnMovesNone
  <2>7. TypeOK'
      BY <1>1, <2>3, <2>5, <2>6 DEF IInv, TypeOK
  <2>8. OneOwner' /\ LockInv'
      BY <1>1, <2>3, <2>6 DEF IInv, OneOwner, LockInv
  <2>9. OpsInv' /\ HandlerInv'
      BY <1>1, <2>6 DEF IInv, OpsInv, HandlerInv
  <2>10. \A k \in 1 .. Len(waiting) : waiting[k] \in Requests
      BY RequestTypes, ElementOfSeq DEF IInv, TypeOK
  <2>11. QueueInv'
      BY <1>1, <2>6, <2>10 DEF IInv, QueueInv
  <2>12. ConfigInv'
      BY <1>1, <1>2, <1>3, <2>3, PipeTransfersAssumption DEF ConfigInv, Changing
  <2>13. ChangeInv'
      BY <1>1, <1>2, <2>2, <2>3, <2>5, <2>6 DEF ChangeInv
  <2>14. Agreement'
      BY <1>1, <2>3, <2>5 DEF IInv, Agreement, PipesDeleted
  <2> QED
      BY <2>7, <2>8, <2>9, <2>11, <2>12, <2>13, <2>14 DEF IInv
<1> QED
    BY <1>4, <1>5 DEF SetInterfaceAltSetting

\* The new array of pipes preserves the invariant: the lock keeps it from
\* handlers that are in a pipe of the interface.
LEMMA SetAltSettingStep ==
    ASSUME IInv, SetAltSetting
    PROVE  IInv'
<1> DEFINE i == config.iface
           new == PipesOf[i][selected[i]]
<1>1. /\ config.pc = "replace" /\ LockFree(i)
      /\ UNCHANGED <<req, thread, selected, dataQueue, waiting>>
    BY DEF SetAltSetting
<1>2. /\ config \in ConfigType /\ config.r \in Requests
      /\ req[config.r].at = "config"
    BY <1>1, Busy
<1>3. dataQueue = "draining"
    BY <1>1 DEF IInv, ConfigInv, Changing
<1>4. /\ i \in Interfaces /\ req[config.r].op.iface = i
      /\ selected[i] = req[config.r].op.setting
    BY <1>1 DEF IInv, ChangeInv
<1>5. pipes \in [Interfaces -> (SUBSET Endpoints) \cup {NullPipes}]
    BY DEF IInv, TypeOK
<1>6. new \in SUBSET Endpoints /\ new # NullPipes
    BY <1>4, PipeTransfersAssumption DEF IInv, TypeOK, NullPipes
<1>7. ASSUME NEW array \in {new, NullPipes}, pipes' = [pipes EXCEPT ![i] = array],
             config' \in ConfigType, config'.pc = "start", config'.r = config.r,
             config'.success => array = new
      PROVE  IInv'
  <2>1. /\ pipes' \in [Interfaces -> (SUBSET Endpoints) \cup {NullPipes}]
        /\ pipes'[i] = array
        /\ \A j \in Interfaces \ {i} : pipes'[j] = pipes[j]
      BY <1>4, <1>5, <1>6, <1>7
  <2>2. TypeOK'
      BY <1>1, <1>7, <2>1 DEF IInv, TypeOK
  <2>3. OneOwner'
      BY <1>1, <1>7 DEF IInv, OneOwner
  <2>4. LockInv'
    <3>1. ASSUME NEW r \in Requests, thread[r].pc \in {"inPipe", "leave"}
          PROVE  thread[r].iface \in Interfaces \ {i}
        BY <1>1, <3>1 DEF LockFree, IInv, HandlerInv
    <3> QED
        BY <1>1, <2>1, <3>1 DEF IInv, LockInv
  <2>5. OpsInv' /\ HandlerInv' /\ QueueInv'
      BY <1>1 DEF IInv, OpsInv, HandlerInv, QueueInv
  <2>6. ConfigInv'
      BY <1>1, <1>2, <1>3, <1>7, PipeTransfersAssumption DEF ConfigInv, Changing
  <2>7. ChangeInv'
      BY <1>1, <1>4, <1>6, <1>7, <2>1 DEF ChangeInv
  <2>8. Agreement'
      BY <1>1, <1>7, <2>1 DEF IInv, Agreement, PipesDeleted
  <2> QED
      BY <2>2, <2>3, <2>4, <2>5, <2>6, <2>7, <2>8 DEF IInv
<1>8. CASE /\ pipes' = [pipes EXCEPT ![i] = new]
           /\ config' = [config EXCEPT !.pc = "start"]
  <2>1. config' \in ConfigType /\ config'.pc = "start" /\ config'.r = config.r
      BY <1>2, <1>8 DEF ConfigType
  <2> QED
      BY <1>7, <1>8, <2>1
<1>9. CASE /\ pipes' = [pipes EXCEPT ![i] = NullPipes]
           /\ config' = [config EXCEPT !.pc = "start", !.success = FALSE]
  <2>1. /\ config' \in ConfigType /\ config'.pc = "start" /\ config'.r = config.r
        /\ config'.success = FALSE
      BY <1>2, <1>9 DEF ConfigType
  <2> QED
      BY <1>7, <1>9, <2>1
<1> QED
    BY <1>8, <1>9 DEF SetAltSetting

\* The start of the parallel queue preserves the invariant.
LEMMA StartDataQueueStep ==
    ASSUME IInv, StartDataQueue
    PROVE  IInv'
<1>1. /\ config.pc = "start" /\ Handled /\ dataQueue' = "started"
      /\ UNCHANGED <<thread, pipes, selected, waiting>>
    BY DEF StartDataQueue
<1> QED
    BY <1>1, HandledAloneStep

\* Every step of the sequential queue preserves the invariant.
LEMMA ConfigStepIInv ==
    ASSUME IInv, ConfigStep
    PROVE  IInv'
BY IoDeviceControlConfigStep, AbortPipeStep, ResetPipeStep, ResetDeviceStep,
   ForwardRequestStep, StopDataQueueStep, SetInterfaceAltSettingStep,
   SetAltSettingStep, StartDataQueueStep DEF ConfigStep

\* Every step preserves the invariant.
LEMMA NextIInv == IInv /\ [Next]_vars => IInv'
<1> SUFFICES ASSUME IInv, [Next]_vars PROVE IInv'
    OBVIOUS
<1>1. CASE UNCHANGED vars
  <2>1. TypeOK' /\ OneOwner' /\ LockInv'
      BY <1>1 DEF IInv, vars, TypeOK, OneOwner, LockInv
  <2>2. OpsInv' /\ HandlerInv' /\ QueueInv'
      BY <1>1 DEF IInv, vars, OpsInv, HandlerInv, QueueInv
  <2>3. ConfigInv' /\ ChangeInv' /\ Agreement'
      BY <1>1 DEF IInv, vars, ConfigInv, ChangeInv, Agreement, PipesDeleted
  <2> QED
      BY <2>1, <2>2, <2>3 DEF IInv
<1>2. ASSUME NEW r \in Requests,
             \/ Ask(r) \/ IoDeviceControl(r) \/ HandlerStep(r) \/ CompleteTransferRequest(r)
      PROVE  IInv'
    BY <1>2, AskStep, IoDeviceControlStep, FindPipeStep, SubmitStep, ReturnStep,
       CompleteTransferRequestStep DEF HandlerStep
<1>3. CASE ConfigStep
    BY <1>3, ConfigStepIInv
<1> QED
    BY <1>1, <1>2, <1>3 DEF Next

\* The invariant holds in every state of a redirector, whatever its clients ask
\* for, whatever fails and however the two queues interleave.
THEOREM Invariance == Spec => []IInv
<1> QED
    BY InitIInv, NextIInv, PTL DEF Spec

\* Every variable keeps its type: in particular the search for a pipe and the
\* reset of the device never look at an interface beyond m_NumInterfaces.
THEOREM TypeCorrect == Spec => []TypeOK
<1>1. IInv => TypeOK
    BY DEF IInv
<1> QED
    BY <1>1, Invariance, PTL

\* A request is completed by exactly one of the handler, the completion routine
\* and the sequential queue: Detach and ~CWdfRequest agree on every path.
THEOREM RequestsHaveOneOwner == Spec => []OneOwner
<1>1. IInv => OneOwner
    BY DEF IInv
<1> QED
    BY <1>1, Invariance, PTL

\* A handler is in a pipe of the array in force, which is a pipe of the setting in
\* force but for the moment between the selection and the lock: SetAltSetting
\* takes the lock DoPipeOperation shares.
THEOREM PipesStayInUse == Spec => []PipeStaysInUse
<1>1. IInv => PipeStaysInUse
    BY DEF IInv, LockInv, HandlerInv, Agreement, PipeStaysInUse
<1> QED
    BY <1>1, Invariance, PTL

\* The arrays are those of the settings the device has whenever the sequential
\* thread looks at them without the lock, and a change of the setting that reports
\* success leaves device and driver with that setting.
THEOREM PipesAgree == Spec => []PipesFollowDevice
<1>1. IInv => PipesFollowDevice
    BY DEF IInv, Agreement, ChangeInv, PipesFollowDevice
<1> QED
    BY <1>1, Invariance, PTL

\* The parallel queue refuses requests only during a change of the setting:
\* IoDeviceControlConfig starts it again on every path.
THEOREM DrainsDuringChanges == Spec => [](dataQueue = "draining" => config.pc \in Changing)
<1>1. IInv => (dataQueue = "draining" => config.pc \in Changing)
    BY DEF IInv, ConfigInv
<1> QED
    BY <1>1, Invariance, PTL
=============================================================================
