-------------------------- MODULE InstallationProofs --------------------------
(***************************************************************************)
(* IInv is an inductive invariant of Installation, for any number of host   *)
(* controllers and of filters of other programs: what is on the machine is *)
(* related to the step the installing process has reached.                 *)
(***************************************************************************)
EXTENDS Installation, Loops, FiniteSetTheorems, SequenceTheorems, TLAPS

\* The driver is in the list of filters.
Listed == UsbDk \in Range(filters)

\* Between the copying of the file and the entry in the list, and after the
\* entry was taken out, the list is without it, unless it could not be written.
UnlistedSteps ==
  {"preInstall", "create", "verify", "postInstall", "listSize", "listValue", "listWrite",
   "uninstallReset", "deleteDriver", "preRemove", "deleteService", "postRemove"}

\* The steps between the creation of the service and the end.
ServiceSteps ==
  {"verify", "postInstall", "listSize", "listValue", "listWrite", "installReset"}

\* What the list in memory and the result are at each step.
RunInv == /\ IsInjective(run.list)
          /\ run.result # "none" <=> run.pc = "returned"

\* What an installation has put and a removal has taken away at each step.
ProgressInv ==
  /\ run.pc \in {"preInstall", "create"} => driver
  /\ run.pc \in ServiceSteps => driver /\ service = "present"
  /\ run.pc = "installReset" => Listed
  /\ run.pc \in UnlistedSteps => ~Listed \/ leftListed
  /\ run.pc \in {"preRemove", "deleteService", "postRemove"} => ~driver
  /\ run.pc = "postRemove" => service # "present"

\* An installation by the MSI helper during which nothing has failed.
Clean == run.tool = "helper" /\ ~disturbed /\ machine.verdict = "loads"

\* Its removal leaves nothing that the installation behind it could meet: a
\* driver that no controller runs with, so that its service can be deleted, no
\* file and no service.
CleanInv == Clean =>
  /\ run.after # "failure"
  /\ run.pc = "uninstallReset" => ~Listed
  /\ run.pc \in {"deleteDriver", "preRemove", "deleteService"} =>
       ~Loaded(stacks) /\ service # "marked"
  /\ run.pc \in {"preRemove", "deleteService", "postRemove", "openInstaller", "sign", "copy"} =>
       ~driver
  /\ run.pc \in {"postRemove", "openInstaller", "sign", "copy", "preInstall", "create"} =>
       service = "absent"

\* The inductive invariant.
IInv == /\ TypeOK /\ RunInv /\ ProgressInv /\ CleanInv
        /\ ListedDriverIsInstalled /\ ResultIsTrue /\ CleanInstallSucceeds
-------------------------------------------------------------------------------
(* Lists of filters.                                                         *)

\* All that can be listed.
Filters == OtherFilters \cup {UsbDk}

\* An entry is appended to a list that lacks it.
LEMMA AppendFilter ==
  ASSUME NEW T, NEW list \in Seq(T), NEW f \in T
  PROVE  /\ Append(list, f) \in Seq(T)
         /\ Range(Append(list, f)) = Range(list) \cup {f}
         /\ IsInjective(list) /\ f \notin Range(list) => IsInjective(Append(list, f))
<1> DEFINE new == Append(list, f)
<1>1. /\ new \in Seq(T) /\ Len(new) = Len(list) + 1 /\ DOMAIN new = 1 .. Len(list) + 1
      /\ DOMAIN list = 1 .. Len(list) /\ Len(list) \in Nat
      /\ \A i \in 1 .. Len(list) : new[i] = list[i]
      /\ new[Len(list) + 1] = f
  OBVIOUS
<1> HIDE DEF new
<1>2. Range(new) = Range(list) \cup {f}
  BY <1>1 DEF Range
<1>3. ASSUME IsInjective(list), f \notin Range(list), NEW i \in DOMAIN new, NEW j \in DOMAIN new,
             new[i] = new[j]
      PROVE  i = j
  BY <1>1, <1>3 DEF Range, IsInjective
<1>4. IsInjective(list) /\ f \notin Range(list) => IsInjective(new)
  BY <1>3 DEF IsInjective
<1> QED BY <1>1, <1>2, <1>4 DEF new

\* The first values of the loop of Without.
KeptUpTo(k, list, entry, n) ==
  k = [i \in 0 .. n |-> IF i = 0 THEN <<>>
                       ELSE IF list[i] = entry THEN k[i - 1] ELSE Append(k[i - 1], list[i])]

\* There is such a loop.
LEMMA KeptExists ==
  ASSUME NEW T, NEW n \in Nat, NEW list, \A i \in 1 .. n : list[i] \in T, NEW entry
  PROVE  \E k : KeptUpTo(k, list, entry, n)
<1> DEFINE V == Seq(T)
           Step(i, v) == IF list[i] = entry THEN v ELSE Append(v, list[i])
           step == [i \in 1 .. n |-> [v \in V |-> Step(i, v)]]
<1>1. <<>> \in V /\ \A i \in 1 .. n, v \in V : Step(i, v) \in V
  OBVIOUS
<1> HIDE DEF V, Step
<1>2. step \in Steps(n, V)
  BY <1>1 DEF Steps
<1>3. \A i \in 1 .. n, v \in V : step[i][v] = Step(i, v)
  OBVIOUS
<1> HIDE DEF step
<1>4. PICK f : IsLoop(f, n, V, <<>>, step)
  BY <1>1, <1>2, LoopExists
<1>5. f \in [0 .. n -> V] /\ f[0] = <<>> /\ \A i \in 1 .. n : f[i] = step[i][f[i - 1]]
  BY <1>4 DEF IsLoop
<1>6. \A i \in 1 .. n : f[i] = Step(i, f[i - 1])
  BY <1>3, <1>5
<1>7. f = [i \in 0 .. n |-> IF i = 0 THEN <<>> ELSE Step(i, f[i - 1])]
  BY <1>5, <1>6
<1> QED BY <1>7 DEF KeptUpTo, Step

\* The first entries of a list are distinct.
Distinct(list, n, T) == /\ \A i \in 1 .. n : list[i] \in T
                        /\ \A i, j \in 1 .. n : list[i] = list[j] => i = j

\* A list has all of the first entries but one, each once.
HasOthers(v, list, n, T, entry) ==
  v \in Seq(T) /\ Range(v) = {list[j] : j \in 1 .. n} \ {entry} /\ IsInjective(v)

\* Which is what the loop makes.
LEMMA KeptFacts ==
  ASSUME NEW T, NEW n \in Nat, NEW list, Distinct(list, n, T), NEW entry,
         NEW k, KeptUpTo(k, list, entry, n)
  PROVE  HasOthers(k[n], list, n, T, entry)
<1> DEFINE Before(i) == {list[j] : j \in 1 .. i}
           Good(v, i) == v \in Seq(T) /\ Range(v) = Before(i) \ {entry} /\ IsInjective(v)
           S == {i \in 0 .. n : Good(k[i], i)}
<1>1. k[0] = <<>>
  BY DEF KeptUpTo
<1>2. \A i \in 1 .. n : k[i] = IF list[i] = entry THEN k[i - 1] ELSE Append(k[i - 1], list[i])
  <2> DEFINE Step(i) == IF list[i] = entry THEN k[i - 1] ELSE Append(k[i - 1], list[i])
  <2>1. k = [i \in 0 .. n |-> IF i = 0 THEN <<>> ELSE Step(i)]
    BY DEF KeptUpTo
  <2> HIDE DEF Step
  <2>2. \A i \in 1 .. n : k[i] = Step(i)
    BY <2>1
  <2> QED BY <2>2 DEF Step
<1>3. 0 \in S
  <2>1. Range(<<>>) = {} /\ IsInjective(<<>>)
    BY DEF Range, IsInjective
  <2>2. Before(0) = {}
    OBVIOUS
  <2>3. <<>> \in Seq(T) /\ 0 \in 0 .. n
    OBVIOUS
  <2> HIDE DEF Before
  <2> QED BY <1>1, <2>1, <2>2, <2>3
<1>4. ASSUME NEW i \in 1 .. n, Good(k[i - 1], i - 1) PROVE Good(k[i], i)
  <2>1. Before(i) = Before(i - 1) \cup {list[i]}
    OBVIOUS
  <2>2. list[i] \notin Before(i - 1)
    BY DEF Distinct
  <2> DEFINE v == k[i - 1]
  <2> HIDE DEF Before
  <2>3. CASE list[i] = entry
    BY <1>2, <1>4, <2>1, <2>2, <2>3
  <2>4. CASE list[i] # entry
    <3>1. k[i] = Append(v, list[i])
      BY <1>2, <2>4
    <3>2. list[i] \notin Range(v) /\ list[i] \in T
      BY <1>4, <2>2 DEF Distinct
    <3>3. k[i] \in Seq(T) /\ Range(k[i]) = Range(v) \cup {list[i]} /\ IsInjective(k[i])
      BY <1>4, <3>1, <3>2, AppendFilter
    <3> QED BY <1>4, <2>1, <2>4, <3>3
  <2> QED BY <2>3, <2>4
<1> HIDE DEF Good
<1>5. \A i \in 1 .. n : i - 1 \in S => i \in S
  BY <1>4
<1>6. n \in S
  <2> HIDE DEF S
  <2>1. \A i \in 0 .. n : i \in S
    BY <1>3, <1>5, LoopInvariant
  <2> QED BY <2>1
<1> QED BY <1>6 DEF Good, HasOthers

\* Without takes one entry out and keeps all others, each once.
LEMMA WithoutFacts ==
  ASSUME NEW T, NEW list \in Seq(T), IsInjective(list), NEW entry
  PROVE  /\ Without(list, entry) \in Seq(T)
         /\ Range(Without(list, entry)) = Range(list) \ {entry}
         /\ IsInjective(Without(list, entry))
<1> DEFINE n == Len(list)
           k == CHOOSE f : KeptUpTo(f, list, entry, n)
<1>1. n \in Nat /\ DOMAIN list = 1 .. n /\ \A i \in 1 .. n : list[i] \in T
  OBVIOUS
<1>2. Without(list, entry) = k[n]
  BY DEF Without, KeptUpTo
<1>3. Distinct(list, n, T)
  BY <1>1 DEF IsInjective, Distinct
<1>4. Range(list) = {list[j] : j \in 1 .. n}
  BY <1>1 DEF Range
<1> HIDE DEF n
<1>5. \E f : KeptUpTo(f, list, entry, n)
  BY <1>1, KeptExists
<1>6. KeptUpTo(k, list, entry, n)
  BY <1>5
<1> HIDE DEF k
<1>7. HasOthers(k[n], list, n, T, entry)
  BY <1>1, <1>3, <1>6, KeptFacts
<1> QED BY <1>2, <1>4, <1>7 DEF HasOthers
-------------------------------------------------------------------------------
(* The record of the installing process.                                     *)

\* The steps of a call.
AllSteps == InstallSteps \cup UninstallSteps

\* An empty list is a list of filters.
LEMMA EmptyList == <<>> \in Seq(Filters) /\ IsInjective(<<>>)
  BY DEF IsInjective

\* The next step.
LEMMA GotoFacts ==
  ASSUME run \in RunType, NEW pc \in AllSteps
  PROVE  /\ Goto(pc) \in RunType
         /\ Goto(pc).pc = pc /\ Goto(pc).tool = run.tool /\ Goto(pc).after = run.after
         /\ Goto(pc).list = run.list /\ Goto(pc).result = run.result
  BY DEF RunType, Goto, AllSteps

\* A call returns.
LEMMA ReturnedFacts ==
  ASSUME run \in RunType, NEW result \in Results
  PROVE  /\ Returned(result) \in RunType
         /\ Returned(result).pc = "returned" /\ Returned(result).tool = run.tool
         /\ Returned(result).after = run.after
         /\ Returned(result).list = <<>> /\ Returned(result).result = result
  BY EmptyList DEF RunType, Returned, Filters

\* An installation begins.
LEMMA InstallDriverFacts ==
  ASSUME NEW r \in RunType
  PROVE  /\ InstallDriver(r) \in RunType
         /\ InstallDriver(r).pc = "openInstaller" /\ InstallDriver(r).tool = r.tool
         /\ InstallDriver(r).after = "return"
         /\ InstallDriver(r).list = <<>> /\ InstallDriver(r).result = r.result
  BY EmptyList DEF RunType, InstallDriver, InstallSteps, Filters

\* A removal begins.
LEMMA UninstallDriverFacts ==
  ASSUME NEW r \in RunType, NEW after \in {"return", "install", "failure"}
  PROVE  /\ UninstallDriver(r, after) \in RunType
         /\ UninstallDriver(r, after).pc = "openUninstaller"
         /\ UninstallDriver(r, after).tool = r.tool
         /\ UninstallDriver(r, after).after = after
         /\ UninstallDriver(r, after).list = <<>>
         /\ UninstallDriver(r, after).result = r.result
  BY EmptyList DEF RunType, UninstallDriver, UninstallSteps, Filters

\* What a process can have become when a part of its call is over: it has
\* returned a result, or begun the next part.
Over(r, results) ==
  /\ r \in RunType /\ r.tool = run.tool /\ r.list = <<>>
  /\ \/ r.pc = "returned" /\ r.result \in results
     \/ r.pc = "openInstaller" /\ r.after = "return" /\ r.result = run.result
     \/ r.pc = "openUninstaller" /\ r.after = "failure" /\ r.result = run.result

\* The end of a removal.
LEMMA UninstalledFacts ==
  ASSUME run \in RunType, NEW ok \in BOOLEAN
  PROVE  /\ Over(Uninstalled(ok), {IF ok THEN "Uninstalled" ELSE "UninstallFailed",
                                   "InstallFailure"})
         /\ Uninstalled(ok).pc # "openUninstaller"
         /\ Uninstalled(ok).pc = "returned" => Uninstalled(ok).after = run.after
         /\ Uninstalled(ok).result = "InstallFailure" =>
              run.after = "failure" \/ run.result = "InstallFailure"
<1>1. run.after \in {"return", "install", "failure"}
  BY DEF RunType
<1>2. CASE run.after = "return"
  <2>1. Uninstalled(ok) = Returned(IF ok THEN "Uninstalled" ELSE "UninstallFailed")
    BY <1>2 DEF Uninstalled
  <2> QED BY <2>1, ReturnedFacts DEF Over, Results
<1>3. CASE run.after = "install"
  <2>1. Uninstalled(ok) = InstallDriver(run)
    BY <1>3 DEF Uninstalled
  <2> QED BY <2>1, InstallDriverFacts DEF Over
<1>4. CASE run.after = "failure"
  <2>1. Uninstalled(ok) = Returned("InstallFailure")
    BY <1>4 DEF Uninstalled
  <2> QED BY <1>4, <2>1, ReturnedFacts DEF Over, Results
<1> QED BY <1>1, <1>2, <1>3, <1>4

\* An exception.
LEMMA ThrownFacts ==
  ASSUME run \in RunType
  PROVE  /\ Over(Thrown, {"UninstallFailed", "InstallFailure"})
         /\ run.pc \in UninstallSteps => Thrown = Uninstalled(FALSE)
<1>1. CASE run.pc \in UninstallSteps
  <2>1. Thrown = Uninstalled(FALSE)
    BY <1>1 DEF Thrown, InstallSteps, UninstallSteps
  <2>2. Over(Uninstalled(FALSE), {IF FALSE THEN "Uninstalled" ELSE "UninstallFailed",
                                  "InstallFailure"})
    BY UninstalledFacts
  <2> QED BY <2>1, <2>2
<1>2. CASE run.pc \notin UninstallSteps
  <2>1. Thrown \in {UninstallDriver(run, "failure"), Returned("InstallFailure")}
    BY <1>2 DEF Thrown
  <2>2. CASE Thrown = UninstallDriver(run, "failure")
    BY <1>2, <2>2, UninstallDriverFacts DEF Over
  <2>3. CASE Thrown = Returned("InstallFailure")
    BY <1>2, <2>3, ReturnedFacts DEF Over, Results
  <2> QED BY <2>1, <2>2, <2>3
<1> QED BY <1>1, <1>2
-------------------------------------------------------------------------------
(* The steps.                                                                *)

\* What the invariant says of the machine alone.
MachineTypeOK ==
  /\ driver \in BOOLEAN /\ testSigning \in BOOLEAN
  /\ disturbed \in BOOLEAN /\ leftListed \in BOOLEAN /\ overlooked \in BOOLEAN
  /\ service \in {"absent", "present", "marked"}
  /\ filters \in Seq(Filters) /\ IsInjective(filters)
  /\ stacks \in [Controllers -> {"plain", "filtered", "broken"}]
  /\ machine \in Machines

\* What is on the machine but the boot option.
parts == <<driver, service, filters, stacks, leftListed, overlooked, machine>>

\* The type invariant is about the machine and the process.
LEMMA TypeParts == TypeOK <=> MachineTypeOK /\ run \in RunType
  BY DEF TypeOK, MachineTypeOK, Filters

\* Only the process moves.
LEMMA ProcessMoves ==
  ASSUME IInv, UNCHANGED parts, testSigning' \in BOOLEAN, disturbed' \in BOOLEAN, run' \in RunType,
         RunInv', ProgressInv', CleanInv', ResultIsTrue', CleanInstallSucceeds'
  PROVE  IInv'
<1>1. MachineTypeOK'
  BY TypeParts DEF IInv, MachineTypeOK, parts
<1>2. TypeOK'
  BY <1>1 DEF TypeOK, MachineTypeOK, Filters
<1>3. ListedDriverIsInstalled'
  BY DEF IInv, ListedDriverIsInstalled, parts
<1> QED BY <1>2, <1>3 DEF IInv

\* A call goes on with the next step and has only read.
LEMMA GoesOn ==
  ASSUME IInv, UNCHANGED parts, testSigning' \in BOOLEAN, disturbed' = disturbed,
         run' \in RunType, run'.tool = run.tool, run'.after = run.after,
         run'.result = run.result, run.pc \in AllSteps, run'.pc \in AllSteps,
         IsInjective(run'.list), ProgressInv', CleanInv'
  PROVE  IInv'
<1>1. RunInv' /\ run.result = "none"
  BY DEF IInv, RunInv, AllSteps, InstallSteps, UninstallSteps
<1>2. ResultIsTrue' /\ CleanInstallSucceeds'
  BY <1>1 DEF ResultIsTrue, CleanInstallSucceeds
<1>3. disturbed' \in BOOLEAN
  BY DEF IInv, TypeOK
<1> QED BY <1>1, <1>2, <1>3, ProcessMoves

\* A part of a call is over.
LEMMA PartOver ==
  ASSUME IInv, UNCHANGED parts, testSigning' \in BOOLEAN, disturbed' \in BOOLEAN,
         run.pc \in AllSteps, NEW results \in SUBSET Results, Over(run', results),
         "InstallSuccess" \notin results,
         "Uninstalled" \in results => run.pc = "postRemove",
         Clean' => /\ Clean /\ run.pc \in UninstallSteps /\ run'.pc # "openUninstaller"
                   /\ run'.result \notin {"InstallFailure", "InstallAborted"}
                   /\ run'.pc = "returned" => run'.after = run.after
                   /\ ~driver /\ service = "absent"
  PROVE  IInv'
<1>1. run.result = "none"
  BY DEF IInv, RunInv, AllSteps, InstallSteps, UninstallSteps
<1>2. RunInv'
  BY <1>1, EmptyList DEF Over, RunInv, Results
<1>3. ProgressInv'
  BY DEF Over, ProgressInv, UnlistedSteps, ServiceSteps
<1>4. CleanInv'
  BY DEF IInv, CleanInv, Over, parts, AllSteps
<1>5. ResultIsTrue'
  <2>1. CASE run'.result = "Uninstalled"
    <3>1. run.pc = "postRemove"
      BY <1>1, <2>1 DEF Over
    <3> QED BY <2>1, <3>1 DEF IInv, ProgressInv, UnlistedSteps, Listed, ResultIsTrue, parts
  <2>2. CASE run'.result # "Uninstalled"
    BY <1>1, <2>2 DEF Over, ResultIsTrue
  <2> QED BY <2>1, <2>2
<1>6. CleanInstallSucceeds'
  BY DEF CleanInstallSucceeds, Clean
<1>7. run' \in RunType
  BY DEF Over
<1> QED BY <1>2, <1>3, <1>4, <1>5, <1>6, <1>7, ProcessMoves
\* Reading moves neither the machine nor the boot option.
LEMMA Frame ==
  ASSUME IInv, UNCHANGED <<system, machine>>
  PROVE  UNCHANGED parts /\ testSigning' \in BOOLEAN
  BY DEF IInv, TypeOK, parts, system

\* The steps that only go on.
LEMMA OpenedStep == ASSUME IInv, Opened PROVE IInv'
<1>1. run \in RunType /\ UNCHANGED parts /\ testSigning' \in BOOLEAN
  BY Frame DEF IInv, TypeOK, Opened
<1>2. /\ run' \in RunType /\ run'.tool = run.tool /\ run'.after = run.after
      /\ run'.list = run.list /\ run'.result = run.result
      /\ \/ run.pc = "openInstaller" /\ run'.pc = "sign"
         \/ run.pc = "openUninstaller" /\ run'.pc = "unlistSize"
  BY <1>1, GotoFacts DEF Opened, At, AllSteps, InstallSteps, UninstallSteps
<1>3. IsInjective(run'.list) /\ run.pc \in AllSteps /\ run'.pc \in AllSteps
  BY <1>2 DEF IInv, RunInv, AllSteps, InstallSteps, UninstallSteps
<1>4. disturbed' = disturbed
  BY DEF Opened
<1>5. ProgressInv'
  BY <1>2 DEF ProgressInv, UnlistedSteps, ServiceSteps
<1>6. CleanInv'
  BY <1>1, <1>2, <1>4 DEF IInv, CleanInv, Clean, parts
<1> QED BY <1>1, <1>2, <1>3, <1>4, <1>5, <1>6, GoesOn

\* The look at the boot option.
LEMMA CheckSigningStep == ASSUME IInv, CheckSigning PROVE IInv'
<1>1. run \in RunType /\ UNCHANGED parts /\ disturbed' = disturbed /\ testSigning \in BOOLEAN
  BY DEF IInv, TypeOK, CheckSigning, parts
<1>2. PICK readable \in BOOLEAN, bcdedit \in BOOLEAN :
        LET enabled == AttemptsTestSigning(readable) /\ bcdedit
        IN  /\ testSigning' = (testSigning \/ enabled)
            /\ run' = [run EXCEPT !.pc = "copy", !.reboot = enabled]
  BY DEF CheckSigning
<1>3. (AttemptsTestSigning(readable) /\ bcdedit) \in BOOLEAN /\ testSigning' \in BOOLEAN
  BY <1>2
<1>4. /\ run' \in RunType /\ run'.tool = run.tool /\ run'.after = run.after
      /\ run'.list = run.list /\ run'.result = run.result
      /\ run.pc = "sign" /\ run'.pc = "copy"
  <2>1. PICK b \in BOOLEAN : run' = [run EXCEPT !.pc = "copy", !.reboot = b]
    BY <1>2, <1>3
  <2>2. run.pc = "sign"
    BY DEF CheckSigning, At
  <2> QED BY <1>1, <2>1, <2>2 DEF RunType, InstallSteps
<1>5. IsInjective(run'.list) /\ run.pc \in AllSteps /\ run'.pc \in AllSteps
  BY <1>4 DEF IInv, RunInv, AllSteps, InstallSteps, UninstallSteps
<1>6. ProgressInv'
  BY <1>4 DEF ProgressInv, UnlistedSteps, ServiceSteps
<1>7. CleanInv'
  BY <1>1, <1>4 DEF IInv, CleanInv, Clean, parts
<1> QED BY <1>1, <1>3, <1>4, <1>5, <1>6, <1>7, GoesOn

\* The co-installer is told.
LEMMA PreDeviceInstallStep == ASSUME IInv, PreDeviceInstallEx PROVE IInv'
<1>1. run \in RunType /\ UNCHANGED parts /\ testSigning' \in BOOLEAN /\ disturbed' = disturbed
  BY Frame DEF IInv, TypeOK, PreDeviceInstallEx
<1>2. /\ run' \in RunType /\ run'.tool = run.tool /\ run'.after = run.after
      /\ run'.list = run.list /\ run'.result = run.result
      /\ run.pc = "preInstall" /\ run'.pc = "create"
  <2>1. PICK b \in BOOLEAN : run' = [run EXCEPT !.pc = "create", !.reboot = @ \/ b]
    BY DEF PreDeviceInstallEx
  <2>2. run.pc = "preInstall"
    BY DEF PreDeviceInstallEx, At
  <2> QED BY <1>1, <2>1, <2>2 DEF RunType, InstallSteps
<1>3. IsInjective(run'.list) /\ run.pc \in AllSteps /\ run'.pc \in AllSteps
  BY <1>2 DEF IInv, RunInv, AllSteps, InstallSteps, UninstallSteps
<1>4. ProgressInv'
  BY <1>1, <1>2 DEF IInv, ProgressInv, UnlistedSteps, ServiceSteps, Listed, parts
<1>5. CleanInv'
  BY <1>1, <1>2 DEF IInv, CleanInv, Clean, parts
<1> QED BY <1>1, <1>2, <1>3, <1>4, <1>5, GoesOn

\* The co-installer is told again.
LEMMA PostDeviceInstallStep == ASSUME IInv, PostDeviceInstall PROVE IInv'
<1>1. run \in RunType /\ UNCHANGED parts /\ testSigning' \in BOOLEAN /\ disturbed' = disturbed
  BY Frame DEF IInv, TypeOK, PostDeviceInstall
<1>2. /\ run' \in RunType /\ run'.tool = run.tool /\ run'.after = run.after
      /\ run'.list = run.list /\ run'.result = run.result
      /\ run.pc = "postInstall" /\ run'.pc = "listSize"
  BY <1>1, GotoFacts DEF PostDeviceInstall, At, AllSteps, InstallSteps
<1>3. IsInjective(run'.list) /\ run.pc \in AllSteps /\ run'.pc \in AllSteps
  BY <1>2 DEF IInv, RunInv, AllSteps, InstallSteps, UninstallSteps
<1>4. ProgressInv'
  BY <1>1, <1>2 DEF IInv, ProgressInv, UnlistedSteps, ServiceSteps, Listed, parts
<1>5. CleanInv'
  BY <1>1, <1>2 DEF IInv, CleanInv, Clean, parts
<1> QED BY <1>1, <1>2, <1>3, <1>4, <1>5, GoesOn

\* The co-installer is told of a removal.
LEMMA PreDeviceRemoveStep == ASSUME IInv, PreDeviceRemove PROVE IInv'
<1>1. run \in RunType /\ UNCHANGED parts /\ testSigning' \in BOOLEAN /\ disturbed' = disturbed
  BY Frame DEF IInv, TypeOK, PreDeviceRemove
<1>2. /\ run' \in RunType /\ run'.tool = run.tool /\ run'.after = run.after
      /\ run'.list = run.list /\ run'.result = run.result
      /\ run.pc = "preRemove" /\ run'.pc = "deleteService"
  BY <1>1, GotoFacts DEF PreDeviceRemove, At, AllSteps, UninstallSteps
<1>3. IsInjective(run'.list) /\ run.pc \in AllSteps /\ run'.pc \in AllSteps
  BY <1>2 DEF IInv, RunInv, AllSteps, InstallSteps, UninstallSteps
<1>4. ProgressInv'
  BY <1>1, <1>2 DEF IInv, ProgressInv, UnlistedSteps, ServiceSteps, Listed, parts
<1>5. CleanInv'
  BY <1>1, <1>2 DEF IInv, CleanInv, Clean, parts
<1> QED BY <1>1, <1>2, <1>3, <1>4, <1>5, GoesOn
\* The two lists that are read: where, where to after the size was read, and
\* where to when there is no value.
Reads == {<<"listSize", "listValue", "listWrite">>,
          <<"unlistSize", "unlistValue", "uninstallReset">>,
          <<"listValue", "listWrite", "listWrite">>,
          <<"unlistValue", "unlistWrite", "uninstallReset">>}

\* The list in memory is the one in the registry.
LEMMA ListReadStep ==
  ASSUME IInv, UNCHANGED <<system, machine>>, disturbed' = disturbed,
         NEW pc, NEW value, NEW none, <<pc, value, none>> \in Reads, At(pc),
         run' = [run EXCEPT !.list = filters,
                            !.pc = IF filters = <<>> THEN none ELSE value]
  PROVE  IInv'
<1>1. run \in RunType /\ UNCHANGED parts /\ testSigning' \in BOOLEAN
  BY Frame DEF IInv, TypeOK
<1>2. filters \in Seq(OtherFilters \cup {UsbDk}) /\ IsInjective(filters)
  BY DEF IInv, TypeOK
<1>3. pc \in AllSteps /\ value \in AllSteps /\ none \in AllSteps /\ run.pc = pc
  BY DEF Reads, AllSteps, InstallSteps, UninstallSteps, At
<1>4. PICK next \in {value, none} : /\ run' = [run EXCEPT !.list = filters, !.pc = next]
                                    /\ filters # <<>> => next = value
  BY <1>3
<1>5. /\ run' \in RunType /\ run'.tool = run.tool /\ run'.after = run.after
      /\ run'.list = filters /\ run'.result = run.result /\ run'.pc = next
  BY <1>1, <1>2, <1>3, <1>4 DEF RunType, AllSteps
<1>6. filters = <<>> => ~Listed
  BY DEF Listed, Range
<1>7. /\ next \in {"listValue", "listWrite", "unlistValue", "unlistWrite", "uninstallReset"}
      /\ next \in {"listValue", "listWrite"} => pc \in {"listSize", "listValue"}
      /\ next = "uninstallReset" => ~Listed
  BY <1>4, <1>6 DEF Reads
<1>8. ProgressInv'
  BY <1>1, <1>3, <1>5, <1>7 DEF IInv, ProgressInv, UnlistedSteps, ServiceSteps, Listed, parts
<1>9. CleanInv'
  BY <1>1, <1>5, <1>7 DEF IInv, CleanInv, Clean, Listed, parts
<1> QED BY <1>1, <1>2, <1>3, <1>4, <1>5, <1>8, <1>9, GoesOn

\* A call that fails at a step that has disturbed the installation.
LEMMA ThrownStep ==
  ASSUME IInv, UNCHANGED <<system, machine>>, disturbed' = TRUE, run.pc \in AllSteps,
         run' = Thrown
  PROVE  IInv'
<1>1. run \in RunType /\ UNCHANGED parts /\ testSigning' \in BOOLEAN
  BY Frame DEF IInv, TypeOK
<1>2. Over(run', {"UninstallFailed", "InstallFailure"})
  BY <1>1, ThrownFacts
<1>3. ~Clean'
  BY DEF Clean
<1> QED BY <1>1, <1>2, <1>3, PartOver DEF Results

\* A call into Windows fails.
LEMMA CallFailsStep == ASSUME IInv, CallFails PROVE IInv'
  BY ThrownStep DEF CallFails, AllSteps

\* The size of the list is read.
LEMMA MeasureStep ==
  ASSUME IInv, NEW pc, NEW value, NEW none, <<pc, value, none>> \in Reads,
         MeasureFilters(pc, value, none)
  PROVE  IInv'
  BY ListReadStep DEF MeasureFilters

\* The list is read, or has grown and does not fit.
LEMMA ReadStep ==
  ASSUME IInv, NEW pc, NEW value, NEW none, <<pc, value, none>> \in Reads,
         ReadFilters(pc, value, none)
  PROVE  IInv'
<1>1. CASE Len(filters) > Len(run.list)
  <2>1. run.pc \in AllSteps
    BY DEF ReadFilters, At, Reads, AllSteps, InstallSteps, UninstallSteps
  <2> QED BY <1>1, <2>1, ThrownStep DEF ReadFilters
<1>2. CASE ~(Len(filters) > Len(run.list))
  BY <1>2, ListReadStep DEF ReadFilters
<1> QED BY <1>1, <1>2

\* A removal is over: everything it reports is so.
LEMMA PostDeviceRemoveStep == ASSUME IInv, PostDeviceRemove PROVE IInv'
<1>1. run \in RunType /\ UNCHANGED parts /\ testSigning' \in BOOLEAN /\ disturbed' = disturbed
  BY Frame DEF IInv, TypeOK, PostDeviceRemove
<1>2. run.pc = "postRemove" /\ run.pc \in UninstallSteps /\ run' = Uninstalled(TRUE)
  BY DEF PostDeviceRemove, At, UninstallSteps
<1>3. Over(run', {"Uninstalled", "InstallFailure"})
  BY <1>1, <1>2, UninstalledFacts
<1>4. run.result = "none"
  BY <1>2 DEF IInv, RunInv
<1>5. run'.pc # "openUninstaller" /\ (run'.pc = "returned" => run'.after = run.after)
  BY <1>1, <1>2, UninstalledFacts
<1>6. run'.result = "InstallFailure" => run.after = "failure"
  BY <1>1, <1>2, <1>4, UninstalledFacts
<1>7. Clean' => Clean /\ run.after # "failure" /\ ~driver /\ service = "absent"
  BY <1>1, <1>2, <1>3 DEF IInv, CleanInv, Clean, Over, parts
<1>8. run'.result \notin {"InstallAborted"}
  BY <1>3, <1>4 DEF Over
<1>9. disturbed' \in BOOLEAN
  BY <1>1 DEF IInv, TypeOK
<1> QED BY <1>1, <1>2, <1>3, <1>5, <1>6, <1>7, <1>8, <1>9, PartOver DEF Results, AllSteps

\* Between the calls.
LEMMA IdleFacts ==
  ASSUME NEW tool \in {"controller", "helper"}
  PROVE  /\ Idle \in RunType /\ Idle.pc = "idle" /\ Idle.tool = "none"
         /\ Idle.list = <<>> /\ Idle.result = "none"
         /\ [Idle EXCEPT !.tool = tool] \in RunType
         /\ [Idle EXCEPT !.tool = tool].tool = tool
         /\ [Idle EXCEPT !.tool = tool].result = "none"
  BY EmptyList DEF Idle, RunType, Filters, InstallSteps

\* A program calls the library.
LEMMA BeginStep ==
  ASSUME IInv, NEW tool \in {"controller", "helper"}, Begin(tool) PROVE IInv'
<1> DEFINE started == [Idle EXCEPT !.tool = tool]
<1>1. UNCHANGED parts /\ testSigning' \in BOOLEAN /\ disturbed' \in BOOLEAN
  BY Frame DEF Begin
<1>2. started \in RunType /\ started.tool = tool /\ started.result = "none"
  BY IdleFacts
<1> HIDE DEF started
<1>3. \/ run' = UninstallDriver(started, "return")
      \/ tool = "controller" /\ run' = InstallDriver(started)
      \/ tool = "helper" /\ run' = UninstallDriver(started, "install")
  BY DEF Begin, started
<1>4. /\ run' \in RunType /\ run'.tool = tool /\ run'.list = <<>> /\ run'.result = "none"
      /\ \/ run'.pc = "openUninstaller" /\ run'.after # "failure"
         \/ run'.pc = "openInstaller" /\ tool = "controller"
  BY <1>2, <1>3, InstallDriverFacts, UninstallDriverFacts
<1>5. RunInv'
  BY <1>4, EmptyList DEF RunInv
<1>6. ProgressInv'
  BY <1>4 DEF ProgressInv, UnlistedSteps, ServiceSteps
<1>7. CleanInv'
  BY <1>4 DEF CleanInv, Clean
<1>8. ResultIsTrue' /\ CleanInstallSucceeds'
  BY <1>4 DEF ResultIsTrue, CleanInstallSucceeds
<1> QED BY <1>1, <1>4, <1>5, <1>6, <1>7, <1>8, ProcessMoves

\* An idle process claims nothing.
LEMMA IdleClaims ==
  ASSUME run' = Idle
  PROVE  run' \in RunType /\ RunInv' /\ ProgressInv' /\ CleanInv' /\ ResultIsTrue'
         /\ CleanInstallSucceeds'
<1>1. /\ run' \in RunType /\ run'.pc = "idle" /\ run'.tool = "none" /\ run'.list = <<>>
      /\ run'.result = "none"
  BY IdleFacts
<1>2. RunInv'
  BY <1>1, EmptyList DEF RunInv
<1>3. ProgressInv'
  BY <1>1 DEF ProgressInv, UnlistedSteps, ServiceSteps
<1>4. CleanInv'
  BY <1>1 DEF CleanInv, Clean
<1> QED BY <1>1, <1>2, <1>3, <1>4 DEF ResultIsTrue, CleanInstallSucceeds

\* The program ends.
LEMMA ExitStep == ASSUME IInv, Exit PROVE IInv'
<1>1. disturbed' \in BOOLEAN
  BY DEF Exit, IInv, TypeOK
<1> QED BY <1>1, Frame, IdleClaims, ProcessMoves DEF Exit

\* The program is killed.
LEMMA InstallerDiesStep == ASSUME IInv, InstallerDies PROVE IInv'
<1>1. disturbed' \in BOOLEAN
  BY DEF InstallerDies, IInv, TypeOK
<1> QED BY <1>1, Frame, IdleClaims, ProcessMoves DEF InstallerDies
\* The type of the next state, taken apart.
LEMMA TypeNext == MachineTypeOK' /\ run' \in RunType => TypeOK'
  BY DEF TypeOK, MachineTypeOK, Filters

\* The file is copied, or is there and stays; before it is copied nothing is listed.
LEMMA CopyDriverStep == ASSUME IInv, CopyDriver PROVE IInv'
<1>1. run \in RunType /\ MachineTypeOK
  BY TypeParts DEF IInv
<1>2. /\ run.pc = "copy" /\ run.result = "none" /\ driver' = TRUE /\ disturbed' = disturbed
      /\ UNCHANGED <<service, filters, stacks, testSigning, leftListed, overlooked, machine>>
  BY DEF CopyDriver, At, IInv, RunInv
<1>3. MachineTypeOK' /\ ListedDriverIsInstalled'
  BY <1>1, <1>2 DEF IInv, MachineTypeOK, ListedDriverIsInstalled
<1>4. CASE driver
  <2>1. run' = Thrown
    BY <1>4 DEF CopyDriver
  <2>2. Over(run', {"UninstallFailed", "InstallFailure"})
    BY <1>1, <2>1, ThrownFacts
  <2>3. ~Clean' /\ UNCHANGED parts /\ run.pc \in AllSteps /\ testSigning' \in BOOLEAN
        /\ disturbed' \in BOOLEAN
    BY <1>1, <1>2, <1>4, <2>2
       DEF IInv, CleanInv, Clean, Over, parts, AllSteps, InstallSteps, MachineTypeOK
  <2> QED BY <2>2, <2>3, PartOver DEF Results
<1>5. CASE ~driver
  <2>1. run' = [run EXCEPT !.pc = "preInstall", !.rollback = TRUE]
    BY <1>5 DEF CopyDriver
  <2>2. /\ run' \in RunType /\ run'.pc = "preInstall" /\ run'.tool = run.tool
        /\ run'.after = run.after /\ run'.list = run.list /\ run'.result = run.result
    BY <1>1, <2>1 DEF RunType, InstallSteps
  <2>3. RunInv'
    BY <1>2, <2>2 DEF IInv, RunInv
  <2>4. ProgressInv'
    BY <1>2, <1>5, <2>2
       DEF IInv, ListedDriverIsInstalled, Listed, ProgressInv, ServiceSteps, UnlistedSteps
  <2>5. CleanInv'
    BY <1>2, <2>2 DEF IInv, CleanInv, Clean
  <2>6. ResultIsTrue' /\ CleanInstallSucceeds'
    BY <1>2, <2>2 DEF ResultIsTrue, CleanInstallSucceeds
  <2> QED BY <1>3, <2>2, <2>3, <2>4, <2>5, <2>6, TypeNext DEF IInv
<1> QED BY <1>4, <1>5

\* The service is created, or what was there of it is marked or deleted; the
\* file stays listed nowhere.
LEMMA CreateServiceStep == ASSUME IInv, CreateServiceObject PROVE IInv'
<1>1. run \in RunType /\ MachineTypeOK
  BY TypeParts DEF IInv
<1>2. /\ run.pc = "create" /\ run.result = "none" /\ driver
      /\ (~Listed \/ leftListed)
      /\ service' \in {"absent", "present", "marked"} /\ disturbed' \in BOOLEAN
      /\ UNCHANGED <<driver, filters, stacks, testSigning, leftListed, overlooked, machine>>
  BY <1>1 DEF CreateServiceObject, At, IInv, RunInv, ProgressInv, UnlistedSteps,
              ServiceDeleted, MachineTypeOK
<1>3. MachineTypeOK' /\ ListedDriverIsInstalled'
  BY <1>1, <1>2 DEF MachineTypeOK, ListedDriverIsInstalled, Listed
<1>4. CASE service' = "present" /\ run' = Goto("verify") /\ disturbed' = disturbed
  <2>1. /\ run' \in RunType /\ run'.pc = "verify" /\ run'.tool = run.tool
        /\ run'.after = run.after /\ run'.list = run.list /\ run'.result = run.result
    BY <1>1, <1>4, GotoFacts DEF AllSteps, InstallSteps
  <2>2. RunInv'
    BY <1>2, <2>1 DEF IInv, RunInv
  <2>3. ProgressInv'
    BY <1>2, <1>4, <2>1 DEF Listed, ProgressInv, ServiceSteps, UnlistedSteps
  <2>4. CleanInv'
    BY <1>2, <1>4, <2>1 DEF IInv, CleanInv, Clean
  <2>5. ResultIsTrue' /\ CleanInstallSucceeds'
    BY <1>2, <2>1 DEF ResultIsTrue, CleanInstallSucceeds
  <2> QED BY <1>3, <2>1, <2>2, <2>3, <2>4, <2>5, TypeNext DEF IInv
<1>5. CASE run' = Thrown /\ ~Clean'
  <2>1. Over(run', {"UninstallFailed", "InstallFailure"})
    BY <1>1, <1>5, ThrownFacts
  <2>2. RunInv'
    BY <1>2, <2>1, EmptyList DEF Over, RunInv
  <2>3. ProgressInv'
    BY <2>1 DEF Over, ProgressInv, UnlistedSteps, ServiceSteps
  <2>4. CleanInv'
    BY <1>5 DEF CleanInv
  <2>5. ResultIsTrue' /\ CleanInstallSucceeds'
    BY <1>2, <1>5, <2>1 DEF Over, ResultIsTrue, CleanInstallSucceeds, Clean
  <2> QED BY <1>3, <2>1, <2>2, <2>3, <2>4, <2>5, TypeNext DEF IInv, Over
<1>6. \/ service' = "present" /\ run' = Goto("verify") /\ disturbed' = disturbed
      \/ run' = Thrown /\ (disturbed' \/ (service # "absent" /\ UNCHANGED disturbed))
  BY DEF CreateServiceObject
<1>7. ASSUME run' = Thrown, service # "absent", UNCHANGED disturbed PROVE ~Clean'
  <2>1. ~Clean
    BY <1>2, <1>7 DEF IInv, CleanInv
  <2>2. run'.tool = run.tool
    BY <1>1, <1>7, ThrownFacts DEF Over
  <2> QED BY <1>2, <1>7, <2>1, <2>2 DEF Clean
<1> QED BY <1>4, <1>5, <1>6, <1>7 DEF Clean

\* The driver may start, or the installation is aborted without it in the list.
LEMMA VerifyStep == ASSUME IInv, VerifyDriverCanStart PROVE IInv'
<1>1. run \in RunType /\ MachineTypeOK
  BY TypeParts DEF IInv
<1>2. /\ run.pc = "verify" /\ run.result = "none" /\ driver /\ service = "present"
      /\ (~Listed \/ leftListed)
      /\ UNCHANGED <<driver, filters, stacks, testSigning, leftListed, overlooked, machine>>
  BY DEF VerifyDriverCanStart, At, IInv, RunInv, ProgressInv, UnlistedSteps, ServiceSteps
<1>3. CASE run' = Goto("postInstall") /\ UNCHANGED <<service, disturbed>>
  <2>1. /\ run' \in RunType /\ run'.pc = "postInstall" /\ run'.tool = run.tool
        /\ run'.after = run.after /\ run'.list = run.list /\ run'.result = run.result
    BY <1>1, <1>3, GotoFacts DEF AllSteps, InstallSteps
  <2>2. RunInv' /\ MachineTypeOK' /\ ListedDriverIsInstalled'
    BY <1>1, <1>2, <1>3, <2>1 DEF IInv, RunInv, MachineTypeOK, ListedDriverIsInstalled
  <2>3. ProgressInv'
    BY <1>2, <1>3, <2>1 DEF Listed, ProgressInv, ServiceSteps, UnlistedSteps
  <2>4. CleanInv'
    BY <1>2, <1>3, <2>1 DEF IInv, CleanInv, Clean
  <2>5. ResultIsTrue' /\ CleanInstallSucceeds'
    BY <1>2, <2>1 DEF ResultIsTrue, CleanInstallSucceeds
  <2> QED BY <2>1, <2>2, <2>3, <2>4, <2>5, TypeNext DEF IInv
<1>4. CASE /\ service' \in {service, ServiceDeleted}
           /\ run' = Returned("InstallAborted")
           /\ disturbed' = (disturbed \/ machine.verdict # "refused")
  <2>1. /\ run' \in RunType /\ run'.pc = "returned" /\ run'.tool = run.tool
        /\ run'.list = <<>> /\ run'.result = "InstallAborted"
    BY <1>1, <1>4, ReturnedFacts DEF Results
  <2>2. RunInv'
    BY <2>1, EmptyList DEF RunInv
  <2>3. disturbed' \in BOOLEAN /\ ~Clean'
    BY <1>1, <1>2, <1>4 DEF MachineTypeOK, Clean
  <2>4. MachineTypeOK' /\ ListedDriverIsInstalled'
    BY <1>1, <1>2, <1>4, <2>3 DEF MachineTypeOK, ListedDriverIsInstalled, ServiceDeleted, Listed
  <2>5. ProgressInv' /\ CleanInv'
    BY <2>1, <2>3 DEF ProgressInv, ServiceSteps, UnlistedSteps, CleanInv
  <2>6. ResultIsTrue' /\ CleanInstallSucceeds'
    BY <2>1, <2>3 DEF ResultIsTrue, CleanInstallSucceeds, Clean
  <2> QED BY <2>1, <2>2, <2>4, <2>5, <2>6, TypeNext DEF IInv
<1> QED BY <1>3, <1>4 DEF VerifyDriverCanStart
\* What is appended to the list that was read.
LEMMA NewList ==
  ASSUME run \in RunType, IsInjective(run.list)
  PROVE  /\ WithoutUsbDk(run.list) \in Seq(Filters) /\ IsInjective(WithoutUsbDk(run.list))
         /\ Range(WithoutUsbDk(run.list)) = Range(run.list) \ {UsbDk}
         /\ Append(WithoutUsbDk(run.list), UsbDk) \in Seq(Filters)
         /\ IsInjective(Append(WithoutUsbDk(run.list), UsbDk))
         /\ Range(Append(WithoutUsbDk(run.list), UsbDk)) = Range(run.list) \cup {UsbDk}
<1>1. run.list \in Seq(Filters) /\ UsbDk \in Filters
  BY DEF RunType, Filters
<1>2. /\ WithoutUsbDk(run.list) \in Seq(Filters) /\ IsInjective(WithoutUsbDk(run.list))
      /\ Range(WithoutUsbDk(run.list)) = Range(run.list) \ {UsbDk}
  BY <1>1, WithoutFacts DEF WithoutUsbDk
<1>3. UsbDk \notin Range(WithoutUsbDk(run.list))
  BY <1>2
<1> QED BY <1>1, <1>2, <1>3, AppendFilter

\* The process empties its list and goes on.
LEMMA ListWritten ==
  ASSUME run \in RunType, NEW pc \in AllSteps, run' = [run EXCEPT !.pc = pc, !.list = <<>>]
  PROVE  /\ run' \in RunType /\ run'.pc = pc /\ run'.tool = run.tool
         /\ run'.after = run.after /\ run'.list = <<>> /\ run'.result = run.result
  BY EmptyList DEF RunType, AllSteps, Filters

\* UsbDk gets into the list when its file and its service are there.
LEMMA ListWriteStep ==
  ASSUME IInv, At("listWrite"), filters' = Append(WithoutUsbDk(run.list), UsbDk),
         leftListed' = FALSE, run' = [run EXCEPT !.pc = "installReset", !.list = <<>>],
         UNCHANGED <<driver, service, stacks, testSigning, overlooked, machine, disturbed>>
  PROVE  IInv'
<1>1. run \in RunType /\ MachineTypeOK
  BY TypeParts DEF IInv
<1>2. run.pc = "listWrite" /\ run.result = "none" /\ driver /\ service = "present"
  BY DEF At, IInv, RunInv, ProgressInv, ServiceSteps
<1>3. /\ run' \in RunType /\ run'.pc = "installReset" /\ run'.tool = run.tool
      /\ run'.after = run.after /\ run'.list = <<>> /\ run'.result = run.result
  BY <1>1, ListWritten DEF AllSteps, InstallSteps
<1>4. filters' \in Seq(Filters) /\ IsInjective(filters') /\ Listed'
  BY <1>1, NewList DEF IInv, RunInv, Listed
<1>5. MachineTypeOK'
  BY <1>1, <1>4 DEF MachineTypeOK
<1>6. RunInv' /\ ListedDriverIsInstalled'
  BY <1>2, <1>3, EmptyList DEF RunInv, ListedDriverIsInstalled
<1>7. ProgressInv'
  BY <1>2, <1>3, <1>4 DEF ProgressInv, ServiceSteps, UnlistedSteps
<1>8. CleanInv'
  BY <1>3 DEF IInv, CleanInv, Clean
<1>9. ResultIsTrue' /\ CleanInstallSucceeds'
  BY <1>2, <1>3 DEF ResultIsTrue, CleanInstallSucceeds
<1> QED BY <1>3, <1>5, <1>6, <1>7, <1>8, <1>9, TypeNext DEF IInv

\* UsbDk is taken out of the list, or stays there and that is remembered.
LEMMA UnlistWriteStep ==
  ASSUME IInv, At("unlistWrite"),
         \/ /\ filters' = WithoutUsbDk(run.list)
            /\ leftListed' = FALSE
            /\ UNCHANGED disturbed
         \/ /\ UNCHANGED filters
            /\ leftListed' = (UsbDk \in Range(filters))
            /\ disturbed' = TRUE,
         run' = [run EXCEPT !.pc = "uninstallReset", !.list = <<>>],
         UNCHANGED <<driver, service, stacks, testSigning, overlooked, machine>>
  PROVE  IInv'
<1>1. run \in RunType /\ MachineTypeOK
  BY TypeParts DEF IInv
<1>2. run.pc = "unlistWrite" /\ run.result = "none"
  BY DEF At, IInv, RunInv
<1>3. /\ run' \in RunType /\ run'.pc = "uninstallReset" /\ run'.tool = run.tool
      /\ run'.after = run.after /\ run'.list = <<>> /\ run'.result = run.result
  BY <1>1, ListWritten DEF AllSteps, UninstallSteps
<1>4. /\ WithoutUsbDk(run.list) \in Seq(Filters) /\ IsInjective(WithoutUsbDk(run.list))
      /\ UsbDk \notin Range(WithoutUsbDk(run.list))
  BY <1>1, NewList DEF IInv, RunInv
<1>5. /\ filters' \in Seq(Filters) /\ IsInjective(filters')
      /\ leftListed' \in BOOLEAN /\ disturbed' \in BOOLEAN
      /\ ~Listed' \/ (leftListed' /\ disturbed')
      /\ disturbed => disturbed'
  <2>1. CASE /\ filters' = WithoutUsbDk(run.list)
             /\ leftListed' = FALSE
             /\ UNCHANGED disturbed
    BY <1>1, <1>4, <2>1 DEF Listed, MachineTypeOK
  <2>2. CASE /\ UNCHANGED filters
             /\ leftListed' = (UsbDk \in Range(filters))
             /\ disturbed' = TRUE
    <3>1. (UsbDk \in Range(filters)) \in BOOLEAN
      OBVIOUS
    <3>2. Listed' = (UsbDk \in Range(filters))
      BY <2>2 DEF Listed
    <3> QED BY <1>1, <2>2, <3>1, <3>2 DEF MachineTypeOK
  <2> QED BY <2>1, <2>2
<1>6. MachineTypeOK'
  BY <1>1, <1>5 DEF MachineTypeOK
<1>7. RunInv' /\ ListedDriverIsInstalled'
  BY <1>2, <1>3, <1>5, EmptyList DEF RunInv, ListedDriverIsInstalled, Listed
<1>8. ProgressInv'
  BY <1>3, <1>5 DEF ProgressInv, ServiceSteps, UnlistedSteps
<1>9. CleanInv'
  BY <1>3, <1>5 DEF IInv, CleanInv, Clean
<1>10. ResultIsTrue' /\ CleanInstallSucceeds'
  BY <1>2, <1>3 DEF ResultIsTrue, CleanInstallSucceeds
<1> QED BY <1>3, <1>6, <1>7, <1>8, <1>9, <1>10, TypeNext DEF IInv

\* What a restart of some controllers makes of the stacks and the service.
LEMMA RestartFacts ==
  ASSUME MachineTypeOK, NEW hs \in SUBSET Controllers, Restart(hs)
  PROVE  /\ stacks' \in [Controllers -> {"plain", "filtered", "broken"}]
         /\ service' \in {"absent", "present", "marked"}
         /\ \A h \in hs : stacks'[h] = Started
         /\ service = "present" <=> service' = "present"
         /\ ~Listed => Started = "plain"
         /\ Listed /\ driver /\ service = "present" /\ machine.verdict = "loads" =>
              Started = "filtered"
         /\ ~Loaded(stacks') => service' # "marked"
<1>1. Started \in {"plain", "filtered", "broken"}
  BY DEF Started
<1> QED BY <1>1 DEF Restart, MachineTypeOK, Listed, Started

\* The end of an installation: what it reports about the stacks is so.
LEMMA ResetAfterInstallStep == ASSUME IInv, ResetAfterInstall PROVE IInv'
<1>1. run \in RunType /\ MachineTypeOK
  BY TypeParts DEF IInv
<1>2. /\ run.pc = "installReset" /\ driver /\ service = "present" /\ Listed
      /\ UNCHANGED <<driver, filters, testSigning, leftListed, machine>>
  BY DEF ResetAfterInstall, At, IInv, ProgressInv, ServiceSteps
<1>3. /\ stacks' \in [Controllers -> {"plain", "filtered", "broken"}] /\ service' = "present"
      /\ disturbed' \in BOOLEAN /\ overlooked' \in BOOLEAN
      /\ \/ run' = Returned("InstallSuccessNeedReboot")
         \/ /\ run' = Returned("InstallSuccess")
            /\ machine.verdict = "loads" /\ ~overlooked' =>
                 \A h \in Controllers : stacks'[h] = "filtered"
  <2>1. CASE run.reboot
    BY <1>1, <1>2, <2>1 DEF ResetAfterInstall, MachineTypeOK
  <2>2. CASE ~run.reboot
    <3>1. PICK hs \in SUBSET Controllers, noticed \in BOOLEAN :
            /\ Restart(hs)
            /\ run' = IF hs # Controllers /\ noticed THEN Returned("InstallSuccessNeedReboot")
                      ELSE Returned("InstallSuccess")
            /\ overlooked' = (hs # Controllers /\ ~noticed)
            /\ disturbed' = (disturbed \/ hs # Controllers)
      BY <2>2 DEF ResetAfterInstall, ResetDeviceByClass
    <3> QED BY <1>1, <1>2, <3>1, RestartFacts DEF MachineTypeOK
  <2> QED BY <2>1, <2>2
<1>4. /\ run' \in RunType /\ run'.pc = "returned" /\ run'.tool = run.tool
      /\ run'.after = run.after /\ run'.list = <<>>
      /\ run'.result \in {"InstallSuccess", "InstallSuccessNeedReboot"}
      /\ run'.result = "InstallSuccess" /\ machine.verdict = "loads" /\ ~overlooked' =>
           \A h \in Controllers : stacks'[h] = "filtered"
  BY <1>1, <1>3, ReturnedFacts DEF Results
<1>5. MachineTypeOK' /\ ListedDriverIsInstalled'
  BY <1>1, <1>2, <1>3 DEF MachineTypeOK, ListedDriverIsInstalled
<1>6. RunInv' /\ ProgressInv'
  BY <1>4, EmptyList DEF RunInv, ProgressInv, ServiceSteps, UnlistedSteps
<1>7. CleanInv'
  <2>1. Clean' => Clean
    BY <1>2, <1>4 DEF Clean, ResetAfterInstall, ResetDeviceByClass
  <2> QED BY <1>4, <2>1 DEF IInv, CleanInv
<1>8. ResultIsTrue' /\ CleanInstallSucceeds'
  BY <1>2, <1>4 DEF ResultIsTrue, CleanInstallSucceeds
<1> QED BY <1>4, <1>5, <1>6, <1>7, <1>8, TypeNext DEF IInv

\* With the driver out of the list no controller that was restarted runs with it.
LEMMA ResetAfterRemovalStep == ASSUME IInv, ResetAfterRemoval PROVE IInv'
<1>1. run \in RunType /\ MachineTypeOK
  BY TypeParts DEF IInv
<1>2. /\ run.pc = "uninstallReset" /\ run.result = "none" /\ (~Listed \/ leftListed)
      /\ UNCHANGED <<driver, filters, testSigning, leftListed, machine>>
  BY DEF ResetAfterRemoval, At, IInv, RunInv, ProgressInv, UnlistedSteps
<1>3. PICK hs \in SUBSET Controllers :
        /\ Restart(hs)
        /\ run' = Goto("deleteDriver")
        /\ overlooked' \in BOOLEAN
        /\ disturbed' = (disturbed \/ hs # Controllers)
  BY DEF ResetAfterRemoval, ResetDeviceByClass
<1>4. /\ run' \in RunType /\ run'.pc = "deleteDriver" /\ run'.tool = run.tool
      /\ run'.after = run.after /\ run'.list = run.list /\ run'.result = run.result
  BY <1>1, <1>3, GotoFacts DEF AllSteps, UninstallSteps
<1>5. MachineTypeOK' /\ ListedDriverIsInstalled'
  BY <1>1, <1>2, <1>3, RestartFacts DEF IInv, MachineTypeOK, ListedDriverIsInstalled
<1>6. RunInv' /\ ProgressInv'
  BY <1>2, <1>4 DEF IInv, RunInv, ProgressInv, ServiceSteps, UnlistedSteps, Listed
<1>7. CleanInv'
  <2>1. Clean' => Clean /\ hs = Controllers
    BY <1>2, <1>3, <1>4 DEF Clean
  <2>2. Clean' => ~Loaded(stacks') /\ service' # "marked"
    BY <1>1, <1>2, <1>3, <2>1, RestartFacts DEF IInv, CleanInv, Loaded
  <2> QED BY <1>4, <2>1, <2>2 DEF IInv, CleanInv
<1>8. ResultIsTrue' /\ CleanInstallSucceeds'
  BY <1>2, <1>4 DEF ResultIsTrue, CleanInstallSucceeds
<1> QED BY <1>4, <1>5, <1>6, <1>7, <1>8, TypeNext DEF IInv
\* The file is deleted when no list names it.
LEMMA DeleteDriverStep == ASSUME IInv, DeleteDriver PROVE IInv'
<1>1. run \in RunType /\ MachineTypeOK
  BY TypeParts DEF IInv
<1>2. /\ run.pc = "deleteDriver" /\ run.result = "none" /\ (~Listed \/ leftListed)
      /\ driver' = FALSE /\ run' = Goto("preRemove")
      /\ UNCHANGED <<service, filters, stacks, testSigning, leftListed, overlooked, machine, disturbed>>
  BY DEF DeleteDriver, At, IInv, RunInv, ProgressInv, UnlistedSteps
<1>3. /\ run' \in RunType /\ run'.pc = "preRemove" /\ run'.tool = run.tool
      /\ run'.after = run.after /\ run'.list = run.list /\ run'.result = run.result
  BY <1>1, <1>2, GotoFacts DEF AllSteps, UninstallSteps
<1>4. MachineTypeOK' /\ ListedDriverIsInstalled'
  BY <1>1, <1>2 DEF MachineTypeOK, ListedDriverIsInstalled, Listed
<1>5. RunInv' /\ ProgressInv'
  BY <1>2, <1>3 DEF IInv, RunInv, ProgressInv, ServiceSteps, UnlistedSteps, Listed
<1>6. CleanInv'
  BY <1>2, <1>3 DEF IInv, CleanInv, Clean
<1>7. ResultIsTrue' /\ CleanInstallSucceeds'
  BY <1>2, <1>3 DEF ResultIsTrue, CleanInstallSucceeds
<1> QED BY <1>3, <1>4, <1>5, <1>6, <1>7, TypeNext DEF IInv

\* A service that is there is deleted or marked; one that is not ends the removal.
LEMMA DeleteServiceStep == ASSUME IInv, DeleteServiceObject PROVE IInv'
<1>1. run \in RunType /\ MachineTypeOK
  BY TypeParts DEF IInv
<1>2. /\ run.pc = "deleteService" /\ run.result = "none" /\ (~Listed \/ leftListed) /\ ~driver
      /\ UNCHANGED <<driver, filters, stacks, testSigning, leftListed, overlooked, machine, disturbed>>
  BY DEF DeleteServiceObject, At, IInv, RunInv, ProgressInv, UnlistedSteps
<1>3. CASE service = "present"
  <2>1. service' = ServiceDeleted /\ run' = Goto("postRemove")
    BY <1>3 DEF DeleteServiceObject
  <2>2. /\ run' \in RunType /\ run'.pc = "postRemove" /\ run'.tool = run.tool
        /\ run'.after = run.after /\ run'.list = run.list /\ run'.result = run.result
    BY <1>1, <2>1, GotoFacts DEF AllSteps, UninstallSteps
  <2>3. MachineTypeOK' /\ ListedDriverIsInstalled'
    BY <1>1, <1>2, <2>1 DEF MachineTypeOK, ListedDriverIsInstalled, Listed, ServiceDeleted
  <2>4. RunInv' /\ ProgressInv'
    BY <1>2, <2>1, <2>2
       DEF IInv, RunInv, ProgressInv, ServiceSteps, UnlistedSteps, Listed, ServiceDeleted
  <2>5. CleanInv'
    BY <1>2, <2>1, <2>2 DEF IInv, CleanInv, Clean, ServiceDeleted
  <2>6. ResultIsTrue' /\ CleanInstallSucceeds'
    BY <1>2, <2>2 DEF ResultIsTrue, CleanInstallSucceeds
  <2> QED BY <2>2, <2>3, <2>4, <2>5, <2>6, TypeNext DEF IInv
<1>4. CASE service # "present"
  <2>1. run' = Thrown /\ UNCHANGED service /\ run.pc \in UninstallSteps
    BY <1>2, <1>4 DEF DeleteServiceObject, UninstallSteps
  <2>2. /\ run' = Uninstalled(FALSE)
        /\ Over(run', {"UninstallFailed", "InstallFailure"})
    BY <1>1, <2>1, ThrownFacts
  <2>3. run'.pc # "openUninstaller" /\ (run'.pc = "returned" => run'.after = run.after)
    BY <1>1, <2>2, UninstalledFacts
  <2>4. run'.result = "InstallFailure" => run.after = "failure"
    BY <1>1, <1>2, <2>2, UninstalledFacts
  <2>5. Clean' => Clean /\ run.after # "failure" /\ ~driver /\ service = "absent"
    BY <1>1, <1>2, <1>4, <2>2 DEF IInv, CleanInv, Clean, Over, MachineTypeOK
  <2>6. run'.result # "InstallAborted"
    BY <1>2, <2>2 DEF Over
  <2>7. UNCHANGED parts /\ testSigning' \in BOOLEAN /\ disturbed' \in BOOLEAN
    BY <1>1, <1>2, <2>1 DEF parts, MachineTypeOK
  <2> QED BY <2>1, <2>2, <2>3, <2>4, <2>5, <2>6, <2>7, PartOver DEF Results, AllSteps
<1> QED BY <1>3, <1>4

\* After a restart the stacks have what the class lists.
LEMMA RebootStep == ASSUME IInv, Reboot PROVE IInv'
<1>1. MachineTypeOK
  BY TypeParts DEF IInv
<1>2. run' \in RunType /\ RunInv' /\ ProgressInv' /\ CleanInv' /\ ResultIsTrue'
      /\ CleanInstallSucceeds'
  BY IdleClaims DEF Reboot
<1>3. Started \in {"plain", "filtered", "broken"}
  BY DEF Started
<1>4. MachineTypeOK' /\ ListedDriverIsInstalled'
  BY <1>1, <1>3 DEF Reboot, MachineTypeOK, IInv, ListedDriverIsInstalled
<1> QED BY <1>2, <1>4, TypeNext DEF IInv

\* Other programs add and remove their own filters.
LEMMA OtherProgramStep ==
  ASSUME IInv, NEW f \in OtherFilters, OtherProgram(f) PROVE IInv'
<1>1. run \in RunType /\ MachineTypeOK
  BY TypeParts DEF IInv
<1>2. f \in Filters /\ f # UsbDk
  BY InstallationAssumption DEF Filters
<1>3. filters \in Seq(Filters) /\ IsInjective(filters)
  BY <1>1 DEF MachineTypeOK
<1>4. filters' \in Seq(Filters) /\ IsInjective(filters') /\ (Listed' <=> Listed)
  <2>1. CASE f \in Range(filters)
    <3>1. filters' = Without(filters, f)
      BY <2>1 DEF OtherProgram
    <3>2. /\ filters' \in Seq(Filters) /\ IsInjective(filters')
          /\ Range(filters') = Range(filters) \ {f}
      BY <1>3, <3>1, WithoutFacts
    <3> QED BY <1>2, <3>2 DEF Listed
  <2>2. CASE f \notin Range(filters)
    <3>1. filters' = Append(filters, f)
      BY <2>2 DEF OtherProgram
    <3>2. /\ filters' \in Seq(Filters) /\ IsInjective(filters')
          /\ Range(filters') = Range(filters) \cup {f}
      BY <1>2, <1>3, <2>2, <3>1, AppendFilter
    <3> QED BY <1>2, <3>2 DEF Listed
  <2> QED BY <2>1, <2>2
<1>5. UNCHANGED <<driver, service, stacks, testSigning, leftListed, overlooked, machine, run, disturbed>>
  BY DEF OtherProgram
<1>6. MachineTypeOK' /\ run' \in RunType
  BY <1>1, <1>4, <1>5 DEF MachineTypeOK
<1>7. RunInv' /\ ProgressInv'
  BY <1>4, <1>5 DEF IInv, RunInv, ProgressInv
<1>8. CleanInv'
  <2>1. Clean' <=> Clean
    BY <1>5 DEF Clean
  <2>2. Loaded(stacks') <=> Loaded(stacks)
    BY <1>5
  <2> QED BY <1>4, <1>5, <2>1, <2>2 DEF IInv, CleanInv
<1>9. ListedDriverIsInstalled' /\ ResultIsTrue' /\ CleanInstallSucceeds'
  BY <1>4, <1>5 DEF IInv, ListedDriverIsInstalled, ResultIsTrue, CleanInstallSucceeds, Listed
<1> QED BY <1>6, <1>7, <1>8, <1>9, TypeNext DEF IInv
-------------------------------------------------------------------------------
(* The theorems.                                                             *)

\* A machine that no program has installed UsbDk on.
LEMMA InitIInv == Init => IInv
<1> SUFFICES ASSUME Init PROVE IInv
  OBVIOUS
<1>1. filters \in Seq(Filters) /\ IsInjective(filters) /\ ~Listed
  <2>1. /\ filters \in [1 .. Cardinality(OtherFilters) -> OtherFilters]
        /\ \A i, j \in 1 .. Cardinality(OtherFilters) : i # j => filters[i] # filters[j]
    BY DEF Init, SetToSeqs
  <2>2. Cardinality(OtherFilters) \in Nat
    BY InstallationAssumption, FS_CardinalityType
  <2>3. filters \in Seq(Filters)
    BY <2>1, <2>2 DEF Filters
  <2>4. IsInjective(filters)
    BY <2>1 DEF IsInjective
  <2>5. ~Listed
    BY <2>1, InstallationAssumption DEF Listed, Range
  <2> QED BY <2>3, <2>4, <2>5
<1>2. run = Idle /\ run \in RunType /\ run.pc = "idle" /\ run.tool = "none"
      /\ run.list = <<>> /\ run.result = "none"
  BY IdleFacts DEF Init
<1>3. TypeOK
  BY <1>1, <1>2 DEF Init, TypeOK, Filters
<1>4. RunInv /\ ProgressInv /\ CleanInv
  BY <1>2, EmptyList
     DEF RunInv, ProgressInv, UnlistedSteps, ServiceSteps, CleanInv, Clean
<1>5. ListedDriverIsInstalled /\ ResultIsTrue /\ CleanInstallSucceeds
  BY <1>1, <1>2 DEF ListedDriverIsInstalled, ResultIsTrue, CleanInstallSucceeds, Listed
<1> QED BY <1>3, <1>4, <1>5 DEF IInv

\* The driver gets into the list.
LEMMA AddStep == ASSUME IInv, AddUsbDkToRegistry PROVE IInv'
<1>1. CASE MeasureFilters("listSize", "listValue", "listWrite")
  BY <1>1, MeasureStep DEF Reads
<1>2. CASE ReadFilters("listValue", "listWrite", "listWrite")
  BY <1>2, ReadStep DEF Reads
<1> QED BY <1>1, <1>2, ListWriteStep DEF AddUsbDkToRegistry

\* The driver is taken out of the list.
LEMMA RemoveStep == ASSUME IInv, RemoveUsbDkFromRegistry PROVE IInv'
<1>1. CASE MeasureFilters("unlistSize", "unlistValue", "uninstallReset")
  BY <1>1, MeasureStep DEF Reads
<1>2. CASE ReadFilters("unlistValue", "unlistWrite", "uninstallReset")
  BY <1>2, ReadStep DEF Reads
<1> QED BY <1>1, <1>2, UnlistWriteStep DEF RemoveUsbDkFromRegistry

\* IInv is inductive.
LEMMA StepIInv == IInv /\ [Next]_vars => IInv'
<1> SUFFICES ASSUME IInv, [Next]_vars PROVE IInv'
  OBVIOUS
<1>1. CASE InstallStep
  BY <1>1, CheckSigningStep, CopyDriverStep, PreDeviceInstallStep, CreateServiceStep,
     VerifyStep, PostDeviceInstallStep, AddStep, ResetAfterInstallStep DEF InstallStep
<1>2. CASE UninstallStep
  BY <1>2, RemoveStep, ResetAfterRemovalStep, DeleteDriverStep, PreDeviceRemoveStep,
     DeleteServiceStep, PostDeviceRemoveStep DEF UninstallStep
<1>3. CASE \E tool \in {"controller", "helper"} : Begin(tool)
  BY <1>3, BeginStep
<1>4. CASE \E f \in OtherFilters : OtherProgram(f)
  BY <1>4, OtherProgramStep
<1>5. CASE UNCHANGED vars
  <2>1. UNCHANGED <<driver, service, filters, stacks, machine, testSigning, run,
                    disturbed, leftListed, overlooked>>
    BY <1>5 DEF vars
  <2>2. TypeOK' /\ RunInv'
    BY <2>1 DEF IInv, TypeOK, RunInv
  <2>3. ProgressInv' /\ CleanInv'
    BY <2>1 DEF IInv, ProgressInv, CleanInv, Clean, Listed, Loaded
  <2>4. ListedDriverIsInstalled' /\ ResultIsTrue' /\ CleanInstallSucceeds'
    BY <2>1 DEF IInv, ListedDriverIsInstalled, ResultIsTrue, CleanInstallSucceeds
  <2> QED BY <2>2, <2>3, <2>4 DEF IInv
<1> QED BY <1>1, <1>2, <1>3, <1>4, <1>5, OpenedStep, CallFailsStep, ExitStep,
           InstallerDiesStep, RebootStep DEF Next

\* IInv holds in every state.
THEOREM InstallationInvariant == Spec => []IInv
<1> QED BY InitIInv, StepIInv, PTL DEF Spec

\* Every variable keeps its type, and no filter is listed twice.
THEOREM InstallationTypes == Spec => []TypeOK
<1>1. IInv => TypeOK
  BY DEF IInv
<1> QED BY <1>1, InstallationInvariant, PTL

\* UpperFilters names UsbDk only while its file and its service are there, unless
\* the list could not be written when it was removed (Installer.cpp, Install and
\* Uninstall), on a machine with any number of host controllers and other filters.
THEOREM ListedDriver == Spec => []ListedDriverIsInstalled
<1>1. IInv => ListedDriverIsInstalled
  BY DEF IInv
<1> QED BY <1>1, InstallationInvariant, PTL

\* What the tools report is so: an installation whose success needs no reboot has
\* put the driver on every controller, a successful removal has left nothing.
THEOREM TrueResults == Spec => []ResultIsTrue
<1>1. IInv => ResultIsTrue
  BY DEF IInv
<1> QED BY <1>1, InstallationInvariant, PTL

\* An installation by the MSI helper in which no call fails succeeds, whatever
\* killed installations and failed removals had left before it.
THEOREM CleanInstallation == Spec => []CleanInstallSucceeds
<1>1. IInv => CleanInstallSucceeds
  BY DEF IInv
<1> QED BY <1>1, InstallationInvariant, PTL

\* The two writes of the list keep what was read.
LEMMA FiltersKeptStep ==
  ASSUME IInv, Next, run' # run, NEW f \in OtherFilters, f \in Range(filters),
         f \in Range(run.list)
  PROVE  f \in Range(filters')
<1>1. CASE UNCHANGED filters
  BY <1>1
<1>2. CASE At("listWrite") /\ filters' = Append(WithoutUsbDk(run.list), UsbDk)
  BY <1>2, NewList DEF IInv, TypeOK, RunInv
<1>3. CASE At("unlistWrite") /\ filters' = WithoutUsbDk(run.list)
  BY <1>3, NewList, InstallationAssumption DEF IInv, TypeOK, RunInv
<1>4. ASSUME AddUsbDkToRegistry \/ RemoveUsbDkFromRegistry
      PROVE  \/ UNCHANGED filters
             \/ At("listWrite") /\ filters' = Append(WithoutUsbDk(run.list), UsbDk)
             \/ At("unlistWrite") /\ filters' = WithoutUsbDk(run.list)
  BY <1>4 DEF AddUsbDkToRegistry, RemoveUsbDkFromRegistry, MeasureFilters, ReadFilters, system
<1>5. ASSUME InstallStep \/ UninstallStep, ~AddUsbDkToRegistry, ~RemoveUsbDkFromRegistry
      PROVE  UNCHANGED filters
  BY <1>5 DEF InstallStep, UninstallStep, CheckSigning, CopyDriver, PreDeviceInstallEx,
     CreateServiceObject, VerifyDriverCanStart, PostDeviceInstall, ResetAfterInstall,
     ResetAfterRemoval, DeleteDriver, PreDeviceRemove, DeleteServiceObject,
     PostDeviceRemove, system
<1>6. ASSUME ~InstallStep, ~UninstallStep PROVE UNCHANGED filters
  BY <1>6 DEF Next, Begin, Opened, CallFails, Exit, InstallerDies, Reboot, OtherProgram, system
<1> QED BY <1>1, <1>2, <1>3, <1>4, <1>5, <1>6

\* No write of the installer takes away a filter of another program that was there
\* when the list was read.
THEOREM OthersFiltersStay == Spec => OtherFiltersKept
<1>1. IInv /\ [Next]_vars =>
        [run' # run => \A f \in OtherFilters \cap Range(filters) \cap Range(run.list) :
                         f \in Range(filters')]_vars
  BY FiltersKeptStep
<1> QED BY <1>1, InstallationInvariant, PTL DEF Spec, OtherFiltersKept
================================================================================
