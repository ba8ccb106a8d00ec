------------------------------- MODULE RuleTools -------------------------------
(***************************************************************************)
(* The persistent hide rules as the processes that edit them see them: the *)
(* calls of the helper library that add a rule, delete one or delete all,  *)
(* each a sequence of registry accesses without any lock, followed by a    *)
(* request that makes the driver reload the rules (module HideRules). Each *)
(* access may fail and other processes come in between any two of them.    *)
(* The history variables at the end are read by the properties only.       *)
(***************************************************************************)
EXTENDS HideRules

CONSTANTS
    Tools,    \* processes that call the library
    Calls,    \* the calls they make: [op, rule]
    Values    \* values of a rule's key, 6 in the code

CallType == [op: {"add", "delete"}, rule: Rules] \cup [op: {"deleteAll"}, rule: {Partial}]

ASSUME RuleToolsAssumption == Values \in Nat \ {0} /\ Calls \subseteq CallType

VARIABLES
    tool,        \* the call a process is in
    written,     \* the values a key has
    registered,  \* rules that were complete at some time since a reload began
    kept,        \* those that were so all the time
    undisturbed, \* no key was deleted since then and no call of the driver failed
    contested,   \* rules that were added while another process added them too
                 \* or deleted a key, or by a call that misread the registry
    calm         \* no other process disturbed this call, nor, if it is a
                 \* deletion, did it misread the registry

toolVars == <<tool, written>>

callHistory == <<registered, kept, undisturbed, contested, calm>>

allVars == <<vars, toolVars, callHistory>>

ToolPc == {"idle", "find", "compare", "addKey", "write", "deleteKey", "list",
           "deleteEach", "open", "reloading", "returned", "exited"}

Results == {"none", "InstallSuccess", "InstallSuccessNeedReboot", "InstallFailure"}

ToolType == [pc: ToolPc, call: Calls \cup {[op |-> "none", rule |-> Partial]},
             index: Nat \ {0}, key: KeyNames \cup {NoKey}, value: 1 .. Values,
             names: Seq(KeyNames), notDeleted: BOOLEAN, result: Results]

\* Mutant: the iterator starts behind the first key.
NewTool_FromSecond(pc, call) ==
    [pc |-> pc, call |-> call, index |-> 2, key |-> NoKey, value |-> 1, names |-> <<>>,
     notDeleted |-> FALSE, result |-> "none"]

\* The key the loop has reached or the call creates, the value it writes next,
\* and the keys UsbDk_DeleteAllPersistentRules has still to delete.
NewTool(pc, call) ==
    [pc |-> pc, call |-> call, index |-> 1, key |-> NoKey, value |-> 1, names |-> <<>>,
     notDeleted |-> FALSE, result |-> "none"]

IdleTool == NewTool("idle", [op |-> "none", rule |-> Partial])

Complete == {content[k] : k \in ToSet(keys)} \ {Partial}

Holding(r) == {k \in ToSet(keys) : content[k] = r}

ToolsInit ==
    /\ Init
    /\ \A i, j \in 1 .. Len(keys) : content[keys[i]] = content[keys[j]] => i = j
    /\ tool = [p \in Tools |-> IdleTool]
    /\ written = [k \in KeyNames |-> IF k \in ToSet(keys) THEN 1 .. Values ELSE {}]

Set(p, new) == tool' = [tool EXCEPT ![p] = new]

RegistryFrame == UNCHANGED <<keys, content, written>>

DriverFrame == UNCHANGED <<rules, verdict, hiderOpen, reload>>

Returns(p, result) == Set(p, [NewTool("returned", tool[p].call) EXCEPT !.result = result,
                                                        !.key = tool[p].key])

\* An exception of the rule manager leaves the library as InstallFailure.
Throw(p) == Returns(p, "InstallFailure") /\ RegistryFrame

-----------------------------------------------------------------------------
(* CRulesManager.                                                          *)

Call(p, c) ==
    /\ tool[p].pc = "idle"
    /\ Set(p, NewTool(IF c.op = "deleteAll" THEN "list" ELSE "find", c))
    /\ RegistryFrame /\ DriverFrame

\* A rule that is not there: it is added, or need not be deleted.
NotFound(p) == Set(p, [tool[p] EXCEPT !.pc = IF tool[p].call.op = "add" THEN "addKey" ELSE "open",
                                      !.index = 1, !.key = NoKey])

FindRule(p) ==
    /\ tool[p].pc = "find"
    /\ \/ /\ tool[p].index <= Len(keys)
          /\ Set(p, [tool[p] EXCEPT !.pc = "compare", !.key = keys[tool[p].index]])
       \/ tool[p].index > Len(keys) /\ NotFound(p)
    /\ RegistryFrame /\ DriverFrame

\* key_iterator: a failing enumeration ends the loop like the last key does.
EnumerationFails(p) ==
    /\ tool[p].pc = "find" /\ tool[p].index <= Len(keys)
    /\ NotFound(p)
    /\ RegistryFrame /\ DriverFrame

PassOver(p) == Set(p, [tool[p] EXCEPT !.pc = "find", !.index = @ + 1, !.key = NoKey])

\* A key that is gone, or lacks a value, is passed over. The values of a key
\* never change, so that they are read in one step.
CompareRule(p) ==
    LET t == tool[p]
    IN /\ t.pc = "compare"
       /\ \/ /\ content[t.key] = t.call.rule
             /\ \/ t.call.op = "add" /\ Throw(p)
                \/ t.call.op = "delete" /\ Set(p, [t EXCEPT !.pc = "deleteKey"])
          \/ content[t.key] # t.call.rule /\ PassOver(p)
       /\ RegistryFrame /\ DriverFrame

\* So is a key that cannot be read, though it holds the rule.
ReadFails(p) ==
    /\ tool[p].pc = "compare" /\ content[tool[p].key] = tool[p].call.rule
    /\ PassOver(p)
    /\ RegistryFrame /\ DriverFrame

Insert(k) == \E i \in 1 .. Len(keys) + 1 : keys' = InsertAt(keys, i, k)

NewName(k) ==
    /\ k \notin ToSet(keys) /\ written[k] = {}
    /\ \A t \in Reloaders : reload[t].name # k
    /\ \A p \in Tools : tool[p].key # k /\ k \notin ToSet(tool[p].names)

\* RegCreateKeyEx with a new GUID as name.
AddKey(p) ==
    /\ tool[p].pc = "addKey"
    /\ \/ Throw(p)
       \/ \E k \in {k \in KeyNames : NewName(k)} :
             /\ Set(p, [tool[p] EXCEPT !.pc = "write", !.key = k])
             /\ Insert(k) /\ UNCHANGED <<content, written>>
    /\ DriverFrame

\* Mutant: the last value is forgotten.
WriteDword_OneLess(p) ==
    LET t == tool[p]
        w == written[t.key] \cup {t.value}
    IN /\ t.pc = "write"
       /\ \/ Throw(p)
          \/ /\ Set(p, IF t.value + 1 >= Values THEN [t EXCEPT !.pc = "open", !.value = 1]
                       ELSE [t EXCEPT !.value = @ + 1])
             /\ written' = [written EXCEPT ![t.key] = w]
             /\ content' = [content EXCEPT ![t.key] = IF w = 1 .. Values THEN t.call.rule ELSE Partial]
             /\ \/ t.key \in ToSet(keys) /\ UNCHANGED keys
                \/ t.key \notin ToSet(keys) /\ Insert(t.key)
       /\ DriverFrame

\* A key that another process has deleted meanwhile is created again by
\* RegCreateKeyEx, with the values that are still to come. A failure leaves the
\* key with the values written so far.
WriteDword(p) ==
    LET t == tool[p]
        w == written[t.key] \cup {t.value}
    IN /\ t.pc = "write"
       /\ \/ Throw(p)
          \/ /\ Set(p, IF t.value = Values THEN [t EXCEPT !.pc = "open", !.value = 1]
                       ELSE [t EXCEPT !.value = @ + 1])
             /\ written' = [written EXCEPT ![t.key] = w]
             /\ content' = [content EXCEPT ![t.key] = IF w = 1 .. Values THEN t.call.rule ELSE Partial]
             /\ \/ t.key \in ToSet(keys) /\ UNCHANGED keys
                \/ t.key \notin ToSet(keys) /\ Insert(t.key)
       /\ DriverFrame

RemoveKey(k) == DeleteKey(k) /\ written' = [written EXCEPT ![k] = {}]

DeleteRule(p) ==
    /\ tool[p].pc = "deleteKey"
    /\ \/ Throw(p)
       \/ RemoveKey(tool[p].key) /\ Set(p, [tool[p] EXCEPT !.pc = "open", !.key = NoKey])
    /\ DriverFrame

\* DeleteAllRules: first the names of all keys, then their deletion one by one.
ListKeys(p) ==
    LET t == tool[p]
    IN /\ t.pc = "list"
       /\ \/ /\ t.index <= Len(keys)
             /\ Set(p, [t EXCEPT !.index = @ + 1, !.names = Append(@, keys[t.index])])
          \/ /\ t.index > Len(keys)
             /\ Set(p, [t EXCEPT !.index = 1, !.pc = "deleteEach"])
       /\ RegistryFrame /\ DriverFrame

\* A failing enumeration ends the list, too.
ListingFails(p) ==
    /\ tool[p].pc = "list" /\ tool[p].index <= Len(keys)
    /\ Set(p, [tool[p] EXCEPT !.index = 1, !.pc = "deleteEach"])
    /\ RegistryFrame /\ DriverFrame

\* Mutant: a key that could not be deleted is not counted.
DeleteEach_NotCounted(p) ==
    LET t == tool[p]
    IN /\ t.pc = "deleteEach"
       /\ \/ /\ t.names = <<>>
             /\ Set(p, [t EXCEPT !.pc = "open"]) /\ RegistryFrame
          \/ /\ t.names # <<>>
             /\ \/ RemoveKey(Head(t.names))
                \/ RegistryFrame
             /\ Set(p, [t EXCEPT !.names = Tail(@)])
       /\ DriverFrame

DeleteEach(p) ==
    LET t == tool[p]
    IN /\ t.pc = "deleteEach"
       /\ \/ /\ t.names = <<>>
             /\ Set(p, [t EXCEPT !.pc = "open"]) /\ RegistryFrame
          \/ /\ t.names # <<>>
             /\ \/ /\ RemoveKey(Head(t.names))
                   /\ Set(p, [t EXCEPT !.names = Tail(@)])
                \/ /\ RegistryFrame
                   /\ Set(p, [t EXCEPT !.names = Tail(@), !.notDeleted = TRUE])
       /\ DriverFrame

-----------------------------------------------------------------------------
(* The driver is told to reload the rules: UsbDkDriverAccess.              *)

\* The control device is exclusive and any program may have it open: a call
\* that cannot open it, or whose request fails, asks for a reboot.
NeedReboot(p) ==
    /\ \/ tool[p].pc = "open"
       \/ tool[p].pc = "reloading" /\ reload["queue"].pc = "idle" /\ Fault("registry")
    /\ Returns(p, "InstallSuccessNeedReboot")
    /\ RegistryFrame /\ DriverFrame

OpenDriver(p) ==
    /\ tool[p].pc = "open" /\ \A q \in Tools : tool[q].pc # "reloading"
    /\ UpdateRegistryParameters
    /\ Set(p, [tool[p] EXCEPT !.pc = "reloading"])
    /\ UNCHANGED written

Reloaded(p) ==
    /\ tool[p].pc = "reloading" /\ reload["queue"].pc = "idle"
    /\ Returns(p, IF tool[p].notDeleted THEN "InstallFailure" ELSE "InstallSuccess")
    /\ RegistryFrame /\ DriverFrame

\* UsbDkController makes one call, reports its result and exits.
Exit(p) ==
    /\ tool[p].pc = "returned"
    /\ Set(p, [IdleTool EXCEPT !.pc = "exited"])
    /\ RegistryFrame /\ DriverFrame

-----------------------------------------------------------------------------
\* The call misses a key that is there, and does not know.
Misreads(p) == EnumerationFails(p) \/ ReadFails(p) \/ ListingFails(p)

ToolStep(p) ==
    \/ \E c \in Calls : Call(p, c)
    \/ FindRule(p) \/ CompareRule(p) \/ AddKey(p) \/ WriteDword(p) \/ DeleteRule(p)
    \/ ListKeys(p) \/ DeleteEach(p) \/ Misreads(p)
    \/ NeedReboot(p) \/ OpenDriver(p) \/ Reloaded(p) \/ Exit(p)

ToolsNext ==
    \/ \E p \in Tools : ToolStep(p)
    \/ (\E t \in Reloaders : ReloadStep(t)) /\ UNCHANGED toolVars

-----------------------------------------------------------------------------
(* History.                                                                *)

ReloadBegins == \E t \in Reloaders : reload[t].pc = "idle" /\ reload'[t].pc = "clear"

NoReload == \A t \in Reloaders : reload[t].pc = "idle"

KeyDeleted == Len(keys') < Len(keys)

Adding(p, r) ==
    tool[p].call = [op |-> "add", rule |-> r] /\ tool[p].pc \in {"find", "compare", "addKey", "write"}

Disturbs(p) ==
    \/ /\ tool'[p] = tool[p] /\ tool[p].pc \notin {"idle", "exited"}
       /\ \/ KeyDeleted
          \/ tool[p].call.op = "delete" /\ Holding(tool[p].call.rule)' # Holding(tool[p].call.rule)
          \/ tool[p].call.op = "deleteAll" /\ Len(keys') > Len(keys)
    \/ tool[p].call.op # "add" /\ Misreads(p)

InForce == rules["persistent"] \cup rules["persistentExt"]

Loadable == {r \in Rules : r.type \in {"default", "determinative"}}

\* A reload ends before the last key, or passes over a rule that is there.
ReloadFails(t) ==
    \/ reload[t].pc = "open" /\ reload'[t].pc = "idle"
    \/ reload[t].pc = "query" /\ reload'[t].pc = "idle" /\ reload[t].index <= Len(keys)
    \/ reload[t].pc = "read" /\ reload'[t].pc = "query" /\ content[reload[t].name] # Partial
    \/ reload[t].pc = "add" /\ reload'[t].pc = "query" /\ reload[t].rule \in Loadable \ InForce'

CallsInit ==
    /\ ToolsInit
    /\ registered = Complete /\ kept = Complete /\ undisturbed = TRUE
    /\ contested = {} /\ calm = [p \in Tools |-> TRUE]

RecordCalls ==
    /\ registered' = IF ReloadBegins /\ NoReload THEN Complete' ELSE registered \cup Complete'
    /\ kept' = IF ReloadBegins THEN Complete' ELSE kept \cap Complete'
    /\ undisturbed' = \/ ReloadBegins
                      \/ undisturbed /\ ~KeyDeleted /\ \A t \in Reloaders : ~ReloadFails(t)
    /\ contested' = contested \cup {r \in Rules : \E p \in Tools : Adding(p, r) /\
          (KeyDeleted \/ Misreads(p) \/ \E q \in Tools \ {p} : Adding(q, r))}
    /\ calm' = [p \in Tools |-> \/ tool'[p].pc \in {"idle", "exited"}
                                \/ calm[p] /\ ~Disturbs(p)]

ToolsSpec == CallsInit /\ [][ToolsNext /\ RecordCalls]_allVars

-----------------------------------------------------------------------------
\* The shape of the state with the tools.
ToolsTypeOK ==
    /\ TypeOK
    /\ tool \in [Tools -> ToolType]
    /\ written \in [KeyNames -> SUBSET (1 .. Values)]

\* A rule whose deletion was over when the reload asked for it began is not in
\* force after that reload; of reloads that overlap, when the first one began.
DeletedRulesLeave == NoReload => InForce \subseteq registered

\* Keys that are created, or still lack values, do not keep a reload from
\* finding the rules that stay: if no key was deleted and no call of the driver
\* failed since the last reload began, they are all in force.
KeptRulesAreLoaded == NoReload /\ undisturbed => kept \cap Loadable \subseteq InForce

\* A rule is twice in the registry only if two processes added it at a time, or
\* one added it while another deleted a key, which hides keys from the loop, or
\* one that added it could not read what was there: FindRule takes a failing
\* enumeration for the end of the keys and passes a key over that it cannot read.
NoDuplicates == \A r \in Rules \ contested : Cardinality(Holding(r)) <= 1

Succeeded(p, op) ==
    /\ tool[p].pc = "returned" /\ tool[p].call.op = op
    /\ tool[p].result = "InstallSuccess" /\ calm[p]

\* A call that adds a rule and reports success has brought it into force, also
\* when other processes add rules (whatever they do but delete a key) and when
\* the call itself misreads the registry. It does not learn of a rule the driver
\* could not read or had no memory for: ReloadPersistentHideRules does not look
\* at the status of AddPersistentHideRule. So the last reload must be undisturbed.
AddedRuleIsInForce ==
    \A p \in Tools :
        Succeeded(p, "add") /\ NoReload /\ undisturbed /\ tool[p].call.rule \in Loadable =>
            tool[p].call.rule \in InForce

\* After a successful deletion the rule is not in the registry, or no rule at
\* all, unless another process disturbed the call or had made it a duplicate, or
\* an enumeration or a read of the call itself failed, which it does not report.
DeletedIsGone ==
    \A p \in Tools :
        /\ Succeeded(p, "delete") => tool[p].call.rule \in contested \/ Holding(tool[p].call.rule) = {}
        /\ Succeeded(p, "deleteAll") => keys = <<>>

\* UsbDkHelperHider.h: a "persistent rule stays until explicitly deleted", also
\* when other rules are deleted.
RulesStayUntilDeleted == NoReload => kept \cap Loadable \subseteq InForce
=============================================================================
