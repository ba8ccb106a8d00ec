------------------------------- MODULE HideRules -------------------------------
(***************************************************************************)
(* The hide rules of the control device: four sets of rules, each under    *)
(* its own lock, that three kinds of threads work on.                      *)
(*   - The hider device serves one client: its queue adds and clears rules *)
(*     and its close clears them.                                          *)
(*   - A reload of the persistent rules empties their two sets and fills   *)
(*     them again from the registry, key by key. It runs when the control  *)
(*     device registers and in its queue on IOCTL_USBDK_UPDATE_REG_-       *)
(*     PARAMETERS; other processes change the registry meanwhile.          *)
(*   - The PnP worker asks whether a device is to be hidden, which visits  *)
(*     the sets one after another.                                         *)
(* The order of rules within a set is left out: module HideVisitor shows   *)
(* that the visitor's verdict does not depend on it.                       *)
(***************************************************************************)
EXTENDS Naturals, SequencesExt

CONSTANTS
    Devices,     \* device identities
    Descriptor,  \* [class, vid, pid, bcd] of a device, and masks: the class
                 \* masks that share a bit with the mask of its classes
    Rules,       \* the rules clients and the registry may come up with
    MatchAll,    \* USB_DK_HIDE_RULE_MATCH_ALL
    KeyNames,    \* names of rule keys in the registry (GUIDs)
    InitialKeys, \* sequences of keys the registry may hold at first
    Partial,     \* content of a key whose values are not all written
    NoKey,
    Faults       \* "memory", "registry": such calls may fail;
                 \* "early": a client may come before Register is over

Sets == {"dynamic", "persistent", "ext", "persistentExt"}

Reloaders == {"register", "queue"}

ASSUME HideRulesAssumption ==
    /\ Partial \notin Rules /\ NoKey \notin KeyNames
    /\ \A r \in Rules : r.hide \in BOOLEAN
    /\ \A keys \in InitialKeys : keys \in Seq(KeyNames)
    /\ Faults \subseteq {"memory", "registry", "early"}

VARIABLES
    rules,       \* the rules of each set
    verdict,     \* the call of ShouldHideDevice for a device
    hiderOpen,   \* a client has the (exclusive) hider device open
    keys,        \* the subkeys of HideRules, in the order of enumeration
    content,     \* the rule a key holds
    reload       \* the calls of ReloadPersistentHideRules

vars == <<rules, verdict, hiderOpen, keys, content, reload>>

VerdictPc == {"idle", "done"} \cup Sets

ReloadPc == {"idle", "clear", "clearExt", "open", "query", "read", "add"}

\* index of the enumeration, name of the key it gave, rule read from that key
StartedReload == [pc |-> "clear", index |-> 1, name |-> NoKey, rule |-> Partial]

IdleReload == [pc |-> "idle", index |-> 1, name |-> NoKey, rule |-> Partial]

ReloadType == [pc: ReloadPc, index: Nat \ {0}, name: KeyNames \cup {NoKey},
               rule: Rules \cup {Partial}]

RulesOf(s) ==
    {r \in Rules : r.type = IF s \in {"dynamic", "persistent"} THEN "default" ELSE "determinative"}

\* The shape of the state; each set holds rules of its type only, the others
\* would be compared with a device in the wrong way.
TypeOK ==
    /\ rules \in [Sets -> SUBSET Rules] /\ \A s \in Sets : rules[s] \subseteq RulesOf(s)
    /\ verdict \in [Devices -> [pc: VerdictPc, hide: BOOLEAN]]
    /\ hiderOpen \in BOOLEAN
    /\ keys \in Seq(KeyNames)
    /\ content \in [KeyNames -> Rules \cup {Partial}]
    /\ reload \in [Reloaders -> ReloadType]
    /\ \A t \in Reloaders :
          /\ reload[t].pc = "read" => reload[t].name \in KeyNames
          /\ reload[t].pc = "add" => reload[t].rule \in Rules

\* Register ends with a reload, after FinishInitializing: without the fault
\* "early" no client gets at the control device before that reload is over.
Init ==
    /\ rules = [s \in Sets |-> {}]
    /\ verdict = [d \in Devices |-> [pc |-> "idle", hide |-> FALSE]]
    /\ hiderOpen = FALSE
    /\ keys \in InitialKeys
    /\ content \in [KeyNames -> Rules \cup {Partial}]
    /\ \A k \in KeyNames : content[k] = Partial <=> k \notin ToSet(keys)
    /\ reload = [t \in Reloaders |->
          IF t = "register" THEN StartedReload ELSE IdleReload]

Fault(f) == f \in Faults

-----------------------------------------------------------------------------
(* CUsbDkHideRule and its visitors.                                        *)

MatchCharacteristic(characteristicFilter, value) ==
    characteristicFilter = MatchAll \/ value = characteristicFilter

\* The comparison of the default rules and that of the determinative types,
\* where the class is a mask and MATCH_ALL the mask with every bit.
Match(s, r, d) ==
    /\ IF s \in {"dynamic", "persistent"}
       THEN MatchCharacteristic(r.class, Descriptor[d].class)
       ELSE r.class \in Descriptor[d].masks
    /\ MatchCharacteristic(r.vid, Descriptor[d].vid)
    /\ MatchCharacteristic(r.pid, Descriptor[d].pid)
    /\ MatchCharacteristic(r.bcd, Descriptor[d].bcd)

Hits(s, d) == {r \in rules[s] : Match(s, r, d)}

\* Mutant: the last match decides that the device is hidden.
Visit_NotTerminal(s, d, hide) == hide \/ \E r \in Hits(s, d) : r.hide

\* What a pass of the visitor makes of the decision so far: nothing if no rule
\* matches; else "hide", unless it met a do-not-hide rule, which is terminal.
Visit(s, d, hide) ==
    IF Hits(s, d) = {} THEN hide ELSE \A r \in Hits(s, d) : r.hide

\* Mutant: the persistent extended rules are forgotten.
NextSet_Forgotten(s, hide) ==
    CASE s = "dynamic" -> "persistent"
      [] s = "persistent" -> IF hide THEN "done" ELSE "ext"
      [] s \in {"ext", "persistentExt"} -> "done"

NextSet(s, hide) ==
    CASE s = "dynamic" -> "persistent"
      [] s = "persistent" -> IF hide THEN "done" ELSE "ext"
      [] s = "ext" -> "persistentExt"
      [] s = "persistentExt" -> "done"

\* ShouldHideDevice, called when the device has arrived and again in AddDevice.
ShouldHideDevice(d) ==
    /\ verdict[d].pc = "idle"
    /\ verdict' = [verdict EXCEPT ![d] = [pc |-> "dynamic", hide |-> FALSE]]
    /\ UNCHANGED <<rules, hiderOpen, keys, content, reload>>

\* Mutant: every set starts with the decision to hide.
VisitSet_StartsHidden(d, s) ==
    /\ verdict[d].pc = s
    /\ LET hide == Visit(s, d, TRUE)
       IN verdict' = [verdict EXCEPT ![d] = [pc |-> NextSet(s, hide), hide |-> hide]]
    /\ UNCHANGED <<rules, hiderOpen, keys, content, reload>>

\* Each set is visited under its lock; nothing holds two of them.
VisitSet(d, s) ==
    /\ verdict[d].pc = s
    /\ LET hide == Visit(s, d, verdict[d].hide)
       IN verdict' = [verdict EXCEPT ![d] = [pc |-> NextSet(s, hide), hide |-> hide]]
    /\ UNCHANGED <<rules, hiderOpen, keys, content, reload>>

ReturnVerdict(d) ==
    /\ verdict[d].pc = "done"
    /\ verdict' = [verdict EXCEPT ![d] = [pc |-> "idle", hide |-> FALSE]]
    /\ UNCHANGED <<rules, hiderOpen, keys, content, reload>>

-----------------------------------------------------------------------------
(* The hider device. Its queue is sequential and it is exclusive.          *)

OpenHider ==
    /\ ~hiderOpen /\ hiderOpen' = TRUE
    /\ UNCHANGED <<rules, verdict, keys, content, reload>>

\* A rule that is in the set is rejected, a rule of another type as well.
AddHideRule(r) ==
    /\ hiderOpen
    /\ \/ r.type = "default" /\ rules' = [rules EXCEPT !["dynamic"] = @ \cup {r}]
       \/ r.type = "determinative" /\ rules' = [rules EXCEPT !["ext"] = @ \cup {r}]
    /\ UNCHANGED <<verdict, hiderOpen, keys, content, reload>>

ClearHideRules == rules' = [rules EXCEPT !["dynamic"] = {}]

\* IOCTL_USBDK_CLEAR_HIDE_RULES
ClearByClient ==
    /\ hiderOpen /\ ClearHideRules
    /\ UNCHANGED <<verdict, hiderOpen, keys, content, reload>>

\* The close of the file object; another open succeeds only after it.
CloseHider ==
    /\ hiderOpen /\ hiderOpen' = FALSE
    /\ ClearHideRules
    /\ UNCHANGED <<verdict, keys, content, reload>>

-----------------------------------------------------------------------------
(* The rule keys of the registry, changed by other processes.              *)

\* The name is a new GUID, or that of a key that was deleted while its values
\* were being written: the next value creates it again, also when a reload has
\* got its name. The key is enumerated wherever its name falls.
CreateKey(k) ==
    /\ k \notin ToSet(keys)
    /\ \E i \in 1 .. Len(keys) + 1 : keys' = InsertAt(keys, i, k)
    /\ content' = [content EXCEPT ![k] = Partial]

\* The last of the six values of a key is written.
CompleteKey(k, r) ==
    /\ k \in ToSet(keys) /\ content[k] = Partial
    /\ content' = [content EXCEPT ![k] = r]
    /\ UNCHANGED keys

DeleteKey(k) ==
    /\ \E i \in 1 .. Len(keys) : keys[i] = k /\ keys' = RemoveAt(keys, i)
    /\ content' = [content EXCEPT ![k] = Partial]

ChangeRegistry ==
    /\ \E k \in KeyNames : \/ CreateKey(k) \/ DeleteKey(k)
                           \/ \E r \in Rules : CompleteKey(k, r)
    /\ UNCHANGED <<rules, verdict, hiderOpen, reload>>

-----------------------------------------------------------------------------
(* ReloadPersistentHideRules, in thread t.                                 *)

Reload(t, new) == reload' = [reload EXCEPT ![t] = new]

ReloadFrame == UNCHANGED <<verdict, hiderOpen, keys, content>>

\* IOCTL_USBDK_UPDATE_REG_PARAMETERS reaches the head of the control queue.
UpdateRegistryParameters ==
    /\ reload["queue"].pc = "idle"
    /\ reload["register"].pc = "idle" \/ Fault("early")
    /\ Reload("queue", StartedReload)
    /\ ReloadFrame /\ UNCHANGED rules

\* Mutant: the rules of the last reload stay.
ReloadClear_Not(t) ==
    /\ reload[t].pc = "clear"
    /\ Reload(t, [reload[t] EXCEPT !.pc = "clearExt"])
    /\ ReloadFrame /\ UNCHANGED rules

ReloadClear(t) ==
    /\ reload[t].pc = "clear"
    /\ rules' = [rules EXCEPT !["persistent"] = {}]
    /\ Reload(t, [reload[t] EXCEPT !.pc = "clearExt"])
    /\ ReloadFrame

ReloadClearExt(t) ==
    /\ reload[t].pc = "clearExt"
    /\ rules' = [rules EXCEPT !["persistentExt"] = {}]
    /\ Reload(t, [reload[t] EXCEPT !.pc = "open"])
    /\ ReloadFrame

OpenRulesKey(t) ==
    /\ reload[t].pc = "open"
    /\ \/ Reload(t, [reload[t] EXCEPT !.pc = "query"])
       \/ Fault("registry") /\ Reload(t, IdleReload)
    /\ ReloadFrame /\ UNCHANGED rules

\* ZwEnumerateKey by index: behind the last key the reload is over.
QuerySubkey(t) ==
    /\ reload[t].pc = "query"
    /\ \/ /\ reload[t].index > Len(keys)
          /\ Reload(t, IdleReload)
       \/ /\ reload[t].index <= Len(keys)
          /\ Reload(t, [reload[t] EXCEPT !.pc = "read", !.name = keys[reload[t].index]])
       \/ Fault("registry") /\ Reload(t, IdleReload)
    /\ ReloadFrame /\ UNCHANGED rules

\* Mutant: the index of the enumeration is increased twice.
NextKey_Twice(t) == [reload[t] EXCEPT !.pc = "query", !.index = @ + 2,
                                      !.name = NoKey, !.rule = Partial]

NextKey(t) == [reload[t] EXCEPT !.pc = "query", !.index = @ + 1,
                                !.name = NoKey, !.rule = Partial]

\* A key that is gone, lacks a value or cannot be read is passed over.
ReadRule(t) ==
    LET found == content[reload[t].name]
    IN /\ reload[t].pc = "read"
       /\ \/ /\ found # Partial
             /\ Reload(t, [reload[t] EXCEPT !.pc = "add", !.rule = found])
          \/ /\ found = Partial \/ Fault("registry")
             /\ Reload(t, NextKey(t))
       /\ ReloadFrame /\ UNCHANGED rules

\* Mutant: extended rules end up among the default ones.
AddPersistentHideRule_OneSet(t) ==
    LET r == reload[t].rule
    IN /\ reload[t].pc = "add"
       /\ rules' = [rules EXCEPT !["persistent"] = @ \cup {r}]
       /\ Reload(t, NextKey(t))
       /\ ReloadFrame

\* The status of AddPersistentHideRule is not looked at.
AddPersistentHideRule(t) ==
    LET r == reload[t].rule
    IN /\ reload[t].pc = "add"
       /\ \/ r.type = "default" /\ rules' = [rules EXCEPT !["persistent"] = @ \cup {r}]
          \/ r.type = "determinative" /\ rules' = [rules EXCEPT !["persistentExt"] = @ \cup {r}]
          \/ r.type \notin {"default", "determinative"} /\ UNCHANGED rules
          \/ Fault("memory") /\ UNCHANGED rules
       /\ Reload(t, NextKey(t))
       /\ ReloadFrame

-----------------------------------------------------------------------------
VerdictStep(d) ==
    ShouldHideDevice(d) \/ (\E s \in Sets : VisitSet(d, s)) \/ ReturnVerdict(d)

HiderStep ==
    \/ OpenHider \/ ClearByClient \/ CloseHider
    \/ \E r \in Rules : AddHideRule(r)

ReloadStep(t) ==
    \/ ReloadClear(t) \/ ReloadClearExt(t) \/ OpenRulesKey(t) \/ QuerySubkey(t)
    \/ ReadRule(t) \/ AddPersistentHideRule(t)

Next ==
    \/ \E d \in Devices : VerdictStep(d)
    \/ HiderStep
    \/ ChangeRegistry \/ UpdateRegistryParameters
    \/ \E t \in Reloaders : ReloadStep(t)

Spec == Init /\ [][Next]_vars

-----------------------------------------------------------------------------
\* UsbDkHelperHider.h: an extended rule "stays until HiderHandle is closed,
\* client process exits or UsbDk_ClearHideRules() called".
ExtendedRulesEndWithClient == ~hiderOpen => rules["ext"] = {}
=============================================================================
