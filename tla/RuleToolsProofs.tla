---------------------------- MODULE RuleToolsProofs ----------------------------
(***************************************************************************)
(* Proofs about RuleTools: its types and the five properties that TLC      *)
(* checks, for any number of processes, keys, rules and values of a key.   *)
(* The invariants are                                                      *)
(*   - Core: types, keys that differ, complete keys that are there, and    *)
(*     calls that write keys of their own, value by value;                 *)
(*   - RegisteredInv and LoadedInv: what a reload may, and must, put into  *)
(*     the persistent sets, by the place each reload has reached;          *)
(*   - DuplicatesInv, DeletingInv, ClearingInv, AddingInv: what a call has *)
(*     seen of the registry, by the place it has reached.                  *)
(* A step of a call is first restated field by field (Transition), so that *)
(* each invariant is shown from those facts. The lemmas on the types of    *)
(* HideRules are those of HideRulesProofs; its history variables are not   *)
(* used here.                                                              *)
(***************************************************************************)
EXTENDS RuleTools, HideRulesProofs

-----------------------------------------------------------------------------
(* Keys that are put in or taken out.                                      *)

\* An element put in shifts those behind it.
LEMMA InsertAtPlaces ==
    ASSUME NEW S, NEW q \in Seq(S), NEW i \in 1 .. Len(q) + 1, NEW e \in S
    PROVE  /\ Len(InsertAt(q, i, e)) = Len(q) + 1
           /\ \A j \in 1 .. Len(q) + 1 :
                 InsertAt(q, i, e)[j] = IF j < i THEN q[j] ELSE IF j = i THEN e ELSE q[j - 1]
  <1> DEFINE a == SubSeq(q, 1, i - 1)
             b == SubSeq(q, i, Len(q))
             ae == a \o <<e>>
  <1>1. Len(q) \in Nat /\ i \in Int /\ i - 1 \in Int /\ Len(q) \in Int /\ i >= 1 /\ i - 1 <= Len(q)
    BY LenProperties
  <1>2. a \in Seq(S) /\ b \in Seq(S)
    BY PartsOfASequence
  <1>3. \A j \in 1 .. Len(q) : q[j] \in S
    BY ElementOfSeq
  <1>4. \A j \in 1 .. i - 1 : q[j] \in S
    BY <1>1, <1>3
  <1>5. \A j \in i .. Len(q) : q[j] \in S
    BY <1>1, <1>3
  <1>6. Len(a) = i - 1 /\ \A j \in 1 .. i - 1 : a[j] = q[j]
    <2>1. /\ Len(a) = IF 1 <= i - 1 THEN i - 1 - 1 + 1 ELSE 0
          /\ \A j \in 1 .. i - 1 - 1 + 1 : a[j] = q[1 + j - 1]
      BY <1>1, <1>4, SubSeqProperties
    <2> HIDE DEF a
    <2> QED
      BY <1>1, <2>1
  <1>7. Len(b) = Len(q) - i + 1 /\ \A j \in 1 .. Len(q) - i + 1 : b[j] = q[i + j - 1]
    <2>1. /\ Len(b) = IF i <= Len(q) THEN Len(q) - i + 1 ELSE 0
          /\ \A j \in 1 .. Len(q) - i + 1 : b[j] = q[i + j - 1]
      BY <1>1, <1>5, SubSeqProperties
    <2> HIDE DEF b
    <2> QED
      BY <1>1, <2>1
  <1>8. <<e>> \in Seq(S) /\ Len(<<e>>) = 1 /\ <<e>>[1] = e
    OBVIOUS
  <1> HIDE DEF a, b
  <1>9. /\ ae \in Seq(S) /\ Len(ae) = i
        /\ \A j \in 1 .. i : ae[j] = IF j < i THEN q[j] ELSE e
    <2>1. /\ ae \in Seq(S) /\ Len(ae) = Len(a) + Len(<<e>>)
          /\ \A j \in 1 .. Len(a) + Len(<<e>>) :
                ae[j] = IF j <= Len(a) THEN a[j] ELSE <<e>>[j - Len(a)]
      BY <1>2, <1>8, ConcatProperties
    <2> HIDE DEF ae
    <2> DEFINE one == <<e>>
    <2>2. Len(one) = 1 /\ one[1] = e
      BY <1>8
    <2> HIDE DEF one
    <2>3. /\ Len(ae) = Len(a) + Len(one)
          /\ \A j \in 1 .. Len(a) + Len(one) : ae[j] = IF j <= Len(a) THEN a[j] ELSE one[j - Len(a)]
      BY <2>1 DEF one
    <2> QED
      BY <1>1, <1>6, <2>1, <2>2, <2>3
  <1> HIDE DEF ae
  <1>10. /\ Len(ae \o b) = Len(ae) + Len(b)
         /\ \A j \in 1 .. Len(ae) + Len(b) :
               (ae \o b)[j] = IF j <= Len(ae) THEN ae[j] ELSE b[j - Len(ae)]
    BY <1>2, <1>9, ConcatProperties
  <1> DEFINE r == ae \o b
  <1>11. InsertAt(q, i, e) = r
    BY Zenon DEF InsertAt, a, b, ae
  <1>12. /\ Len(r) = Len(ae) + Len(b)
         /\ \A j \in 1 .. Len(ae) + Len(b) : r[j] = IF j <= Len(ae) THEN ae[j] ELSE b[j - Len(ae)]
    BY <1>10
  <1> HIDE DEF r
  <1>13. Len(r) = Len(q) + 1
    BY <1>1, <1>7, <1>9, <1>12
  <1>14. \A j \in 1 .. Len(q) + 1 : r[j] = IF j < i THEN q[j] ELSE IF j = i THEN e ELSE q[j - 1]
    <2> TAKE j \in 1 .. Len(q) + 1
    <2>1. r[j] = IF j <= Len(ae) THEN ae[j] ELSE b[j - Len(ae)]
      BY <1>1, <1>7, <1>9, <1>12
    <2>2. CASE j <= i
      BY <1>1, <1>9, <2>1, <2>2
    <2>3. CASE j > i
      <3>1. j - i \in 1 .. Len(q) - i + 1
        BY <1>1, <2>3
      <3>2. b[j - i] = q[i + (j - i) - 1]
        BY <1>7, <3>1
      <3>3. i + (j - i) - 1 = j - 1
        BY <1>1
      <3> QED
        BY <1>1, <1>9, <2>1, <2>3, <3>2, <3>3
    <2> QED
      BY <1>1, <2>2, <2>3
  <1> QED
    BY <1>11, <1>13, <1>14

\* An element taken out lets those behind it move up.
LEMMA RemoveAtPlaces ==
    ASSUME NEW S, NEW q \in Seq(S), NEW i \in 1 .. Len(q)
    PROVE  /\ Len(RemoveAt(q, i)) = Len(q) - 1
           /\ \A j \in 1 .. Len(q) - 1 : RemoveAt(q, i)[j] = IF j < i THEN q[j] ELSE q[j + 1]
  <1> DEFINE a == SubSeq(q, 1, i - 1)
             b == SubSeq(q, i + 1, Len(q))
             r == a \o b
  <1>1. Len(q) \in Nat /\ i \in Int /\ i - 1 \in Int /\ i + 1 \in Int /\ Len(q) \in Int /\ i >= 1 /\ i <= Len(q)
    BY LenProperties
  <1>2. a \in Seq(S) /\ b \in Seq(S)
    <2>1. i \in 1 .. Len(q) + 1
      BY <1>1
    <2> QED
      BY <2>1, PartsOfASequence
  <1>3. \A j \in 1 .. Len(q) : q[j] \in S
    BY ElementOfSeq
  <1>4. \A j \in 1 .. i - 1 : q[j] \in S
    BY <1>1, <1>3
  <1>5. \A j \in i + 1 .. Len(q) : q[j] \in S
    BY <1>1, <1>3
  <1>6. Len(a) = i - 1 /\ \A j \in 1 .. i - 1 : a[j] = q[j]
    <2>1. /\ Len(a) = IF 1 <= i - 1 THEN i - 1 - 1 + 1 ELSE 0
          /\ \A j \in 1 .. i - 1 - 1 + 1 : a[j] = q[1 + j - 1]
      BY <1>1, <1>4, SubSeqProperties
    <2> HIDE DEF a
    <2> QED
      BY <1>1, <2>1
  <1>7. Len(b) = Len(q) - i /\ \A j \in 1 .. Len(q) - i : b[j] = q[i + j]
    <2>1. /\ Len(b) = IF i + 1 <= Len(q) THEN Len(q) - (i + 1) + 1 ELSE 0
          /\ \A j \in 1 .. Len(q) - (i + 1) + 1 : b[j] = q[(i + 1) + j - 1]
      BY <1>1, <1>5, SubSeqProperties
    <2> HIDE DEF b
    <2> QED
      BY <1>1, <2>1
  <1> HIDE DEF a, b
  <1>8. /\ Len(r) = Len(a) + Len(b)
        /\ \A j \in 1 .. Len(a) + Len(b) : r[j] = IF j <= Len(a) THEN a[j] ELSE b[j - Len(a)]
    BY <1>2, ConcatProperties
  <1>9. RemoveAt(q, i) = r
    BY Zenon DEF RemoveAt, a, b
  <1> HIDE DEF r
  <1>10. Len(r) = Len(q) - 1
    BY <1>1, <1>6, <1>7, <1>8
  <1>11. \A j \in 1 .. Len(q) - 1 : r[j] = IF j < i THEN q[j] ELSE q[j + 1]
    <2> TAKE j \in 1 .. Len(q) - 1
    <2>1. r[j] = IF j <= Len(a) THEN a[j] ELSE b[j - Len(a)]
      BY <1>1, <1>6, <1>7, <1>8
    <2>2. CASE j < i
      BY <1>1, <1>6, <2>1, <2>2
    <2>3. CASE j >= i
      <3>1. j - (i - 1) \in 1 .. Len(q) - i
        BY <1>1, <2>3
      <3>2. b[j - (i - 1)] = q[i + (j - (i - 1))]
        BY <1>7, <3>1
      <3>3. i + (j - (i - 1)) = j + 1
        BY <1>1
      <3> QED
        BY <1>1, <1>6, <2>1, <2>3, <3>2, <3>3
    <2> QED
      BY <1>1, <2>2, <2>3
  <1> QED
    BY <1>9, <1>10, <1>11

-----------------------------------------------------------------------------
(* Type correctness.                                                       *)

\* What a call keeps: its place in CRulesManager fits the call; where it looks
\* at a key or writes one it has one, and it writes the first value first.
ToolFits(x) ==
    /\ x \in ToolType
    /\ x.pc \notin {"idle", "exited"} => x.call \in Calls
    /\ x.pc \in {"find", "compare"} => x.call.op \in {"add", "delete"}
    /\ x.pc \in {"addKey", "write"} => x.call.op = "add"
    /\ x.pc = "deleteKey" => x.call.op = "delete"
    /\ x.pc \in {"list", "deleteEach"} => x.call.op = "deleteAll"
    /\ x.pc \in {"compare", "write", "deleteKey"} => x.key \in KeyNames
    /\ x.pc # "write" => x.value = 1

\* The types of what the calls add to the state.
ToolsTyped ==
    /\ tool \in [Tools -> ToolType]
    /\ written \in [KeyNames -> SUBSET (1 .. Values)]
    /\ \A p \in Tools : ToolFits(tool[p])

\* What a call asks for.
LEMMA CallFacts ==
    ASSUME NEW c \in Calls
    PROVE  /\ c.op \in {"add", "delete", "deleteAll"} /\ c.rule \in Rules \cup {Partial}
           /\ c.op # "deleteAll" => c.rule \in Rules /\ c = [op |-> c.op, rule |-> c.rule]
  BY RuleToolsAssumption DEF CallType

\* What a step makes of a call.
LEMMA ToolBecomes ==
    ASSUME ToolsTyped, NEW p \in Tools, NEW x, ToolFits(x), Set(p, x)
    PROVE  tool' \in [Tools -> ToolType] /\ \A q \in Tools : ToolFits(tool'[q])
  BY DEF ToolsTyped, ToolFits, Set

\* The fields of a call that begins at a place.
LEMMA NewToolFields ==
    ASSUME NEW pc \in ToolPc, NEW c \in Calls \cup {[op |-> "none", rule |-> Partial]}
    PROVE  /\ NewTool(pc, c) \in ToolType
           /\ NewTool(pc, c).pc = pc /\ NewTool(pc, c).call = c /\ NewTool(pc, c).index = 1
           /\ NewTool(pc, c).names = <<>> /\ NewTool(pc, c).notDeleted = FALSE
           /\ NewTool(pc, c).result = "none"
  <1>1. <<>> \in Seq(KeyNames) /\ 1 \in 1 .. Values /\ 1 \in Nat \ {0}
    BY RuleToolsAssumption
  <1>2. "none" \in Results
    BY DEF Results
  <1> HIDE DEF ToolPc, Results
  <1> DEFINE l == <<>>
  <1>3. l \in Seq(KeyNames)
    BY <1>1
  <1>4. NewTool(pc, c) = [pc |-> pc, call |-> c, index |-> 1, key |-> NoKey, value |-> 1,
                          names |-> l, notDeleted |-> FALSE, result |-> "none"]
    BY DEF NewTool
  <1> HIDE DEF l
  <1>5. /\ NewTool(pc, c) \in ToolType
        /\ NewTool(pc, c).pc = pc /\ NewTool(pc, c).call = c /\ NewTool(pc, c).index = 1
        /\ NewTool(pc, c).names = l /\ NewTool(pc, c).notDeleted = FALSE
        /\ NewTool(pc, c).result = "none"
    BY <1>1, <1>2, <1>3, <1>4 DEF ToolType
  <1> QED
    BY <1>5 DEF l

\* A call begins with the first value of a rule.
LEMMA NewToolValue == \A pc, c : NewTool(pc, c).value = 1
  BY DEF NewTool

\* A call fits when it begins and when it returns.
LEMMA NewToolFits ==
    ASSUME NEW c \in Calls
    PROVE  /\ ToolFits(NewTool(IF c.op = "deleteAll" THEN "list" ELSE "find", c))
           /\ \A r \in Results, k \in KeyNames \cup {NoKey} :
                 ToolFits([NewTool("returned", c) EXCEPT !.result = r, !.key = k])
  <1>1. c.op \in {"add", "delete", "deleteAll"} /\ c \in Calls \cup {[op |-> "none", rule |-> Partial]}
    BY CallFacts
  <1> DEFINE pc == IF c.op = "deleteAll" THEN "list" ELSE "find"
             x == NewTool("returned", c)
             y == NewTool(pc, c)
  <1>2. "returned" \in ToolPc /\ pc \in ToolPc
    BY DEF ToolPc
  <1> HIDE DEF pc
  <1>3. y \in ToolType /\ y.call = c /\ y.pc = pc
    BY <1>1, <1>2, NewToolFields
  <1>4. x \in ToolType /\ x.call = c /\ x.pc = "returned"
    BY <1>1, <1>2, NewToolFields
  <1>7. x.value = 1 /\ y.value = 1
    BY NewToolValue
  <1> HIDE DEF x, y
  <1>5. ToolFits(y)
    BY <1>1, <1>3, <1>7 DEF ToolFits, pc
  <1>6. \A r \in Results, k \in KeyNames \cup {NoKey} : ToolFits([x EXCEPT !.result = r, !.key = k])
    BY <1>4, <1>7 DEF ToolFits, ToolType
  <1> QED
    BY <1>5, <1>6 DEF x, y, pc

\* A process that makes no call fits.
LEMMA IdleToolFits == ToolFits(IdleTool) /\ ToolFits([IdleTool EXCEPT !.pc = "exited"])
  <1>1. "idle" \in ToolPc /\ "exited" \in ToolPc
    BY DEF ToolPc
  <1>2. IdleTool \in ToolType /\ IdleTool.pc = "idle"
    BY <1>1, NewToolFields DEF IdleTool
  <1>3. IdleTool.value = 1
    BY NewToolValue DEF IdleTool
  <1> HIDE DEF IdleTool
  <1> QED
    BY <1>1, <1>2, <1>3 DEF ToolFits, ToolType

\* A call that is over, or throws, keeps its key.
LEMMA ReturnFits ==
    ASSUME ToolsTyped, NEW p \in Tools, tool[p].pc \notin {"idle", "exited"},
           NEW r \in Results, Returns(p, r)
    PROVE  tool' \in [Tools -> ToolType] /\ \A q \in Tools : ToolFits(tool'[q])
  <1> DEFINE x == [NewTool("returned", tool[p].call) EXCEPT !.result = r, !.key = tool[p].key]
  <1>1. tool[p].call \in Calls /\ tool[p].key \in KeyNames \cup {NoKey}
    BY DEF ToolsTyped, ToolFits, ToolType
  <1>2. ToolFits(x)
    BY <1>1, NewToolFits
  <1>3. Set(p, x)
    BY DEF Returns
  <1> HIDE DEF x
  <1> QED
    BY <1>2, <1>3, ToolBecomes

\* What the steps of a call do to its place.
LEMMA ToolStepFits ==
    ASSUME TypeOK, ToolsTyped, NEW p \in Tools, ToolStep(p)
    PROVE  tool' \in [Tools -> ToolType] /\ \A q \in Tools : ToolFits(tool'[q])
  <1> DEFINE t == tool[p]
             Good == tool' \in [Tools -> ToolType] /\ \A q \in Tools : ToolFits(tool'[q])
  <1>1. ToolFits(t) /\ t \in ToolType
    BY DEF ToolsTyped
  <1>2. keys \in Seq(KeyNames) /\ Len(keys) \in Nat /\ \A i \in 1 .. Len(keys) : keys[i] \in KeyNames
    BY ElementOfSeq, LenProperties DEF TypeOK
  <1>3. ASSUME NEW x, ToolFits(x), Set(p, x) PROVE Good
    BY <1>3, ToolBecomes
  <1>4. ASSUME NEW r \in Results, t.pc \notin {"idle", "exited"}, Returns(p, r) PROVE Good
    BY <1>4, ReturnFits
  <1>5. "InstallFailure" \in Results /\ "InstallSuccess" \in Results /\ "InstallSuccessNeedReboot" \in Results
    BY DEF Results
  <1>6. ASSUME Throw(p), t.pc \notin {"idle", "exited"} PROVE Good
    BY <1>4, <1>5, <1>6 DEF Throw
  <1>7. t.index + 1 \in Nat \ {0} /\ 1 \in Nat \ {0} /\ 1 \in 1 .. Values
    BY <1>1, RuleToolsAssumption DEF ToolType
  <1>8. CASE \E c \in Calls : Call(p, c)
    <2>1. PICK c \in Calls : Call(p, c)
      BY <1>8
    <2> DEFINE x == NewTool(IF c.op = "deleteAll" THEN "list" ELSE "find", c)
    <2>2. ToolFits(x) /\ Set(p, x)
      BY <2>1, NewToolFits DEF Call
    <2> HIDE DEF x
    <2> QED
      BY <1>3, <2>2
  <1>9. ASSUME NotFound(p), t.pc = "find" PROVE Good
    <2> DEFINE x == [t EXCEPT !.pc = IF t.call.op = "add" THEN "addKey" ELSE "open",
                              !.index = 1, !.key = NoKey]
    <2>1. ToolFits(x)
      BY <1>1, <1>7, <1>9 DEF ToolFits, ToolType, ToolPc
    <2>2. Set(p, x)
      BY <1>9 DEF NotFound
    <2> HIDE DEF x
    <2> QED
      BY <1>3, <2>1, <2>2
  <1>10. CASE FindRule(p)
    <2>1. CASE t.index <= Len(keys) /\ Set(p, [t EXCEPT !.pc = "compare", !.key = keys[t.index]])
      <3> DEFINE k == keys[t.index]
                 x == [t EXCEPT !.pc = "compare", !.key = k]
      <3>1. t.index \in 1 .. Len(keys)
        BY <1>1, <1>2, <2>1 DEF ToolType
      <3>2. k \in KeyNames /\ t.pc = "find"
        BY <1>2, <1>10, <3>1 DEF FindRule
      <3>3. Set(p, x)
        BY <2>1
      <3> HIDE DEF k
      <3>4. ToolFits(x)
        BY <1>1, <3>2 DEF ToolFits, ToolType, ToolPc
      <3> HIDE DEF x
      <3> QED
        BY <1>3, <3>3, <3>4
    <2> QED
      BY <1>9, <1>10, <2>1 DEF FindRule
  <1>21. CASE EnumerationFails(p)
    BY <1>9, <1>21 DEF EnumerationFails
  <1>22. ASSUME t.pc = "compare", PassOver(p) PROVE Good
    <2> DEFINE n == t.index + 1
               x == [t EXCEPT !.pc = "find", !.index = n, !.key = NoKey]
    <2>1. Set(p, x) /\ n \in Nat \ {0}
      BY <1>7, <1>22 DEF PassOver
    <2> HIDE DEF n
    <2>2. ToolFits(x)
      BY <1>1, <1>22, <2>1 DEF ToolFits, ToolType, ToolPc
    <2> HIDE DEF x
    <2> QED
      BY <1>3, <2>1, <2>2
  <1>23. CASE ReadFails(p)
    BY <1>22, <1>23 DEF ReadFails
  <1>11. CASE CompareRule(p)
    <2>1. t.pc = "compare"
      BY <1>11 DEF CompareRule
    <2>2. CASE Throw(p)
      BY <1>6, <2>1, <2>2
    <2>3. CASE t.call.op = "delete" /\ Set(p, [t EXCEPT !.pc = "deleteKey"])
      <3> DEFINE x == [t EXCEPT !.pc = "deleteKey"]
      <3>1. ToolFits(x) /\ Set(p, x)
        BY <1>1, <2>1, <2>3 DEF ToolFits, ToolType, ToolPc
      <3> HIDE DEF x
      <3> QED
        BY <1>3, <3>1
    <2> QED
      BY <1>11, <1>22, <2>1, <2>2, <2>3 DEF CompareRule
  <1>12. CASE AddKey(p)
    <2>1. t.pc = "addKey"
      BY <1>12 DEF AddKey
    <2>2. CASE Throw(p)
      BY <1>6, <2>1, <2>2
    <2>3. CASE \E k \in KeyNames : Set(p, [t EXCEPT !.pc = "write", !.key = k])
      <3>1. PICK k \in KeyNames : Set(p, [t EXCEPT !.pc = "write", !.key = k])
        BY <2>3
      <3> DEFINE x == [t EXCEPT !.pc = "write", !.key = k]
      <3>2. ToolFits(x) /\ Set(p, x)
        BY <1>1, <2>1, <3>1 DEF ToolFits, ToolType, ToolPc
      <3> HIDE DEF x
      <3> QED
        BY <1>3, <3>2
    <2> QED
      BY <1>12, <2>2, <2>3 DEF AddKey
  <1>13. CASE WriteDword(p)
    <2>1. t.pc = "write"
      BY <1>13 DEF WriteDword
    <2>2. CASE Throw(p)
      BY <1>6, <2>1, <2>2
    <2>3. CASE t.value = Values /\ Set(p, [t EXCEPT !.pc = "open", !.value = 1])
      <3> DEFINE x == [t EXCEPT !.pc = "open", !.value = 1]
      <3>1. ToolFits(x) /\ Set(p, x)
        BY <1>1, <1>7, <2>1, <2>3 DEF ToolFits, ToolType, ToolPc
      <3> HIDE DEF x
      <3> QED
        BY <1>3, <3>1
    <2>4. CASE t.value # Values /\ Set(p, [t EXCEPT !.value = @ + 1])
      <3> DEFINE n == t.value + 1
                 x == [t EXCEPT !.value = n]
      <3>1. Set(p, x) /\ n \in 1 .. Values
        <4>1. t.value \in 1 .. Values /\ Values \in Nat
          BY <1>1, RuleToolsAssumption DEF ToolType
        <4> QED
          BY <2>4, <4>1
      <3> HIDE DEF n
      <3>2. ToolFits(x)
        BY <1>1, <2>1, <3>1 DEF ToolFits, ToolType, ToolPc
      <3> HIDE DEF x
      <3> QED
        BY <1>3, <3>1, <3>2
    <2> QED
      BY <1>13, <2>2, <2>3, <2>4 DEF WriteDword
  <1>14. CASE DeleteRule(p)
    <2>1. t.pc = "deleteKey"
      BY <1>14 DEF DeleteRule
    <2>2. CASE Throw(p)
      BY <1>6, <2>1, <2>2
    <2>3. CASE Set(p, [t EXCEPT !.pc = "open", !.key = NoKey])
      <3> DEFINE x == [t EXCEPT !.pc = "open", !.key = NoKey]
      <3>1. ToolFits(x) /\ Set(p, x)
        BY <1>1, <2>1, <2>3 DEF ToolFits, ToolType, ToolPc
      <3> HIDE DEF x
      <3> QED
        BY <1>3, <3>1
    <2> QED
      BY <1>14, <2>2, <2>3 DEF DeleteRule
  <1>24. ASSUME t.pc = "list", Set(p, [t EXCEPT !.index = 1, !.pc = "deleteEach"]) PROVE Good
    <2> DEFINE x == [t EXCEPT !.index = 1, !.pc = "deleteEach"]
    <2>1. ToolFits(x) /\ Set(p, x)
      BY <1>1, <1>7, <1>24 DEF ToolFits, ToolType, ToolPc
    <2> HIDE DEF x
    <2> QED
      BY <1>3, <2>1
  <1>25. CASE ListingFails(p)
    BY <1>24, <1>25 DEF ListingFails
  <1>15. CASE ListKeys(p)
    <2>1. t.pc = "list"
      BY <1>15 DEF ListKeys
    <2>2. CASE t.index <= Len(keys) /\ Set(p, [t EXCEPT !.index = @ + 1, !.names = Append(@, keys[t.index])])
      <3> DEFINE n == t.index + 1
                 l == Append(t.names, keys[t.index])
                 x == [t EXCEPT !.index = n, !.names = l]
      <3>1. t.index \in 1 .. Len(keys) /\ t.names \in Seq(KeyNames)
        BY <1>1, <1>2, <2>2 DEF ToolType
      <3>2. Set(p, x) /\ n \in Nat \ {0} /\ l \in Seq(KeyNames)
        BY <1>2, <1>7, <2>2, <3>1, AppendProperties
      <3> HIDE DEF n, l
      <3>3. ToolFits(x)
        BY <1>1, <2>1, <3>2 DEF ToolFits, ToolType, ToolPc
      <3> HIDE DEF x
      <3> QED
        BY <1>3, <3>2, <3>3
    <2> QED
      BY <1>15, <1>24, <2>1, <2>2 DEF ListKeys
  <1>16. CASE DeleteEach(p)
    <2>1. t.pc = "deleteEach" /\ t.names \in Seq(KeyNames)
      BY <1>1, <1>16 DEF DeleteEach, ToolType
    <2>2. CASE Set(p, [t EXCEPT !.pc = "open"])
      <3> DEFINE x == [t EXCEPT !.pc = "open"]
      <3>1. ToolFits(x) /\ Set(p, x)
        BY <1>1, <2>1, <2>2 DEF ToolFits, ToolType, ToolPc
      <3> HIDE DEF x
      <3> QED
        BY <1>3, <3>1
    <2>3. CASE t.names # <<>> /\ \/ Set(p, [t EXCEPT !.names = Tail(@)])
                                 \/ Set(p, [t EXCEPT !.names = Tail(@), !.notDeleted = TRUE])
      <3> DEFINE l == Tail(t.names)
                 x == [t EXCEPT !.names = l]
                 y == [t EXCEPT !.names = l, !.notDeleted = TRUE]
      <3>1. (Set(p, x) \/ Set(p, y)) /\ l \in Seq(KeyNames)
        BY <2>1, <2>3, HeadTailProperties
      <3> HIDE DEF l
      <3>2. ToolFits(x) /\ ToolFits(y)
        BY <1>1, <2>1, <3>1 DEF ToolFits, ToolType, ToolPc
      <3> HIDE DEF x, y
      <3> QED
        BY <1>3, <3>1, <3>2
    <2> QED
      BY <1>16, <2>2, <2>3 DEF DeleteEach
  <1>17. CASE NeedReboot(p)
    BY <1>4, <1>5, <1>17 DEF NeedReboot
  <1>18. CASE OpenDriver(p)
    <2> DEFINE x == [t EXCEPT !.pc = "reloading"]
    <2>1. ToolFits(x) /\ Set(p, x)
      BY <1>1, <1>18 DEF ToolFits, ToolType, ToolPc, OpenDriver
    <2> HIDE DEF x
    <2> QED
      BY <1>3, <2>1
  <1>19. CASE Reloaded(p)
    BY <1>4, <1>5, <1>19 DEF Reloaded
  <1>20. CASE Exit(p)
    <2> DEFINE x == [IdleTool EXCEPT !.pc = "exited"]
    <2>1. ToolFits(x) /\ Set(p, x)
      BY <1>20, IdleToolFits DEF Exit
    <2> HIDE DEF x
    <2> QED
      BY <1>3, <2>1
  <1> QED
    BY <1>8, <1>10, <1>11, <1>12, <1>13, <1>14, <1>15, <1>16, <1>17, <1>18, <1>19, <1>20,
       <1>21, <1>23, <1>25 DEF ToolStep, Misreads

-----------------------------------------------------------------------------
(* The steps of a call, field by field: what a step does to the call that  *)
(* takes it and to the registry, as the invariants below need it.          *)

\* What a step of one process leaves alone.
OthersStay(p) == \A q \in Tools \ {p} : tool'[q] = tool[q]

\* The call goes from one place to another.
Stays(p, pc, newPc) == tool[p].pc = pc /\ tool'[p].pc = newPc /\ tool'[p].call = tool[p].call

\* Neither the registry nor the driver changes.
Quiet == RegistryFrame /\ DriverFrame

\* A call begins.
Begins(p) ==
    /\ tool[p].pc = "idle" /\ tool'[p].pc \in {"find", "list"}
    /\ tool'[p].index = 1 /\ Quiet

\* AddRule and DeleteRule enumerate the next key.
Looks(p) ==
    /\ Stays(p, "find", "compare") /\ tool[p].index <= Len(keys)
    /\ tool'[p].key = keys[tool[p].index] /\ tool'[p].index = tool[p].index /\ Quiet

\* No key is left to compare, or the call misreads that.
NotThere(p) ==
    /\ Stays(p, "find", IF tool[p].call.op = "add" THEN "addKey" ELSE "open")
    /\ (tool[p].index > Len(keys) \/ Misreads(p)) /\ Quiet

\* DeleteRule has found a key that holds its rule.
Finds(p) ==
    /\ Stays(p, "compare", "deleteKey") /\ tool[p].call.op = "delete"
    /\ content[tool[p].key] = tool[p].call.rule /\ tool'[p].key = tool[p].key /\ Quiet

\* The key holds something else, or the call misreads it.
Passes(p) ==
    /\ Stays(p, "compare", "find")
    /\ content[tool[p].key] # tool[p].call.rule \/ Misreads(p)
    /\ tool'[p].index = tool[p].index + 1 /\ Quiet

\* AddRule creates its key.
Creates(p, k) ==
    /\ Stays(p, "addKey", "write") /\ NewName(k) /\ Insert(k)
    /\ tool'[p].key = k /\ tool'[p].value = tool[p].value
    /\ UNCHANGED <<content, written>> /\ DriverFrame

\* The value a write adds to its key, and what the key holds then.
NowWritten(p) == written[tool[p].key] \cup {tool[p].value}

\* A key holds a rule once all its values are written.
NowHolds(p) == IF NowWritten(p) = 1 .. Values THEN tool[p].call.rule ELSE Partial

\* AddRule writes a value; the key comes back when it is gone.
Writes(p) ==
    /\ \/ tool[p].value = Values /\ Stays(p, "write", "open")
       \/ /\ tool[p].value # Values /\ Stays(p, "write", "write")
          /\ tool'[p].key = tool[p].key /\ tool'[p].value = tool[p].value + 1
    /\ written' = [written EXCEPT ![tool[p].key] = NowWritten(p)]
    /\ content' = [content EXCEPT ![tool[p].key] = NowHolds(p)]
    /\ \/ tool[p].key \in ToSet(keys) /\ keys' = keys
       \/ tool[p].key \notin ToSet(keys) /\ Insert(tool[p].key)
    /\ DriverFrame

\* DeleteRule deletes the key it found.
Deletes(p) == Stays(p, "deleteKey", "open") /\ RemoveKey(tool[p].key) /\ DriverFrame

\* DeleteAllRules takes down the next name.
Lists(p) ==
    /\ Stays(p, "list", "list") /\ tool[p].index <= Len(keys)
    /\ tool'[p].index = tool[p].index + 1 /\ tool'[p].names = Append(tool[p].names, keys[tool[p].index])
    /\ tool'[p].notDeleted = tool[p].notDeleted /\ Quiet

\* DeleteAllRules has all names, or misreads that.
Listed(p) ==
    /\ Stays(p, "list", "deleteEach") /\ (tool[p].index > Len(keys) \/ Misreads(p))
    /\ tool'[p].names = tool[p].names /\ tool'[p].notDeleted = tool[p].notDeleted /\ Quiet

\* DeleteAllRules deletes the key of its first name.
DeletesOne(p) ==
    /\ Stays(p, "deleteEach", "deleteEach") /\ tool[p].names # <<>> /\ RemoveKey(Head(tool[p].names))
    /\ tool'[p].names = Tail(tool[p].names) /\ tool'[p].notDeleted = tool[p].notDeleted /\ DriverFrame

\* DeleteAllRules could not delete a key.
Misses(p) == Stays(p, "deleteEach", "deleteEach") /\ tool'[p].notDeleted = TRUE /\ Quiet

\* DeleteAllRules has gone through its names.
DeletedAll(p) ==
    /\ Stays(p, "deleteEach", "open") /\ tool[p].names = <<>>
    /\ tool'[p].notDeleted = tool[p].notDeleted /\ Quiet

\* The call asks the driver to reload the rules.
Opens(p) ==
    /\ Stays(p, "open", "reloading") /\ tool'[p].notDeleted = tool[p].notDeleted
    /\ \A q \in Tools : tool[q].pc # "reloading"
    /\ UpdateRegistryParameters /\ UNCHANGED written

\* The reload is over and the call reports success.
Succeeds(p) == Stays(p, "reloading", "returned") /\ ~tool[p].notDeleted /\ Quiet

\* The call reports something else.
Fails(p) ==
    /\ tool'[p].pc = "returned" /\ tool'[p].call = tool[p].call
    /\ tool'[p].result # "InstallSuccess" /\ Quiet

\* The process ends.
Exits(p) == tool'[p].pc = "exited" /\ Quiet

\* What a step of a call does, by the fields the invariants read.
Transition(p) ==
    \/ Begins(p) \/ Looks(p) \/ NotThere(p) \/ Finds(p) \/ Passes(p)
    \/ (\E k \in KeyNames : Creates(p, k)) \/ Writes(p) \/ Deletes(p)
    \/ Lists(p) \/ Listed(p) \/ DeletesOne(p) \/ Misses(p) \/ DeletedAll(p)
    \/ Opens(p) \/ Succeeds(p) \/ Fails(p) \/ Exits(p)

\* The fields of a call that has returned.
LEMMA ReturnedFields ==
    ASSUME NEW c \in Calls, NEW r \in Results, NEW k \in KeyNames \cup {NoKey}
    PROVE  LET x == [NewTool("returned", c) EXCEPT !.result = r, !.key = k]
           IN x.pc = "returned" /\ x.call = c /\ x.result = r
  <1>1. "returned" \in ToolPc /\ c \in Calls \cup {[op |-> "none", rule |-> Partial]}
    BY DEF ToolPc
  <1> DEFINE x == NewTool("returned", c)
  <1>2. x \in ToolType /\ x.pc = "returned" /\ x.call = c
    BY <1>1, NewToolFields
  <1> HIDE DEF x
  <1>3. LET y == [x EXCEPT !.result = r, !.key = k] IN y.pc = "returned" /\ y.call = c /\ y.result = r
    BY <1>2 DEF ToolType
  <1> QED
    BY <1>3 DEF x

\* A return keeps the call and sets its result.
LEMMA ReturnTransition ==
    ASSUME ToolsTyped, NEW p \in Tools, tool[p].pc \notin {"idle", "exited"},
           NEW r \in Results, Returns(p, r)
    PROVE  tool'[p].pc = "returned" /\ tool'[p].call = tool[p].call /\ tool'[p].result = r
  <1> DEFINE x == [NewTool("returned", tool[p].call) EXCEPT !.result = r, !.key = tool[p].key]
  <1>1. tool[p].call \in Calls /\ tool[p].key \in KeyNames \cup {NoKey}
    BY DEF ToolsTyped, ToolFits, ToolType
  <1>2. x.pc = "returned" /\ x.call = tool[p].call /\ x.result = r
    BY <1>1, ReturnedFields
  <1>3. Set(p, x)
    BY DEF Returns
  <1> HIDE DEF x
  <1>4. tool'[p] = x
    BY <1>3 DEF Set, ToolsTyped
  <1> QED
    BY <1>2, <1>4

\* Every step of a process is one of those transitions.
LEMMA ToolTransition ==
    ASSUME TypeOK, ToolsTyped, NEW p \in Tools, ToolStep(p)
    PROVE  OthersStay(p) /\ Transition(p)
  <1> DEFINE t == tool[p]
             t1 == tool'[p]
  <1>1. t \in ToolType /\ ToolFits(t)
    BY DEF ToolsTyped
  <1>2. ASSUME NEW x, Set(p, x) PROVE OthersStay(p) /\ t1 = x
    BY <1>2 DEF Set, ToolsTyped, OthersStay
  <1>3. "InstallFailure" \in Results /\ "InstallSuccess" \in Results /\ "InstallSuccessNeedReboot" \in Results
    BY DEF Results
  <1>4. ASSUME NEW r, Returns(p, r) PROVE OthersStay(p)
    BY <1>2, <1>4 DEF Returns
  <1>5. ASSUME Throw(p), t.pc \notin {"idle", "exited"}, DriverFrame PROVE OthersStay(p) /\ Fails(p)
    BY <1>3, <1>4, <1>5, ReturnTransition DEF Throw, Fails, Quiet
  <1>6. CASE \E c \in Calls : Call(p, c)
    <2>1. PICK c \in Calls : Call(p, c)
      BY <1>6
    <2> DEFINE pc == IF c.op = "deleteAll" THEN "list" ELSE "find"
               x == NewTool(pc, c)
    <2>2. Set(p, x) /\ t.pc = "idle" /\ Quiet
      BY <2>1 DEF Call, Quiet
    <2>3. /\ pc \in ToolPc /\ pc \in {"find", "list"}
          /\ c \in Calls \cup {[op |-> "none", rule |-> Partial]}
      BY DEF ToolPc
    <2> HIDE DEF pc
    <2>4. x.pc = pc /\ x.index = 1
      BY <2>3, NewToolFields
    <2> HIDE DEF x
    <2>5. OthersStay(p) /\ t1 = x
      BY <1>2, <2>2
    <2>6. Begins(p)
      BY <2>2, <2>3, <2>4, <2>5 DEF Begins
    <2> QED
      BY <2>5, <2>6 DEF Transition
  <1>18. ASSUME NotFound(p)
         PROVE  /\ OthersStay(p) /\ t1.call = t.call
                /\ t1.pc = IF t.call.op = "add" THEN "addKey" ELSE "open"
    <2> DEFINE pc == IF t.call.op = "add" THEN "addKey" ELSE "open"
               x == [t EXCEPT !.pc = pc, !.index = 1, !.key = NoKey]
    <2>1. OthersStay(p) /\ t1 = x
      BY <1>2, <1>18 DEF NotFound
    <2> HIDE DEF pc
    <2>2. t1.pc = pc /\ t1.call = t.call
      BY <1>1, <2>1 DEF ToolType
    <2> QED
      BY <2>1, <2>2 DEF pc
  <1>19. ASSUME PassOver(p)
         PROVE  OthersStay(p) /\ t1.pc = "find" /\ t1.index = t.index + 1 /\ t1.call = t.call
    <2> DEFINE n == t.index + 1
    <2>1. OthersStay(p) /\ t1 = [t EXCEPT !.pc = "find", !.index = n, !.key = NoKey]
      BY <1>2, <1>19 DEF PassOver
    <2> HIDE DEF n
    <2>2. t1.pc = "find" /\ t1.index = n /\ t1.call = t.call
      BY <1>1, <2>1 DEF ToolType
    <2> QED
      BY <2>1, <2>2 DEF n
  <1>23. ASSUME Set(p, [t EXCEPT !.index = 1, !.pc = "deleteEach"])
         PROVE  /\ OthersStay(p) /\ t1.pc = "deleteEach" /\ t1.call = t.call
                /\ t1.names = t.names /\ t1.notDeleted = t.notDeleted
    <2>1. OthersStay(p) /\ t1 = [t EXCEPT !.index = 1, !.pc = "deleteEach"]
      BY <1>2, <1>23
    <2>2. t1.pc = "deleteEach" /\ t1.call = t.call /\ t1.names = t.names
      BY <1>1, <2>1 DEF ToolType
    <2>3. t1.notDeleted = t.notDeleted
      BY <1>1, <2>1 DEF ToolType
    <2> QED
      BY <2>1, <2>2, <2>3
  <1>7. CASE FindRule(p)
    <2>1. CASE t.index <= Len(keys) /\ Set(p, [t EXCEPT !.pc = "compare", !.key = keys[t.index]])
      <3> DEFINE k == keys[t.index]
                 x == [t EXCEPT !.pc = "compare", !.key = k]
      <3>1. OthersStay(p) /\ t1 = x
        BY <1>2, <2>1
      <3> HIDE DEF k
      <3>2. t1.pc = "compare" /\ t1.key = k /\ t1.index = t.index /\ t1.call = t.call
        BY <1>1, <3>1 DEF ToolType
      <3>3. Looks(p)
        BY <1>7, <2>1, <3>2 DEF FindRule, Looks, Stays, Quiet, k
      <3> QED
        BY <3>1, <3>3 DEF Transition
    <2>2. CASE t.index > Len(keys) /\ NotFound(p)
      BY <1>7, <1>18, <2>2 DEF FindRule, NotThere, Stays, Quiet, Transition
    <2> QED
      BY <1>7, <2>1, <2>2 DEF FindRule
  <1>20. CASE EnumerationFails(p)
    <2>1. Misreads(p)
      BY <1>20 DEF Misreads
    <2> QED
      BY <1>18, <1>20, <2>1 DEF EnumerationFails, NotThere, Stays, Quiet, Transition
  <1>21. CASE ReadFails(p)
    <2>1. Misreads(p)
      BY <1>21 DEF Misreads
    <2> QED
      BY <1>19, <1>21, <2>1 DEF ReadFails, Passes, Stays, Quiet, Transition
  <1>22. CASE ListingFails(p)
    <2>1. Misreads(p)
      BY <1>22 DEF Misreads
    <2> QED
      BY <1>22, <1>23, <2>1 DEF ListingFails, Listed, Stays, Quiet, Transition
  <1>8. CASE CompareRule(p)
    <2>1. t.pc = "compare" /\ Quiet
      BY <1>8 DEF CompareRule, Quiet
    <2>2. CASE Throw(p)
      BY <1>5, <2>1, <2>2 DEF Transition, Quiet
    <2>3. CASE content[t.key] = t.call.rule /\ t.call.op = "delete" /\ Set(p, [t EXCEPT !.pc = "deleteKey"])
      <3>1. OthersStay(p) /\ t1 = [t EXCEPT !.pc = "deleteKey"]
        BY <1>2, <2>3
      <3>2. t1.pc = "deleteKey" /\ t1.key = t.key /\ t1.call = t.call
        BY <1>1, <3>1 DEF ToolType
      <3>3. Finds(p)
        BY <2>1, <2>3, <3>2 DEF Finds, Stays
      <3> QED
        BY <3>1, <3>3 DEF Transition
    <2>4. CASE content[t.key] # t.call.rule /\ PassOver(p)
      BY <1>19, <2>1, <2>4 DEF Passes, Stays, Transition
    <2> QED
      BY <1>8, <2>2, <2>3, <2>4 DEF CompareRule
  <1>9. CASE AddKey(p)
    <2>1. t.pc = "addKey" /\ DriverFrame
      BY <1>9 DEF AddKey
    <2>2. CASE Throw(p)
      BY <1>5, <2>1, <2>2 DEF Transition
    <2>3. CASE ~Throw(p)
      <3>1. PICK k \in KeyNames : /\ NewName(k) /\ Set(p, [t EXCEPT !.pc = "write", !.key = k])
                                  /\ Insert(k) /\ UNCHANGED <<content, written>>
        BY <1>9, <2>3 DEF AddKey
      <3>2. OthersStay(p) /\ t1 = [t EXCEPT !.pc = "write", !.key = k]
        BY <1>2, <3>1
      <3>3. t1.pc = "write" /\ t1.key = k /\ t1.call = t.call /\ t1.value = t.value
        BY <1>1, <3>2 DEF ToolType
      <3>4. Creates(p, k)
        BY <2>1, <3>1, <3>3 DEF Creates, Stays
      <3> QED
        BY <3>2, <3>4 DEF Transition
    <2> QED
      BY <2>2, <2>3
  <1>10. CASE WriteDword(p)
    <2>1. t.pc = "write" /\ DriverFrame
      BY <1>10 DEF WriteDword
    <2>2. CASE Throw(p)
      BY <1>5, <2>1, <2>2 DEF Transition
    <2>3. CASE ~Throw(p)
      <3>1. /\ written' = [written EXCEPT ![t.key] = NowWritten(p)]
            /\ content' = [content EXCEPT ![t.key] = NowHolds(p)]
            /\ \/ t.key \in ToSet(keys) /\ UNCHANGED keys
               \/ t.key \notin ToSet(keys) /\ Insert(t.key)
        BY <1>10, <2>3, Zenon DEF WriteDword, NowWritten, NowHolds
      <3>2. CASE t.value = Values
        <4>1. Set(p, [t EXCEPT !.pc = "open", !.value = 1])
          BY <1>10, <2>3, <3>2 DEF WriteDword
        <4>2. OthersStay(p) /\ t1 = [t EXCEPT !.pc = "open", !.value = 1]
          BY <1>2, <4>1
        <4>3. t1.pc = "open" /\ t1.call = t.call
          BY <1>1, <4>2 DEF ToolType
        <4>4. Writes(p)
          BY <2>1, <3>1, <3>2, <4>3 DEF Writes, Stays
        <4> QED
          BY <4>2, <4>4 DEF Transition
      <3>3. CASE t.value # Values
        <4> DEFINE n == t.value + 1
        <4>1. Set(p, [t EXCEPT !.value = n])
          BY <1>10, <2>3, <3>3 DEF WriteDword
        <4>2. OthersStay(p) /\ t1 = [t EXCEPT !.value = n]
          BY <1>2, <4>1
        <4> HIDE DEF n
        <4>3. t1.pc = "write" /\ t1.call = t.call /\ t1.key = t.key /\ t1.value = n
          BY <1>1, <2>1, <4>2 DEF ToolType
        <4>4. Writes(p)
          BY <2>1, <3>1, <3>3, <4>3 DEF Writes, Stays, n
        <4> QED
          BY <4>2, <4>4 DEF Transition
      <3> QED
        BY <3>2, <3>3
    <2> QED
      BY <2>2, <2>3
  <1>11. CASE DeleteRule(p)
    <2>1. t.pc = "deleteKey" /\ DriverFrame
      BY <1>11 DEF DeleteRule
    <2>2. CASE Throw(p)
      BY <1>5, <2>1, <2>2 DEF Transition
    <2>3. CASE RemoveKey(t.key) /\ Set(p, [t EXCEPT !.pc = "open", !.key = NoKey])
      <3>1. OthersStay(p) /\ t1 = [t EXCEPT !.pc = "open", !.key = NoKey]
        BY <1>2, <2>3
      <3>2. t1.pc = "open" /\ t1.call = t.call
        BY <1>1, <3>1 DEF ToolType
      <3>3. Deletes(p)
        BY <2>1, <2>3, <3>2 DEF Deletes, Stays
      <3> QED
        BY <3>1, <3>3 DEF Transition
    <2> QED
      BY <1>11, <2>2, <2>3 DEF DeleteRule
  <1>12. CASE ListKeys(p)
    <2>1. t.pc = "list" /\ Quiet
      BY <1>12 DEF ListKeys, Quiet
    <2>2. CASE t.index <= Len(keys) /\ Set(p, [t EXCEPT !.index = @ + 1, !.names = Append(@, keys[t.index])])
      <3> DEFINE n == t.index + 1
                 l == Append(t.names, keys[t.index])
      <3>1. OthersStay(p) /\ t1 = [t EXCEPT !.index = n, !.names = l]
        BY <1>2, <2>2
      <3> HIDE DEF n, l
      <3>2. t1.pc = "list" /\ t1.call = t.call /\ t1.index = n /\ t1.names = l
        BY <1>1, <2>1, <3>1 DEF ToolType
      <3>3. t1.notDeleted = t.notDeleted
        BY <1>1, <3>1 DEF ToolType
      <3>4. Lists(p)
        BY <2>1, <2>2, <3>2, <3>3 DEF Lists, Stays, n, l
      <3> QED
        BY <3>1, <3>4 DEF Transition
    <2>3. CASE t.index > Len(keys) /\ Set(p, [t EXCEPT !.index = 1, !.pc = "deleteEach"])
      BY <1>23, <2>1, <2>3 DEF Listed, Stays, Transition
    <2> QED
      BY <1>12, <2>2, <2>3 DEF ListKeys
  <1>13. CASE DeleteEach(p)
    <2>1. t.pc = "deleteEach" /\ DriverFrame
      BY <1>13 DEF DeleteEach
    <2>2. CASE t.names = <<>> /\ Set(p, [t EXCEPT !.pc = "open"]) /\ RegistryFrame
      <3>1. OthersStay(p) /\ t1 = [t EXCEPT !.pc = "open"]
        BY <1>2, <2>2
      <3>2. t1.pc = "open" /\ t1.call = t.call
        BY <1>1, <3>1 DEF ToolType
      <3>3. t1.notDeleted = t.notDeleted
        BY <1>1, <3>1 DEF ToolType
      <3>4. DeletedAll(p)
        BY <2>1, <2>2, <3>2, <3>3 DEF DeletedAll, Stays, Quiet
      <3> QED
        BY <3>1, <3>4 DEF Transition
    <2>3. CASE t.names # <<>> /\ RemoveKey(Head(t.names)) /\ Set(p, [t EXCEPT !.names = Tail(@)])
      <3> DEFINE l == Tail(t.names)
      <3>1. OthersStay(p) /\ t1 = [t EXCEPT !.names = l]
        BY <1>2, <2>3
      <3> HIDE DEF l
      <3>2. t1.pc = "deleteEach" /\ t1.call = t.call /\ t1.names = l
        BY <1>1, <2>1, <3>1 DEF ToolType
      <3>3. t1.notDeleted = t.notDeleted
        BY <1>1, <3>1 DEF ToolType
      <3>4. DeletesOne(p)
        BY <2>1, <2>3, <3>2, <3>3 DEF DeletesOne, Stays, l
      <3> QED
        BY <3>1, <3>4 DEF Transition
    <2>4. CASE RegistryFrame /\ Set(p, [t EXCEPT !.names = Tail(@), !.notDeleted = TRUE])
      <3> DEFINE l == Tail(t.names)
      <3>1. OthersStay(p) /\ t1 = [t EXCEPT !.names = l, !.notDeleted = TRUE]
        BY <1>2, <2>4
      <3> HIDE DEF l
      <3>2. t1.pc = "deleteEach" /\ t1.call = t.call
        BY <1>1, <2>1, <3>1 DEF ToolType
      <3>3. t1.notDeleted = TRUE
        BY <1>1, <3>1 DEF ToolType
      <3>4. Misses(p)
        BY <2>1, <2>4, <3>2, <3>3 DEF Misses, Stays, Quiet
      <3> QED
        BY <3>1, <3>4 DEF Transition
    <2> QED
      BY <1>13, <2>2, <2>3, <2>4 DEF DeleteEach
  <1>14. CASE NeedReboot(p)
    <2>1. t.pc \notin {"idle", "exited"} /\ Quiet /\ Returns(p, "InstallSuccessNeedReboot")
      BY <1>14 DEF NeedReboot, Quiet
    <2>2. Fails(p)
      BY <1>3, <2>1, ReturnTransition DEF Fails
    <2> QED
      BY <1>4, <2>1, <2>2 DEF Transition
  <1>15. CASE OpenDriver(p)
    <2>1. OthersStay(p) /\ t1 = [t EXCEPT !.pc = "reloading"]
      BY <1>2, <1>15 DEF OpenDriver
    <2>2. t1.pc = "reloading" /\ t1.call = t.call
      BY <1>1, <2>1 DEF ToolType
    <2>3. t1.notDeleted = t.notDeleted
      BY <1>1, <2>1 DEF ToolType
    <2>4. Opens(p)
      BY <1>15, <2>2, <2>3 DEF OpenDriver, Opens, Stays
    <2> QED
      BY <2>1, <2>4 DEF Transition
  <1>16. CASE Reloaded(p)
    <2> DEFINE r == IF t.notDeleted THEN "InstallFailure" ELSE "InstallSuccess"
    <2>1. t.pc = "reloading" /\ Quiet /\ Returns(p, r)
      BY <1>16 DEF Reloaded, Quiet
    <2>2. r \in Results
      BY <1>3
    <2> HIDE DEF r
    <2>3. t1.pc = "returned" /\ t1.call = t.call /\ t1.result = r
      BY <2>1, <2>2, ReturnTransition
    <2>4. Succeeds(p) \/ Fails(p)
      BY <2>1, <2>3 DEF Succeeds, Fails, Stays, r
    <2> QED
      BY <1>4, <2>1, <2>4 DEF Transition
  <1>17. CASE Exit(p)
    <2> DEFINE x == [IdleTool EXCEPT !.pc = "exited"]
    <2>1. x.pc = "exited"
      <3>1. "idle" \in ToolPc
        BY DEF ToolPc
      <3>2. IdleTool \in ToolType
        BY <3>1, NewToolFields DEF IdleTool
      <3> HIDE DEF IdleTool
      <3> QED
        BY <3>2 DEF ToolType
    <2>2. Set(p, x) /\ Quiet
      BY <1>17 DEF Exit, Quiet
    <2> HIDE DEF x
    <2>3. OthersStay(p) /\ t1 = x
      BY <1>2, <2>2
    <2> QED
      BY <2>1, <2>2, <2>3 DEF Exits, Transition
  <1> QED
    BY <1>6, <1>7, <1>8, <1>9, <1>10, <1>11, <1>12, <1>13, <1>14, <1>15, <1>16, <1>17,
       <1>20, <1>21, <1>22 DEF ToolStep, Misreads

-----------------------------------------------------------------------------
(* The registry.                                                           *)

\* A key is enumerated once, and a complete one is there with all its values.
KeysDiffer == \A i, j \in 1 .. Len(keys) : keys[i] = keys[j] => i = j

\* A key that holds a rule is there, with every value written.
CompleteKeys ==
    \A k \in KeyNames : content[k] # Partial => k \in ToSet(keys) /\ written[k] = 1 .. Values

\* Each call writes a key of its own, value by value.
WritersDiffer ==
    \A p, q \in Tools : tool[p].pc = "write" /\ tool[q].pc = "write" /\ tool[p].key = tool[q].key => p = q

\* A call that writes has written nothing from its next value on.
WrittenInOrder ==
    \A p \in Tools : tool[p].pc = "write" => written[tool[p].key] \subseteq 1 .. tool[p].value - 1

\* What calls and keys have to do with each other.
RegistryInv == KeysDiffer /\ CompleteKeys /\ WritersDiffer /\ WrittenInOrder

\* No key is lost, and none is enumerated earlier than before.
Onward ==
    /\ \A i \in 1 .. Len(keys) : \E j \in i .. Len(keys') : keys'[j] = keys[i]
    /\ \A j \in 1 .. Len(keys') :
          keys'[j] \notin ToSet(keys) \/ \E i \in 1 .. Len(keys) : i <= j /\ keys[i] = keys'[j]

\* The elements of a sequence by their places.
LEMMA InToSet ==
    ASSUME NEW S, NEW q \in Seq(S)
    PROVE  \A e : e \in ToSet(q) <=> \E i \in 1 .. Len(q) : q[i] = e
  BY LenProperties DEF ToSet

\* A key that is created is added and moves the others onward only.
LEMMA InsertEffect ==
    ASSUME keys \in Seq(KeyNames), KeysDiffer, NEW k \in KeyNames, k \notin ToSet(keys), Insert(k)
    PROVE  /\ keys' \in Seq(KeyNames) /\ KeysDiffer' /\ Len(keys') = Len(keys) + 1
           /\ \A e : e \in ToSet(keys') <=> e \in ToSet(keys) \/ e = k
           /\ Onward
  <1>1. PICK i \in 1 .. Len(keys) + 1 : keys' = InsertAt(keys, i, k)
    BY DEF Insert
  <1> DEFINE n == Len(keys)
  <1>2. n \in Nat /\ i \in 1 .. n + 1
    BY LenProperties
  <1>3. keys' \in Seq(KeyNames)
    BY <1>1, InsertAtTyped
  <1>4. Len(keys') = n + 1
    BY <1>1, InsertAtPlaces
  <1>5. \A j \in 1 .. n + 1 : keys'[j] = IF j < i THEN keys[j] ELSE IF j = i THEN k ELSE keys[j - 1]
    BY <1>1, InsertAtPlaces
  <1>6. \A e : e \in ToSet(keys) <=> \E j \in 1 .. n : keys[j] = e
    BY InToSet
  <1>7. \A e : e \in ToSet(keys') <=> \E j \in 1 .. n + 1 : keys'[j] = e
    BY <1>3, <1>4, InToSet
  <1>8. \A a, b \in 1 .. n : keys[a] = keys[b] => a = b
    BY DEF KeysDiffer
  <1> HIDE DEF n
  <1>9. \A a \in 1 .. n : \E j \in a .. n + 1 : keys'[j] = keys[a]
    <2> TAKE a \in 1 .. n
    <2>1. CASE a < i
      BY <1>2, <1>5, <2>1
    <2>2. CASE a >= i
      <3>1. a + 1 \in a .. n + 1 /\ a + 1 > i /\ (a + 1) - 1 = a
        BY <1>2, <2>2
      <3>2. keys'[a + 1] = keys[a]
        BY <1>2, <1>5, <2>2, <3>1
      <3> QED
        BY <3>1, <3>2
    <2> QED
      BY <1>2, <2>1, <2>2
  <1>10. \A j \in 1 .. n + 1 : keys'[j] = k \/ \E a \in 1 .. n : a <= j /\ keys[a] = keys'[j]
    <2> TAKE j \in 1 .. n + 1
    <2>1. CASE j < i
      BY <1>2, <1>5, <2>1
    <2>2. CASE j = i
      BY <1>2, <1>5, <2>2
    <2>3. CASE j > i
      <3>1. j - 1 \in 1 .. n /\ j - 1 <= j
        BY <1>2, <2>3
      <3> QED
        BY <1>2, <1>5, <2>3, <3>1
    <2> QED
      BY <1>2, <2>1, <2>2, <2>3
  <1>11. \A e : e \in ToSet(keys') <=> e \in ToSet(keys) \/ e = k
    <2>1. i \in 1 .. n + 1 /\ keys'[i] = k
      BY <1>2, <1>5
    <2>2. \A a \in 1 .. n : \A j \in a .. n + 1 : j \in 1 .. n + 1
      BY <1>2
    <2> QED
      BY <1>6, <1>7, <1>9, <1>10, <2>1, <2>2
  <1>12. \A a, b \in 1 .. n + 1 : keys'[a] = keys'[b] => a = b
    <2> SUFFICES ASSUME NEW a \in 1 .. n + 1, NEW b \in 1 .. n + 1, keys'[a] = keys'[b] PROVE a = b
      OBVIOUS
    <2> DEFINE Old(j) == IF j < i THEN j ELSE j - 1
    <2>1. \A j \in 1 .. n + 1 : j # i => Old(j) \in 1 .. n /\ keys'[j] = keys[Old(j)]
      BY <1>2, <1>5
    <2>2. \A j \in 1 .. n + 1 : j # i => keys'[j] # k
      BY <1>6, <2>1
    <2>3. keys'[i] = k
      BY <1>2, <1>5
    <2>4. CASE a = i \/ b = i
      BY <2>2, <2>3, <2>4
    <2>5. CASE a # i /\ b # i
      <3>1. Old(a) = Old(b)
        BY <1>8, <2>1, <2>5
      <3> QED
        BY <1>2, <2>5, <3>1
    <2> QED
      BY <2>4, <2>5
  <1>13. KeysDiffer'
    BY <1>4, <1>12 DEF KeysDiffer
  <1>14. Onward
    BY <1>4, <1>6, <1>9, <1>10 DEF Onward, n
  <1> QED
    BY <1>3, <1>4, <1>11, <1>13, <1>14 DEF n

\* A key that is deleted is gone, and no other.
LEMMA RemoveEffect ==
    ASSUME keys \in Seq(KeyNames), KeysDiffer, NEW k, DeleteKey(k)
    PROVE  /\ keys' \in Seq(KeyNames) /\ KeysDiffer' /\ KeyDeleted /\ k \in ToSet(keys)
           /\ \A e : e \in ToSet(keys') <=> e \in ToSet(keys) /\ e # k
  <1>1. PICK i \in 1 .. Len(keys) : keys[i] = k /\ keys' = RemoveAt(keys, i)
    BY DEF DeleteKey
  <1> DEFINE n == Len(keys)
  <1>2. n \in Nat /\ i \in 1 .. n
    BY LenProperties
  <1>3. keys' \in Seq(KeyNames)
    BY <1>1, RemoveAtTyped
  <1>4. Len(keys') = n - 1
    BY <1>1, RemoveAtPlaces
  <1>5. \A j \in 1 .. n - 1 : keys'[j] = IF j < i THEN keys[j] ELSE keys[j + 1]
    BY <1>1, RemoveAtPlaces
  <1>6. \A e : e \in ToSet(keys) <=> \E j \in 1 .. n : keys[j] = e
    BY InToSet
  <1>7. \A e : e \in ToSet(keys') <=> \E j \in 1 .. n - 1 : keys'[j] = e
    BY <1>3, <1>4, InToSet
  <1>8. \A a, b \in 1 .. n : keys[a] = keys[b] => a = b
    BY DEF KeysDiffer
  <1>9. KeyDeleted
    BY <1>2, <1>4 DEF KeyDeleted
  <1> HIDE DEF n
  <1> DEFINE Old(j) == IF j < i THEN j ELSE j + 1
  <1>10. \A j \in 1 .. n - 1 : Old(j) \in 1 .. n /\ Old(j) # i /\ keys'[j] = keys[Old(j)]
    BY <1>2, <1>5
  <1>11. \A a \in 1 .. n : a # i => \E j \in 1 .. n - 1 : keys'[j] = keys[a]
    <2> SUFFICES ASSUME NEW a \in 1 .. n, a # i PROVE \E j \in 1 .. n - 1 : keys'[j] = keys[a]
      OBVIOUS
    <2>1. CASE a < i
      BY <1>2, <1>5, <2>1
    <2>2. CASE a > i
      <3>1. a - 1 \in 1 .. n - 1 /\ a - 1 >= i /\ (a - 1) + 1 = a
        BY <1>2, <2>2
      <3>2. keys'[a - 1] = keys[a]
        BY <1>2, <1>5, <3>1
      <3> QED
        BY <3>1, <3>2
    <2> QED
      BY <1>2, <2>1, <2>2
  <1>12. \A e : e \in ToSet(keys') <=> e \in ToSet(keys) /\ e # k
    <2>1. \A j \in 1 .. n - 1 : keys'[j] # k
      BY <1>1, <1>2, <1>8, <1>10
    <2> QED
      BY <1>1, <1>6, <1>7, <1>10, <1>11, <2>1
  <1>13. \A a, b \in 1 .. n - 1 : keys'[a] = keys'[b] => a = b
    <2> SUFFICES ASSUME NEW a \in 1 .. n - 1, NEW b \in 1 .. n - 1, keys'[a] = keys'[b] PROVE a = b
      OBVIOUS
    <2>1. Old(a) = Old(b)
      BY <1>8, <1>10
    <2> QED
      BY <1>2, <2>1
  <1>14. KeysDiffer'
    BY <1>4, <1>13 DEF KeysDiffer
  <1>15. k \in ToSet(keys)
    BY <1>1, <1>2, <1>6
  <1> QED
    BY <1>3, <1>9, <1>12, <1>14, <1>15

\* What a write puts into its key has the type of the key.
LEMMA WritesTyped ==
    ASSUME TypeOK, ToolsTyped, NEW p \in Tools, Writes(p)
    PROVE  /\ tool[p].key \in KeyNames /\ tool[p].value \in 1 .. Values
           /\ tool[p].call.rule \in Rules
           /\ NowWritten(p) \in SUBSET (1 .. Values) /\ NowHolds(p) \in Rules \cup {Partial}
  <1>1. ToolFits(tool[p]) /\ tool[p] \in ToolType /\ tool[p].pc = "write"
    BY DEF ToolsTyped, Writes, Stays
  <1>2. tool[p].key \in KeyNames /\ tool[p].value \in 1 .. Values
    BY <1>1 DEF ToolFits, ToolType
  <1>3. tool[p].call \in Calls /\ tool[p].call.op = "add"
    BY <1>1 DEF ToolFits
  <1>4. tool[p].call.rule \in Rules
    BY <1>3, CallFacts
  <1>5. written[tool[p].key] \in SUBSET (1 .. Values)
    BY <1>2 DEF ToolsTyped
  <1> QED
    BY <1>2, <1>4, <1>5 DEF NowWritten, NowHolds

\* What a deletion of a key leaves.
LEMMA RemoveKeyEffect ==
    ASSUME TypeOK, ToolsTyped, KeysDiffer, NEW k, RemoveKey(k)
    PROVE  /\ keys' \in Seq(KeyNames) /\ KeysDiffer' /\ KeyDeleted /\ k \in ToSet(keys) /\ k \in KeyNames
           /\ \A e : e \in ToSet(keys') <=> e \in ToSet(keys) /\ e # k
           /\ content' \in [KeyNames -> Rules \cup {Partial}]
           /\ written' \in [KeyNames -> SUBSET (1 .. Values)]
           /\ \A e \in KeyNames : content'[e] = IF e = k THEN Partial ELSE content[e]
           /\ \A e \in KeyNames : written'[e] = IF e = k THEN {} ELSE written[e]
  <1>1. keys \in Seq(KeyNames) /\ content \in [KeyNames -> Rules \cup {Partial}]
    BY DEF TypeOK
  <1>2. DeleteKey(k)
    BY DEF RemoveKey
  <1>3. /\ keys' \in Seq(KeyNames) /\ KeysDiffer' /\ KeyDeleted /\ k \in ToSet(keys)
        /\ \A e : e \in ToSet(keys') <=> e \in ToSet(keys) /\ e # k
    BY <1>1, <1>2, RemoveEffect
  <1>4. k \in KeyNames
    BY <1>1, <1>3, InToSet, ElementOfSeq
  <1>5. /\ content' \in [KeyNames -> Rules \cup {Partial}]
        /\ \A e \in KeyNames : content'[e] = IF e = k THEN Partial ELSE content[e]
    BY <1>1, <1>2, <1>4 DEF DeleteKey
  <1>6. /\ written' \in [KeyNames -> SUBSET (1 .. Values)]
        /\ \A e \in KeyNames : written'[e] = IF e = k THEN {} ELSE written[e]
    BY <1>4 DEF ToolsTyped, RemoveKey
  <1> QED
    BY <1>3, <1>4, <1>5, <1>6

\* What a write to a key leaves.
LEMMA WriteEffect ==
    ASSUME TypeOK, ToolsTyped, KeysDiffer, NEW p \in Tools, Writes(p)
    PROVE  LET k == tool[p].key
           IN /\ keys' \in Seq(KeyNames) /\ KeysDiffer' /\ ~KeyDeleted /\ k \in KeyNames
              /\ \A e : e \in ToSet(keys') <=> e \in ToSet(keys) \/ e = k
              /\ Onward
              /\ content' \in [KeyNames -> Rules \cup {Partial}]
              /\ written' \in [KeyNames -> SUBSET (1 .. Values)]
              /\ \A e \in KeyNames : content'[e] = IF e = k THEN NowHolds(p) ELSE content[e]
              /\ \A e \in KeyNames : written'[e] = IF e = k THEN NowWritten(p) ELSE written[e]
  <1> DEFINE k == tool[p].key
  <1>1. /\ keys \in Seq(KeyNames) /\ content \in [KeyNames -> Rules \cup {Partial}]
        /\ written \in [KeyNames -> SUBSET (1 .. Values)] /\ Len(keys) \in Nat
    BY LenProperties DEF TypeOK, ToolsTyped
  <1>2. k \in KeyNames /\ NowWritten(p) \in SUBSET (1 .. Values) /\ NowHolds(p) \in Rules \cup {Partial}
    BY WritesTyped
  <1>3. /\ content' = [content EXCEPT ![k] = NowHolds(p)]
        /\ written' = [written EXCEPT ![k] = NowWritten(p)]
        /\ \/ k \in ToSet(keys) /\ keys' = keys
           \/ k \notin ToSet(keys) /\ Insert(k)
    BY DEF Writes
  <1> HIDE DEF k
  <1>4. CASE k \in ToSet(keys) /\ keys' = keys
    <2>1. Onward
      <3>1. \A i \in 1 .. Len(keys) : i \in i .. Len(keys)
        BY <1>1
      <3>2. \A i \in 1 .. Len(keys) : i <= i
        BY <1>1
      <3> QED
        BY <1>4, <3>1, <3>2 DEF Onward
    <2>2. ~KeyDeleted
      BY <1>1, <1>4 DEF KeyDeleted
    <2>3. keys' \in Seq(KeyNames) /\ KeysDiffer'
      BY <1>1, <1>4 DEF KeysDiffer
    <2>4. \A e : e \in ToSet(keys') <=> e \in ToSet(keys) \/ e = k
      BY <1>4
    <2> QED
      BY <1>1, <1>2, <1>3, <2>1, <2>2, <2>3, <2>4 DEF k
  <1>5. CASE k \notin ToSet(keys) /\ Insert(k)
    <2>1. /\ keys' \in Seq(KeyNames) /\ KeysDiffer' /\ Len(keys') = Len(keys) + 1
          /\ \A e : e \in ToSet(keys') <=> e \in ToSet(keys) \/ e = k
          /\ Onward
      BY <1>1, <1>2, <1>5, InsertEffect
    <2>2. ~KeyDeleted
      BY <1>1, <2>1 DEF KeyDeleted
    <2> QED
      BY <1>1, <1>2, <1>3, <2>1, <2>2 DEF k
  <1> QED
    BY <1>3, <1>4, <1>5

\* What the creation of a key leaves.
LEMMA CreateEffect ==
    ASSUME TypeOK, KeysDiffer, NEW p \in Tools, NEW k \in KeyNames, Creates(p, k)
    PROVE  /\ keys' \in Seq(KeyNames) /\ KeysDiffer' /\ ~KeyDeleted
           /\ \A e : e \in ToSet(keys') <=> e \in ToSet(keys) \/ e = k
           /\ Onward /\ k \notin ToSet(keys) /\ written[k] = {}
           /\ \A q \in Tools : tool[q].key # k
  <1>1. keys \in Seq(KeyNames) /\ Len(keys) \in Nat
    BY LenProperties DEF TypeOK
  <1>2. k \notin ToSet(keys) /\ Insert(k) /\ written[k] = {} /\ \A q \in Tools : tool[q].key # k
    BY DEF Creates, NewName
  <1>3. /\ keys' \in Seq(KeyNames) /\ KeysDiffer' /\ Len(keys') = Len(keys) + 1
        /\ \A e : e \in ToSet(keys') <=> e \in ToSet(keys) \/ e = k
        /\ Onward
    BY <1>1, <1>2, InsertEffect
  <1>4. ~KeyDeleted
    BY <1>1, <1>3 DEF KeyDeleted
  <1> QED
    BY <1>2, <1>3, <1>4

\* Nothing happens to the registry.
LEMMA UntouchedEffect ==
    ASSUME TypeOK, keys' = keys
    PROVE  ~KeyDeleted /\ Onward
  <1>1. Len(keys) \in Nat
    BY LenProperties DEF TypeOK
  <1>2. \A i \in 1 .. Len(keys) : i \in i .. Len(keys) /\ i <= i
    BY <1>1
  <1>3. Onward
    BY <1>2 DEF Onward
  <1> QED
    BY <1>1, <1>3 DEF KeyDeleted

\* The transitions that delete a key.
Removes(p) ==
    \/ Deletes(p)
    \/ DeletesOne(p)

\* The key a step removes.
Removed(p) == IF tool[p].pc = "deleteKey" THEN tool[p].key ELSE Head(tool[p].names)

\* The registry does not change.
Untouched == UNCHANGED <<keys, content, written>>

\* A step of a call creates, writes or removes a key, or leaves the registry alone.
LEMMA RegistryCases ==
    ASSUME NEW p \in Tools, Transition(p)
    PROVE  \/ Untouched
           \/ \E k \in KeyNames : Creates(p, k)
           \/ Writes(p)
           \/ Removes(p) /\ RemoveKey(Removed(p))
  <1>1. CASE Begins(p) \/ Looks(p) \/ NotThere(p) \/ Finds(p) \/ Passes(p) \/ Lists(p) \/ Listed(p)
    BY <1>1 DEF Begins, Looks, NotThere, Finds, Passes, Lists, Listed, Quiet, RegistryFrame, Untouched
  <1>2. CASE Misses(p) \/ DeletedAll(p) \/ Succeeds(p) \/ Fails(p) \/ Exits(p)
    BY <1>2 DEF Misses, DeletedAll, Succeeds, Fails, Exits, Quiet, RegistryFrame, Untouched
  <1>3. CASE Opens(p)
    BY <1>3 DEF Opens, UpdateRegistryParameters, ReloadFrame, Untouched
  <1>4. CASE Deletes(p) \/ DeletesOne(p)
    BY <1>4 DEF Deletes, DeletesOne, Stays, Removes, Removed
  <1> QED
    BY <1>1, <1>2, <1>3, <1>4 DEF Transition

\* The rules are the driver's: a call only makes it begin a reload.
LEMMA DriverCases ==
    ASSUME NEW p \in Tools, Transition(p)
    PROVE  /\ UNCHANGED <<rules, verdict, hiderOpen>>
           /\ UNCHANGED reload \/ Opens(p)
  <1>1. CASE Begins(p) \/ Looks(p) \/ NotThere(p) \/ Finds(p) \/ Passes(p) \/ Lists(p) \/ Listed(p)
    BY <1>1 DEF Begins, Looks, NotThere, Finds, Passes, Lists, Listed, Quiet, DriverFrame
  <1>2. CASE Misses(p) \/ DeletedAll(p) \/ Succeeds(p) \/ Fails(p) \/ Exits(p)
    BY <1>2 DEF Misses, DeletedAll, Succeeds, Fails, Exits, Quiet, DriverFrame
  <1>3. CASE Opens(p)
    BY <1>3 DEF Opens, UpdateRegistryParameters, ReloadFrame
  <1>4. CASE Deletes(p) \/ DeletesOne(p) \/ Writes(p) \/ \E k \in KeyNames : Creates(p, k)
    BY <1>4 DEF Deletes, DeletesOne, Writes, Creates, DriverFrame
  <1> QED
    BY <1>1, <1>2, <1>3, <1>4 DEF Transition

\* The registry has its type after each step.
LEMMA RegistryStepTypes ==
    ASSUME TypeOK, ToolsTyped, KeysDiffer, NEW p \in Tools, Transition(p)
    PROVE  /\ keys' \in Seq(KeyNames)
           /\ content' \in [KeyNames -> Rules \cup {Partial}]
           /\ written' \in [KeyNames -> SUBSET (1 .. Values)]
           /\ KeysDiffer'
  <1>1. /\ keys \in Seq(KeyNames) /\ content \in [KeyNames -> Rules \cup {Partial}]
        /\ written \in [KeyNames -> SUBSET (1 .. Values)]
    BY DEF TypeOK, ToolsTyped
  <1>2. CASE Untouched
    BY <1>1, <1>2 DEF Untouched, KeysDiffer
  <1>3. CASE \E k \in KeyNames : Creates(p, k)
    BY <1>1, <1>3, CreateEffect DEF Creates
  <1>4. CASE Writes(p)
    BY <1>4, WriteEffect
  <1>5. CASE Removes(p) /\ RemoveKey(Removed(p))
    BY <1>5, RemoveKeyEffect
  <1> QED
    BY <1>2, <1>3, <1>4, <1>5, RegistryCases

\* A step of a call preserves the types.
LEMMA ToolStepTyped ==
    ASSUME TypeOK, ToolsTyped, KeysDiffer, NEW p \in Tools, ToolStep(p)
    PROVE  TypeOK' /\ ToolsTyped'
  <1>1. Transition(p)
    BY ToolTransition
  <1>2. RulesTyped /\ VerdictTyped /\ hiderOpen \in BOOLEAN /\ ReloadTyped
    BY TypeParts
  <1>3. RulesTyped' /\ VerdictTyped' /\ hiderOpen' \in BOOLEAN
    BY <1>1, <1>2, DriverCases DEF RulesTyped, VerdictTyped
  <1>4. ReloadTyped'
    <2>1. CASE UNCHANGED reload
      BY <1>2, <2>1 DEF ReloadTyped
    <2>2. CASE Opens(p)
      <3>1. Reload("queue", StartedReload) /\ "queue" \in Reloaders
        BY <2>2 DEF Opens, UpdateRegistryParameters, Reloaders
      <3> QED
        BY <1>2, <3>1, StartAndEndFit, ReloadFits
    <2> QED
      BY <1>1, <2>1, <2>2, DriverCases
  <1>5. RegistryTyped'
    BY <1>1, RegistryStepTypes DEF RegistryTyped
  <1>6. TypeOK'
    BY <1>3, <1>4, <1>5 DEF TypeOK, RulesTyped, VerdictTyped, RegistryTyped, ReloadTyped
  <1>7. ToolsTyped'
    BY <1>1, RegistryStepTypes, ToolStepFits DEF ToolsTyped
  <1> QED
    BY <1>6, <1>7

\* The types hold at the start.
LEMMA ToolsInitTyped == ToolsInit => TypeOK /\ ToolsTyped
  <1> SUFFICES ASSUME ToolsInit PROVE TypeOK /\ ToolsTyped
    OBVIOUS
  <1>1. TypeOK
    BY InitTyped DEF ToolsInit
  <1>2. ToolFits(IdleTool)
    BY IdleToolFits
  <1>3. IdleTool \in ToolType
    BY <1>2 DEF ToolFits
  <1>4. tool = [p \in Tools |-> IdleTool]
    BY DEF ToolsInit
  <1>5. written \in [KeyNames -> SUBSET (1 .. Values)]
    BY DEF ToolsInit
  <1> HIDE DEF IdleTool
  <1>6. tool \in [Tools -> ToolType] /\ \A p \in Tools : ToolFits(tool[p])
    BY <1>2, <1>3, <1>4
  <1> QED
    BY <1>1, <1>5, <1>6 DEF ToolsTyped

\* The registry's invariant.
LEMMA RegistryInit == ToolsInit => RegistryInv
  <1> SUFFICES ASSUME ToolsInit PROVE RegistryInv
    OBVIOUS
  <1>1. KeysDiffer
    BY DEF ToolsInit, KeysDiffer
  <1>2. CompleteKeys
    BY DEF ToolsInit, Init, CompleteKeys
  <1>3. \A p \in Tools : tool[p].pc # "write"
    BY DEF ToolsInit, IdleTool, NewTool
  <1> QED
    BY <1>1, <1>2, <1>3 DEF RegistryInv, WritersDiffer, WrittenInOrder

\* A key in the making is not complete.
LEMMA WriterIncomplete ==
    ASSUME ToolsTyped, RegistryInv, NEW p \in Tools, tool[p].pc = "write"
    PROVE  content[tool[p].key] = Partial
  <1>1. tool[p].key \in KeyNames /\ tool[p].value \in 1 .. Values
    BY DEF ToolsTyped, ToolFits, ToolType
  <1>2. tool[p].value \notin written[tool[p].key]
    BY <1>1 DEF RegistryInv, WrittenInOrder
  <1> QED
    BY <1>1, <1>2 DEF RegistryInv, CompleteKeys

\* Which calls write after a step.
LEMMA WritersAfter ==
    ASSUME NEW p \in Tools, OthersStay(p), Transition(p), NEW q \in Tools, tool'[q].pc = "write"
    PROVE  \/ tool[q].pc = "write" /\ tool'[q] = tool[q] /\ q # p
           \/ q = p /\ \E k \in KeyNames : Creates(p, k) /\ tool'[p].key = k
           \/ q = p /\ Writes(p) /\ tool[p].pc = "write" /\ tool'[p].key = tool[p].key
              /\ tool'[p].value = tool[p].value + 1
  <1>1. CASE q # p
    BY <1>1 DEF OthersStay
  <1>2. CASE q = p
    <2>1. \/ \E k \in KeyNames : Creates(p, k)
          \/ Writes(p)
      BY <1>2 DEF Transition, Begins, Looks, NotThere, Finds, Passes, Lists, Listed, Misses,
                  DeletedAll, Succeeds, Fails, Exits, Opens, Deletes, DeletesOne, Stays
    <2> QED
      BY <1>2, <2>1 DEF Creates, Writes, Stays
  <1> QED
    BY <1>1, <1>2

\* Complete keys stay complete, by the transition of the call.
LEMMA CompleteKeysStep ==
    ASSUME TypeOK, ToolsTyped, RegistryInv, NEW p \in Tools, Transition(p)
    PROVE  CompleteKeys'
  <1>1. CASE Untouched
    BY <1>1 DEF Untouched, RegistryInv, CompleteKeys
  <1>2. CASE \E k \in KeyNames : Creates(p, k)
    <2>1. PICK k \in KeyNames : Creates(p, k)
      BY <1>2
    <2>2. \A e : e \in ToSet(keys) => e \in ToSet(keys')
      BY <2>1, CreateEffect DEF RegistryInv
    <2> QED
      BY <2>1, <2>2 DEF Creates, RegistryInv, CompleteKeys
  <1>3. CASE Writes(p)
    <2> DEFINE k == tool[p].key
    <2>1. /\ k \in KeyNames
          /\ \A e : e \in ToSet(keys') <=> e \in ToSet(keys) \/ e = k
          /\ \A e \in KeyNames : content'[e] = IF e = k THEN NowHolds(p) ELSE content[e]
          /\ \A e \in KeyNames : written'[e] = IF e = k THEN NowWritten(p) ELSE written[e]
      BY <1>3, WriteEffect DEF RegistryInv
    <2>2. NowHolds(p) # Partial => NowWritten(p) = 1 .. Values
      BY DEF NowHolds
    <2> HIDE DEF k
    <2> QED
      BY <2>1, <2>2 DEF RegistryInv, CompleteKeys
  <1>4. CASE Removes(p) /\ RemoveKey(Removed(p))
    <2> DEFINE k == Removed(p)
    <2>1. /\ \A e : e \in ToSet(keys') <=> e \in ToSet(keys) /\ e # k
          /\ \A e \in KeyNames : content'[e] = IF e = k THEN Partial ELSE content[e]
          /\ \A e \in KeyNames : written'[e] = IF e = k THEN {} ELSE written[e]
      BY <1>4, RemoveKeyEffect DEF RegistryInv
    <2> HIDE DEF k
    <2> QED
      BY <2>1 DEF RegistryInv, CompleteKeys
  <1> QED
    BY <1>1, <1>2, <1>3, <1>4, RegistryCases

\* Two calls never write the same key: the key of a new call is new.
LEMMA WritersDifferStep ==
    ASSUME TypeOK, ToolsTyped, RegistryInv, NEW p \in Tools, OthersStay(p), Transition(p)
    PROVE  WritersDiffer'
  <1> SUFFICES ASSUME NEW q \in Tools, NEW r \in Tools, tool'[q].pc = "write", tool'[r].pc = "write",
                      tool'[q].key = tool'[r].key, q # r
               PROVE  FALSE
    BY DEF WritersDiffer
  <1>1. ASSUME NEW a \in Tools, NEW b \in Tools, a # b, a = p, tool'[a].pc = "write", tool'[b].pc = "write",
               tool'[a].key = tool'[b].key
        PROVE  FALSE
    <2>1. tool[b].pc = "write" /\ tool'[b] = tool[b]
      BY <1>1, WritersAfter
    <2>2. CASE \E k \in KeyNames : Creates(p, k) /\ tool'[p].key = k
      <3>1. PICK k \in KeyNames : Creates(p, k) /\ tool'[p].key = k
        BY <2>2
      <3>2. tool[b].key # k
        BY <3>1 DEF Creates, NewName
      <3> QED
        BY <1>1, <2>1, <3>1, <3>2
    <2>3. CASE tool[p].pc = "write" /\ tool'[p].key = tool[p].key
      BY <1>1, <2>1, <2>3 DEF RegistryInv, WritersDiffer
    <2> QED
      BY <1>1, <2>2, <2>3, WritersAfter
  <1>2. CASE q = p
    BY <1>1, <1>2
  <1>3. CASE r = p
    BY <1>1, <1>3
  <1>4. CASE q # p /\ r # p
    BY <1>4 DEF OthersStay, RegistryInv, WritersDiffer
  <1> QED
    BY <1>2, <1>3, <1>4

\* Values are written in order, each to the key of its own call.
LEMMA WrittenInOrderStep ==
    ASSUME TypeOK, ToolsTyped, RegistryInv, NEW p \in Tools, OthersStay(p), Transition(p)
    PROVE  WrittenInOrder'
  <1> SUFFICES ASSUME NEW q \in Tools, tool'[q].pc = "write"
               PROVE  written'[tool'[q].key] \subseteq 1 .. tool'[q].value - 1
    BY DEF WrittenInOrder
  <1>1. CASE tool[q].pc = "write" /\ tool'[q] = tool[q] /\ q # p
    <2> DEFINE k == tool[q].key
    <2>1. k \in KeyNames /\ written[k] \subseteq 1 .. tool[q].value - 1
      BY <1>1 DEF RegistryInv, WrittenInOrder, ToolsTyped, ToolFits
    <2>2. written'[k] = written[k] \/ written'[k] = {}
      <3>1. CASE Untouched \/ \E e \in KeyNames : Creates(p, e)
        BY <3>1 DEF Untouched, Creates
      <3>2. CASE Writes(p)
        <4>1. tool[p].key # k
          BY <1>1, <3>2 DEF Writes, Stays, RegistryInv, WritersDiffer
        <4> HIDE DEF k
        <4>2. \A e \in KeyNames : written'[e] = IF e = tool[p].key THEN NowWritten(p) ELSE written[e]
          BY <3>2, WriteEffect DEF RegistryInv
        <4> QED
          BY <2>1, <4>1, <4>2
      <3>3. CASE Removes(p) /\ RemoveKey(Removed(p))
        <4> HIDE DEF k
        <4>1. \A e \in KeyNames : written'[e] = IF e = Removed(p) THEN {} ELSE written[e]
          BY <3>3, RemoveKeyEffect DEF RegistryInv
        <4> QED
          BY <2>1, <4>1
      <3> QED
        BY <3>1, <3>2, <3>3, RegistryCases
    <2> QED
      BY <1>1, <2>1, <2>2
  <1>2. CASE q = p /\ \E k \in KeyNames : Creates(p, k) /\ tool'[p].key = k
    <2>1. PICK k \in KeyNames : Creates(p, k) /\ tool'[p].key = k
      BY <1>2
    <2> QED
      BY <1>2, <2>1 DEF Creates, NewName
  <1>3. CASE q = p /\ Writes(p) /\ tool[p].pc = "write" /\ tool'[p].key = tool[p].key
             /\ tool'[p].value = tool[p].value + 1
    <2>1. written'[tool[p].key] = NowWritten(p) /\ tool[p].value \in 1 .. Values
      BY <1>3, WriteEffect, WritesTyped DEF RegistryInv
    <2>2. written[tool[p].key] \subseteq 1 .. tool[p].value - 1
      BY <1>3 DEF RegistryInv, WrittenInOrder
    <2>3. NowWritten(p) \subseteq 1 .. tool[p].value
      BY <2>1, <2>2 DEF NowWritten
    <2>4. (tool[p].value + 1) - 1 = tool[p].value
      BY <2>1
    <2> QED
      BY <1>3, <2>1, <2>3, <2>4
  <1> QED
    BY <1>1, <1>2, <1>3, WritersAfter

\* A step of a call preserves the registry's invariant.
LEMMA RegistryInvStep ==
    ASSUME TypeOK, ToolsTyped, RegistryInv, NEW p \in Tools, OthersStay(p), Transition(p)
    PROVE  RegistryInv'
  <1>1. KeysDiffer'
    BY RegistryStepTypes DEF RegistryInv
  <1> QED
    BY <1>1, CompleteKeysStep, WritersDifferStep, WrittenInOrderStep DEF RegistryInv

-----------------------------------------------------------------------------
(* The invariant of the registry, and what a reload does field by field.   *)

\* The invariant that the others rest on.
Core == TypeOK /\ ToolsTyped /\ RegistryInv

\* Every step preserves it: a reload reads the registry only.
LEMMA CoreStep == Core /\ [ToolsNext]_(<<vars, toolVars>>) => Core'
  <1> SUFFICES ASSUME Core, [ToolsNext]_(<<vars, toolVars>>) PROVE Core'
    OBVIOUS
  <1> USE DEF Core
  <1>1. CASE \E p \in Tools : ToolStep(p)
    <2>1. PICK p \in Tools : ToolStep(p)
      BY <1>1
    <2>2. OthersStay(p) /\ Transition(p)
      BY <2>1, ToolTransition
    <2>3. TypeOK' /\ ToolsTyped'
      BY <2>1, ToolStepTyped DEF RegistryInv
    <2> QED
      BY <2>2, <2>3, RegistryInvStep
  <1>2. CASE (\E t \in Reloaders : ReloadStep(t)) /\ UNCHANGED toolVars
    <2>1. PICK t \in Reloaders : ReloadStep(t)
      BY <1>2
    <2>2. UNCHANGED <<keys, content>>
      BY <2>1 DEF ReloadStep, ReloadClear, ReloadClearExt, OpenRulesKey, QuerySubkey, ReadRule,
             AddPersistentHideRule, ReloadFrame
    <2>3. TypeOK'
      BY <2>1, ReloadStepTyped
    <2>4. ToolsTyped'
      BY <1>2 DEF toolVars, ToolsTyped
    <2>5. RegistryInv'
      BY <1>2, <2>2 DEF toolVars, RegistryInv, KeysDiffer, CompleteKeys, WritersDiffer, WrittenInOrder
    <2> QED
      BY <2>3, <2>4, <2>5
  <1>3. CASE UNCHANGED <<vars, toolVars>>
    <2>1. TypeOK'
      BY <1>3, NextTyped DEF vars
    <2>2. ToolsTyped'
      BY <1>3 DEF toolVars, ToolsTyped
    <2>3. RegistryInv'
      BY <1>3 DEF vars, toolVars, RegistryInv, KeysDiffer, CompleteKeys, WritersDiffer, WrittenInOrder
    <2> QED
      BY <2>1, <2>2, <2>3
  <1> QED
    BY <1>1, <1>2, <1>3 DEF ToolsNext

\* It holds in every state.
LEMMA CoreInvariant == ToolsSpec => []Core
  <1>1. CallsInit => Core
    BY ToolsInitTyped, RegistryInit DEF CallsInit, Core
  <1>2. Core /\ [ToolsNext /\ RecordCalls]_allVars => Core'
    BY CoreStep DEF allVars
  <1> QED
    BY <1>1, <1>2, PTL DEF ToolsSpec

\* The tools keep to their types, whatever order their steps come in.
THEOREM ToolsTypeCorrect == ToolsSpec => []ToolsTypeOK
  <1>1. Core => ToolsTypeOK
    BY DEF Core, ToolsTyped, ToolsTypeOK
  <1> QED
    BY <1>1, CoreInvariant, PTL

\* What a step of one reload leaves alone.
OtherReloads(t) == \A u \in Reloaders \ {t} : reload'[u] = reload[u]

\* The reload goes from one place to another, at the same key.
Goes(t, pc, newPc) == reload[t].pc = pc /\ reload'[t].pc = newPc /\ reload'[t].index = reload[t].index

\* The reload empties a set.
Empties(t) ==
    \/ Goes(t, "clear", "clearExt") /\ rules' = [rules EXCEPT !["persistent"] = {}]
    \/ Goes(t, "clearExt", "open") /\ rules' = [rules EXCEPT !["persistentExt"] = {}]

\* The reload opens the key of the rules.
OpensKey(t) == Goes(t, "open", "query") /\ rules' = rules

\* The reload is over: no key is left, or the registry failed.
Ends(t) ==
    /\ reload[t].pc \in {"open", "query"} /\ reload'[t].pc = "idle" /\ rules' = rules
    /\ (reload[t].pc = "query" /\ reload[t].index > Len(keys)) \/ Fault("registry")

\* The reload enumerates the next key.
Queries(t) ==
    /\ Goes(t, "query", "read") /\ rules' = rules
    /\ reload[t].index <= Len(keys) /\ reload'[t].name = keys[reload[t].index]

\* The reload reads the rule of its key.
Reads(t) ==
    /\ Goes(t, "read", "add") /\ rules' = rules
    /\ content[reload[t].name] # Partial /\ reload'[t].rule = content[reload[t].name]

\* The reload goes on to the next key.
GoesOn(t, pc) == reload[t].pc = pc /\ reload'[t].pc = "query" /\ reload'[t].index = reload[t].index + 1

\* The key holds no rule that can be read.
Skips(t) == GoesOn(t, "read") /\ rules' = rules /\ (content[reload[t].name] = Partial \/ Fault("registry"))

\* The reload adds the rule to the set of its type, or has no memory for it.
Adds(t) ==
    LET r == reload[t].rule
    IN /\ GoesOn(t, "add")
       /\ \/ r.type = "default" /\ rules' = [rules EXCEPT !["persistent"] = @ \cup {r}]
          \/ r.type = "determinative" /\ rules' = [rules EXCEPT !["persistentExt"] = @ \cup {r}]
          \/ r.type \notin {"default", "determinative"} /\ rules' = rules
          \/ Fault("memory") /\ rules' = rules

\* What a step of a reload does, by the fields the invariants read.
ReloadTransition(t) ==
    \/ Empties(t) \/ OpensKey(t) \/ Ends(t) \/ Queries(t) \/ Reads(t) \/ Skips(t) \/ Adds(t)

\* The fields of a reload that has gone on.
LEMMA ReloadFields ==
    ASSUME NEW x \in ReloadType
    PROVE  /\ \A pc \in ReloadPc : LET y == [x EXCEPT !.pc = pc] IN y.pc = pc /\ y.index = x.index
           /\ \A k \in KeyNames : LET y == [x EXCEPT !.pc = "read", !.name = k]
                                  IN y.pc = "read" /\ y.index = x.index /\ y.name = k
           /\ \A r \in Rules \cup {Partial} : LET y == [x EXCEPT !.pc = "add", !.rule = r]
                                              IN y.pc = "add" /\ y.index = x.index /\ y.rule = r
  BY DEF ReloadType

\* Every step of a reload is one of those transitions.
LEMMA ReloadTransitions ==
    ASSUME TypeOK, NEW t \in Reloaders, ReloadStep(t)
    PROVE  OtherReloads(t) /\ ReloadTransition(t)
  <1> DEFINE x == reload[t]
             x1 == reload'[t]
  <1>1. x \in ReloadType /\ reload \in [Reloaders -> ReloadType]
    BY DEF TypeOK
  <1>2. ASSUME NEW y, Reload(t, y) PROVE OtherReloads(t) /\ x1 = y
    BY <1>1, <1>2 DEF Reload, OtherReloads
  <1>3. \A pc \in ReloadPc : LET y == [x EXCEPT !.pc = pc] IN y.pc = pc /\ y.index = x.index
    BY <1>1, ReloadFields
  <1>4. CASE ReloadClear(t)
    <2>1. OtherReloads(t) /\ x1 = [x EXCEPT !.pc = "clearExt"]
      BY <1>2, <1>4 DEF ReloadClear
    <2>2. x1.pc = "clearExt" /\ x1.index = x.index
      BY <1>3, <2>1 DEF ReloadPc
    <2>3. Empties(t)
      BY <1>4, <2>2 DEF ReloadClear, Empties, Goes
    <2> QED
      BY <2>1, <2>3 DEF ReloadTransition
  <1>5. CASE ReloadClearExt(t)
    <2>1. OtherReloads(t) /\ x1 = [x EXCEPT !.pc = "open"]
      BY <1>2, <1>5 DEF ReloadClearExt
    <2>2. x1.pc = "open" /\ x1.index = x.index
      BY <1>3, <2>1 DEF ReloadPc
    <2>3. Empties(t)
      BY <1>5, <2>2 DEF ReloadClearExt, Empties, Goes
    <2> QED
      BY <2>1, <2>3 DEF ReloadTransition
  <1>6. CASE OpenRulesKey(t)
    <2>1. x.pc = "open" /\ rules' = rules
      BY <1>6 DEF OpenRulesKey
    <2>2. CASE Reload(t, [x EXCEPT !.pc = "query"])
      <3>1. OtherReloads(t) /\ x1 = [x EXCEPT !.pc = "query"]
        BY <1>2, <2>2
      <3>2. x1.pc = "query" /\ x1.index = x.index
        BY <1>3, <3>1 DEF ReloadPc
      <3> QED
        BY <2>1, <3>1, <3>2 DEF OpensKey, Goes, ReloadTransition
    <2>3. CASE Fault("registry") /\ Reload(t, IdleReload)
      <3>1. OtherReloads(t) /\ x1 = IdleReload
        BY <1>2, <2>3
      <3>2. Ends(t)
        BY <2>1, <2>3, <3>1 DEF IdleReload, Ends
      <3> QED
        BY <3>1, <3>2 DEF ReloadTransition
    <2> QED
      BY <1>6, <2>2, <2>3 DEF OpenRulesKey
  <1>7. CASE QuerySubkey(t)
    <2>1. x.pc = "query" /\ rules' = rules
      BY <1>7 DEF QuerySubkey
    <2>2. CASE (x.index > Len(keys) \/ Fault("registry")) /\ Reload(t, IdleReload)
      <3>1. OtherReloads(t) /\ x1 = IdleReload
        BY <1>2, <2>2
      <3>2. Ends(t)
        BY <2>1, <2>2, <3>1 DEF IdleReload, Ends
      <3> QED
        BY <3>1, <3>2 DEF ReloadTransition
    <2>3. CASE x.index <= Len(keys) /\ Reload(t, [x EXCEPT !.pc = "read", !.name = keys[x.index]])
      <3> DEFINE k == keys[x.index]
                 y == [x EXCEPT !.pc = "read", !.name = k]
      <3>1. OtherReloads(t) /\ x1 = y
        BY <1>2, <2>3
      <3>2. k \in KeyNames
        <4>1. keys \in Seq(KeyNames) /\ x.index \in Nat \ {0}
          BY <1>1 DEF TypeOK, ReloadType
        <4>2. x.index \in 1 .. Len(keys)
          BY <2>3, <4>1, LenProperties
        <4> QED
          BY <4>1, <4>2, ElementOfSeq
      <3> HIDE DEF k
      <3>3. y.pc = "read" /\ y.index = x.index /\ y.name = k
        BY <1>1, <3>2, ReloadFields
      <3>4. Queries(t)
        BY <2>1, <2>3, <3>1, <3>3 DEF Queries, Goes, k
      <3> QED
        BY <3>1, <3>4 DEF ReloadTransition
    <2> QED
      BY <1>7, <2>2, <2>3 DEF QuerySubkey
  <1>8. ASSUME Reload(t, NextKey(t)) PROVE OtherReloads(t) /\ x1.pc = "query" /\ x1.index = x.index + 1
    <2> DEFINE n == x.index + 1
    <2>1. OtherReloads(t) /\ x1 = [x EXCEPT !.pc = "query", !.index = n, !.name = NoKey, !.rule = Partial]
      BY <1>2, <1>8 DEF NextKey
    <2> HIDE DEF n
    <2>2. x1.pc = "query" /\ x1.index = n
      BY <1>1, <2>1 DEF ReloadType
    <2> QED
      BY <2>1, <2>2 DEF n
  <1>9. CASE ReadRule(t)
    <2> DEFINE found == content[x.name]
    <2>1. x.pc = "read" /\ rules' = rules /\ found \in Rules \cup {Partial}
      BY <1>9 DEF ReadRule, TypeOK
    <2>2. CASE found # Partial /\ Reload(t, [x EXCEPT !.pc = "add", !.rule = found])
      <3>1. OtherReloads(t) /\ x1 = [x EXCEPT !.pc = "add", !.rule = found]
        BY <1>2, <2>2
      <3> HIDE DEF found
      <3>2. x1.pc = "add" /\ x1.index = x.index /\ x1.rule = found
        BY <1>1, <2>1, <3>1, ReloadFields
      <3>3. Reads(t)
        BY <2>1, <2>2, <3>2 DEF Reads, Goes, found
      <3> QED
        BY <3>1, <3>3 DEF ReloadTransition
    <2>3. CASE (found = Partial \/ Fault("registry")) /\ Reload(t, NextKey(t))
      BY <1>8, <2>1, <2>3 DEF Skips, GoesOn, ReloadTransition
    <2> QED
      BY <1>9, <2>2, <2>3 DEF ReadRule
  <1>10. CASE AddPersistentHideRule(t)
    <2>1. Reload(t, NextKey(t)) /\ x.pc = "add"
      BY <1>10 DEF AddPersistentHideRule
    <2>2. Adds(t)
      BY <1>8, <1>10, <2>1 DEF AddPersistentHideRule, Adds, GoesOn
    <2> QED
      BY <1>8, <2>1, <2>2 DEF ReloadTransition
  <1> QED
    BY <1>4, <1>5, <1>6, <1>7, <1>9, <1>10 DEF ReloadStep

-----------------------------------------------------------------------------
(* Rules that are gone do not come back.                                   *)

\* The places of a reload at which it has still to empty a set.
Emptying(s) == IF s = "persistent" THEN {"clear"} ELSE {"clear", "clearExt"}

\* A reload has still to empty the set.
ToBeEmptied(s) == \E t \in Reloaders : reload[t].pc \in Emptying(s)

\* The sets that a reload fills.
PersistentSets == {"persistent", "persistentExt"}

\* Into a set that the reloads have emptied goes nothing but rules that were
\* registered since the first of them began.
RegisteredInv ==
    /\ kept \subseteq Complete /\ Complete \subseteq registered
    /\ \A t \in Reloaders : reload[t].pc = "add" => reload[t].rule \in registered
    /\ \A s \in PersistentSets : ~ToBeEmptied(s) => rules[s] \subseteq registered

\* What a reload leaves alone.
LEMMA ReloadQuiet ==
    ASSUME TypeOK, NEW t \in Reloaders, ReloadStep(t)
    PROVE  /\ keys' = keys /\ content' = content /\ Complete' = Complete /\ ~KeyDeleted
           /\ ~ReloadBegins /\ ~NoReload
  <1>1. keys' = keys /\ content' = content
    BY DEF ReloadStep, ReloadClear, ReloadClearExt, OpenRulesKey, QuerySubkey, ReadRule,
           AddPersistentHideRule, ReloadFrame
  <1>2. OtherReloads(t) /\ ReloadTransition(t)
    BY ReloadTransitions
  <1>3. reload[t].pc # "idle" /\ reload'[t].pc # "clear"
    BY <1>2 DEF ReloadTransition, Empties, OpensKey, Ends, Queries, Reads, Skips, Adds, Goes, GoesOn
  <1>4. ~ReloadBegins /\ ~NoReload
    BY <1>2, <1>3 DEF OtherReloads, ReloadBegins, NoReload
  <1> QED
    BY <1>1, <1>4, UntouchedEffect DEF Complete

\* What the start of a reload does.
LEMMA OpensReload ==
    ASSUME TypeOK, NEW p \in Tools, Opens(p)
    PROVE  /\ "queue" \in Reloaders /\ reload["queue"].pc = "idle"
           /\ reload'["queue"].pc = "clear" /\ reload'["queue"].index = 1
           /\ OtherReloads("queue") /\ ReloadBegins
           /\ keys' = keys /\ content' = content /\ Complete' = Complete
  <1>1. "queue" \in Reloaders /\ reload["queue"].pc = "idle" /\ Reload("queue", StartedReload)
        /\ keys' = keys /\ content' = content
    BY DEF Opens, UpdateRegistryParameters, ReloadFrame, Reloaders
  <1>2. reload'["queue"] = StartedReload /\ OtherReloads("queue")
    BY <1>1 DEF Reload, OtherReloads, TypeOK
  <1>3. StartedReload.pc = "clear" /\ StartedReload.index = 1
    BY DEF StartedReload
  <1> QED
    BY <1>1, <1>2, <1>3 DEF ReloadBegins, Complete

\* A reload adds what it has read since it began, and a call leaves the
\* sets alone.
LEMMA RegisteredStep ==
    ASSUME Core, RegisteredInv, ToolsNext, RecordCalls
    PROVE  RegisteredInv'
  <1>1. kept' \subseteq Complete' /\ Complete' \subseteq registered'
    BY DEF RecordCalls
  <1>2. ~(ReloadBegins /\ NoReload) => registered \subseteq registered'
    BY DEF RecordCalls
  <1>3. CASE \E p \in Tools : ToolStep(p)
    <2>1. PICK p \in Tools : ToolStep(p)
      BY <1>3
    <2>2. TypeOK /\ Transition(p)
      BY <2>1, ToolTransition DEF Core
    <2>3. rules' = rules
      BY <2>2, DriverCases
    <2>4. CASE Opens(p)
      <3>1. /\ "queue" \in Reloaders /\ reload["queue"].pc = "idle" /\ reload'["queue"].pc = "clear"
            /\ OtherReloads("queue")
        BY <2>2, <2>4, OpensReload
      <3>2. \A s \in PersistentSets : ToBeEmptied(s)'
        BY <3>1 DEF ToBeEmptied, Emptying
      <3>3. ASSUME NEW t \in Reloaders, reload'[t].pc = "add" PROVE reload'[t].rule \in registered'
        <4>1. reload'[t] = reload[t] /\ t # "queue"
          BY <3>1, <3>3 DEF OtherReloads
        <4>2. ~NoReload
          BY <3>3, <4>1 DEF NoReload
        <4> QED
          BY <1>2, <3>3, <4>1, <4>2 DEF RegisteredInv
      <3> QED
        BY <1>1, <3>2, <3>3 DEF RegisteredInv
    <2>5. CASE reload' = reload
      <3>1. ~ReloadBegins
        BY <2>5 DEF ReloadBegins
      <3>2. \A s \in PersistentSets : ToBeEmptied(s)' <=> ToBeEmptied(s)
        BY <2>5 DEF ToBeEmptied
      <3> QED
        BY <1>1, <1>2, <2>3, <2>5, <3>1, <3>2 DEF RegisteredInv
    <2> QED
      BY <2>2, <2>4, <2>5, DriverCases
  <1>4. CASE (\E t \in Reloaders : ReloadStep(t)) /\ UNCHANGED toolVars
    <2>1. PICK t \in Reloaders : ReloadStep(t)
      BY <1>4
    <2>2. TypeOK /\ TypeOK' /\ OtherReloads(t) /\ ReloadTransition(t) /\ registered \subseteq registered'
      BY <1>2, <2>1, ReloadTransitions, ReloadQuiet, ReloadStepTyped DEF Core
    <2>3. rules \in [Sets -> SUBSET Rules] /\ "persistent" \in Sets /\ "persistentExt" \in Sets
      BY <2>2 DEF TypeOK, Sets
    <2>4. ASSUME NEW u \in Reloaders, reload'[u].pc = "add" PROVE reload'[u].rule \in registered'
      <3>1. CASE u # t
        BY <2>2, <2>4, <3>1 DEF OtherReloads, RegisteredInv
      <3>2. CASE u = t
        <4>1. Reads(t)
          BY <2>2, <2>4, <3>2 DEF ReloadTransition, Empties, OpensKey, Ends, Queries, Skips, Adds, Goes, GoesOn
        <4>2. reload[t].name \in KeyNames
          BY <2>2, <4>1 DEF TypeOK, Reads, Goes
        <4>3. content[reload[t].name] \in Complete
          BY <4>1, <4>2 DEF Core, RegistryInv, CompleteKeys, Complete, Reads
        <4> QED
          BY <2>2, <3>2, <4>1, <4>3 DEF RegisteredInv, Reads
      <3> QED
        BY <3>1, <3>2
    <2>5. ASSUME NEW s \in PersistentSets, ~ToBeEmptied(s)' PROVE rules'[s] \subseteq registered'
      <3>1. CASE Goes(t, "clear", "clearExt") /\ rules' = [rules EXCEPT !["persistent"] = {}]
        BY <2>2, <2>3, <2>5, <3>1 DEF ToBeEmptied, Emptying, PersistentSets, Goes
      <3>2. CASE Goes(t, "clearExt", "open") /\ rules' = [rules EXCEPT !["persistentExt"] = {}]
        <4>1. CASE s = "persistentExt"
          BY <2>3, <3>2, <4>1
        <4>2. CASE s = "persistent"
          <5>1. ~ToBeEmptied(s)
            BY <2>2, <2>5, <3>2, <4>2 DEF ToBeEmptied, Emptying, OtherReloads, Goes
          <5>2. rules'[s] = rules[s]
            BY <2>3, <3>2, <4>2
          <5> QED
            BY <2>2, <5>1, <5>2 DEF RegisteredInv
        <4> QED
          BY <4>1, <4>2 DEF PersistentSets
      <3>3. CASE ~Empties(t)
        <4>1. ~ToBeEmptied(s)
          <5>1. reload[t].pc \notin {"clear", "clearExt"}
            BY <2>2, <3>3 DEF ReloadTransition, OpensKey, Ends, Queries, Reads, Skips, Adds, Goes, GoesOn
          <5> QED
            BY <2>2, <2>5, <5>1 DEF ToBeEmptied, Emptying, OtherReloads
        <4>2. CASE rules' = rules
          BY <2>2, <4>1, <4>2 DEF RegisteredInv
        <4>3. CASE Adds(t)
          <5> DEFINE r == reload[t].rule
          <5>1. r \in registered
            BY <4>3 DEF Adds, GoesOn, RegisteredInv
          <5>2. rules'[s] \subseteq rules[s] \cup {r}
            BY <2>3, <4>3 DEF Adds, PersistentSets
          <5> HIDE DEF r
          <5> QED
            BY <2>2, <4>1, <5>1, <5>2 DEF RegisteredInv
        <4> QED
          BY <2>2, <3>3, <4>2, <4>3 DEF ReloadTransition, OpensKey, Ends, Queries, Reads, Skips
      <3> QED
        BY <3>1, <3>2, <3>3 DEF Empties
    <2> QED
      BY <1>1, <2>4, <2>5 DEF RegisteredInv
  <1> QED
    BY <1>3, <1>4 DEF ToolsNext

\* The rules registered at the start are those of the keys.
LEMMA RegisteredInit == CallsInit => RegisteredInv
  BY DEF CallsInit, ToolsInit, Init, RegisteredInv, PersistentSets, Sets, StartedReload, IdleReload

\* Steps of nobody preserve it.
LEMMA RegisteredStutter == RegisteredInv /\ UNCHANGED allVars => RegisteredInv'
  <1> SUFFICES ASSUME RegisteredInv, UNCHANGED allVars PROVE RegisteredInv'
    OBVIOUS
  <1>1. /\ UNCHANGED <<rules, keys, content, reload, registered, kept>>
    BY DEF allVars, vars, callHistory
  <1>2. Complete' = Complete /\ \A s \in PersistentSets : ToBeEmptied(s)' <=> ToBeEmptied(s)
    BY <1>1 DEF Complete, ToBeEmptied
  <1> QED
    BY <1>1, <1>2 DEF RegisteredInv

\* It holds in every state.
LEMMA RegisteredInvariant == ToolsSpec => []RegisteredInv
  <1>1. Core /\ RegisteredInv /\ [ToolsNext /\ RecordCalls]_allVars => RegisteredInv'
    BY RegisteredStep, RegisteredStutter
  <1> QED
    BY <1>1, RegisteredInit, CoreInvariant, PTL DEF ToolsSpec

\* What is in force after a reload was in the registry at some time since it
\* began: a rule whose deletion was over by then does not come back.
THEOREM DeletedRulesStayAway == ToolsSpec => []DeletedRulesLeave
  <1>1. RegisteredInv => DeletedRulesLeave
    BY DEF RegisteredInv, DeletedRulesLeave, NoReload, InForce, PersistentSets, ToBeEmptied, Emptying
  <1> QED
    BY <1>1, RegisteredInvariant, PTL

-----------------------------------------------------------------------------
(* Duplicates.                                                             *)

\* While its scan goes on, no key with the rule is behind it.
Scanning(p, r) ==
    /\ tool[p].pc = "find" =>
          \A i \in 1 .. Len(keys) : content[keys[i]] = r => i >= tool[p].index
    /\ tool[p].pc = "compare" =>
          \A i \in 1 .. Len(keys) : content[keys[i]] = r => keys[i] = tool[p].key \/ i > tool[p].index

\* Unless it is contested, a rule is in one key at most, and a call that is
\* about to add it has seen that it is in none.
DuplicatesInv ==
    \A r \in Rules \ contested :
        /\ \A a, b \in Holding(r) : a = b
        /\ \A p \in Tools : Adding(p, r) =>
              /\ Scanning(p, r)
              /\ tool[p].pc \in {"addKey", "write"} => Holding(r) = {}

\* The write that completes a key.
Completes(p, r) == Writes(p) /\ NowHolds(p) = r

\* A step that deletes no key.
LEMMA GrowingStep ==
    ASSUME Core, NEW p \in Tools, Transition(p), ~KeyDeleted
    PROVE  /\ Onward
           /\ \A e : e \in ToSet(keys) => e \in ToSet(keys')
           /\ \A e \in KeyNames : content[e] # Partial => content'[e] = content[e]
           /\ \A r \in Rules : \A e : e \in Holding(r)' <=>
                 e \in Holding(r) \/ (Completes(p, r) /\ e = tool[p].key)
  <1>1. TypeOK /\ ToolsTyped /\ RegistryInv /\ KeysDiffer /\ CompleteKeys
    BY DEF Core, RegistryInv
  <1>2. /\ \A e : e \in ToSet(keys) => e \in KeyNames
        /\ \A r \in Rules : r # Partial
    BY <1>1, InToSet, ElementOfSeq, HideRulesAssumption DEF TypeOK
  <1>3. CASE Untouched
    <2>1. Onward
      BY <1>1, <1>3, UntouchedEffect DEF Untouched
    <2>2. \A r \in Rules : Holding(r)' = Holding(r)
      BY <1>3 DEF Untouched, Holding
    <2>3. \A r \in Rules : Completes(p, r) => tool[p].key \in Holding(r)
      <3> SUFFICES ASSUME NEW r \in Rules, Completes(p, r) PROVE FALSE
        OBVIOUS
      <3>1. /\ content'[tool[p].key] = r /\ tool[p].key \in KeyNames /\ tool[p].pc = "write"
        BY <1>1, WriteEffect DEF Completes, Writes, Stays
      <3>2. content[tool[p].key] = Partial
        BY <1>1, <3>1, WriterIncomplete
      <3> QED
        BY <1>2, <1>3, <3>1, <3>2 DEF Untouched
    <2> QED
      BY <1>3, <2>1, <2>2, <2>3 DEF Untouched
  <1>4. CASE \E k \in KeyNames : Creates(p, k)
    <2>1. PICK k \in KeyNames : Creates(p, k)
      BY <1>4
    <2>2. /\ \A e : e \in ToSet(keys') <=> e \in ToSet(keys) \/ e = k
          /\ Onward /\ k \notin ToSet(keys)
      BY <1>1, <2>1, CreateEffect
    <2>3. content' = content /\ content[k] = Partial /\ tool[p].pc = "addKey"
      BY <1>1, <2>1, <2>2 DEF Creates, Stays, CompleteKeys
    <2>4. \A r \in Rules : ~Completes(p, r)
      BY <2>3 DEF Completes, Writes, Stays
    <2>5. \A r \in Rules : \A e : e \in Holding(r)' <=> e \in Holding(r)
      BY <1>2, <2>2, <2>3 DEF Holding
    <2> QED
      BY <2>2, <2>3, <2>4, <2>5
  <1>5. CASE Writes(p)
    <2> DEFINE k == tool[p].key
    <2>1. /\ \A e : e \in ToSet(keys') <=> e \in ToSet(keys) \/ e = k
          /\ Onward /\ k \in KeyNames
          /\ \A e \in KeyNames : content'[e] = IF e = k THEN NowHolds(p) ELSE content[e]
      BY <1>1, <1>5, WriteEffect
    <2>2. content[k] = Partial
      BY <1>1, <1>5, WriterIncomplete DEF Writes, Stays
    <2> HIDE DEF k
    <2>3. \A r \in Rules : \A e : e \in Holding(r)' <=> e \in Holding(r) \/ (NowHolds(p) = r /\ e = k)
      BY <1>2, <2>1, <2>2 DEF Holding
    <2> QED
      BY <1>5, <2>1, <2>2, <2>3 DEF Completes, k
  <1>6. CASE Removes(p) /\ RemoveKey(Removed(p))
    BY <1>1, <1>6, RemoveKeyEffect
  <1> QED
    BY <1>3, <1>4, <1>5, <1>6, RegistryCases

\* A step that deletes a key leaves no rule in more keys.
LEMMA ShrinkingStep ==
    ASSUME Core, NEW p \in Tools, Transition(p), KeyDeleted
    PROVE  /\ Removes(p) /\ RemoveKey(Removed(p))
           /\ \A r \in Rules : \A e : e \in Holding(r)' <=> e \in Holding(r) /\ e # Removed(p)
  <1>1. TypeOK /\ ToolsTyped /\ KeysDiffer
    BY DEF Core, RegistryInv
  <1>2. Removes(p) /\ RemoveKey(Removed(p))
    BY <1>1, RegistryCases, UntouchedEffect, CreateEffect, WriteEffect DEF Untouched
  <1>3. \A e : e \in ToSet(keys) => e \in KeyNames
    BY <1>1, InToSet, ElementOfSeq DEF TypeOK
  <1> DEFINE k == Removed(p)
  <1>4. /\ \A e : e \in ToSet(keys') <=> e \in ToSet(keys) /\ e # k
        /\ \A e \in KeyNames : content'[e] = IF e = k THEN Partial ELSE content[e]
    BY <1>1, <1>2, RemoveKeyEffect
  <1> HIDE DEF k
  <1>5. \A r \in Rules : \A e : e \in Holding(r)' <=> e \in Holding(r) /\ e # k
    BY <1>3, <1>4 DEF Holding
  <1> QED
    BY <1>2, <1>5 DEF k

\* The scan of a call goes on when others add keys.
LEMMA ScanGoesOn ==
    ASSUME TypeOK, TypeOK', ToolsTyped, Onward, NEW q \in Tools, tool'[q] = tool[q], NEW r,
           \A e : e \in Holding(r)' => e \in Holding(r), Scanning(q, r)
    PROVE  Scanning(q, r)'
  <1>1. keys \in Seq(KeyNames) /\ Len(keys) \in Nat /\ keys' \in Seq(KeyNames) /\ Len(keys') \in Nat
        /\ tool[q].index \in Nat
    BY LenProperties DEF TypeOK, ToolsTyped, ToolType
  <1>2. ASSUME NEW i \in 1 .. Len(keys'), content'[keys'[i]] = r
        PROVE  \E a \in 1 .. Len(keys) : a <= i /\ keys[a] = keys'[i] /\ content[keys[a]] = r
    <2>1. keys'[i] \in ToSet(keys')
      BY <1>1, InToSet
    <2>2. keys'[i] \in Holding(r)'
      BY <1>2, <2>1 DEF Holding
    <2>3. keys'[i] \in ToSet(keys) /\ content[keys'[i]] = r
      BY <2>2 DEF Holding
    <2> QED
      BY <2>3 DEF Onward
  <1>3. ASSUME tool[q].pc = "find", NEW i \in 1 .. Len(keys'), content'[keys'[i]] = r
        PROVE  i >= tool[q].index
    <2>1. PICK a \in 1 .. Len(keys) : a <= i /\ keys[a] = keys'[i] /\ content[keys[a]] = r
      BY <1>2, <1>3
    <2>2. a >= tool[q].index
      BY <1>3, <2>1 DEF Scanning
    <2> QED
      BY <1>1, <2>1, <2>2
  <1>4. ASSUME tool[q].pc = "compare", NEW i \in 1 .. Len(keys'), content'[keys'[i]] = r
        PROVE  keys'[i] = tool[q].key \/ i > tool[q].index
    <2>1. PICK a \in 1 .. Len(keys) : a <= i /\ keys[a] = keys'[i] /\ content[keys[a]] = r
      BY <1>2, <1>4
    <2>2. keys[a] = tool[q].key \/ a > tool[q].index
      BY <1>4, <2>1 DEF Scanning
    <2> QED
      BY <1>1, <2>1, <2>2
  <1> QED
    BY <1>3, <1>4 DEF Scanning

\* The scan of a call goes on with its own steps.
LEMMA ScanStep ==
    ASSUME Core, NEW p \in Tools, Transition(p), NEW r, Scanning(p, r),
           tool'[p].pc \in {"find", "compare"},
           tool[p].pc # "idle" => tool[p].call.rule = r /\ ~Misreads(p)
    PROVE  Scanning(p, r)'
  <1>1. keys \in Seq(KeyNames) /\ Len(keys) \in Nat /\ tool[p].index \in Nat
    BY LenProperties DEF Core, TypeOK, ToolsTyped, ToolType
  <1>2. Begins(p) \/ Looks(p) \/ Passes(p)
    BY DEF Transition, NotThere, Finds, Lists, Listed, Misses, DeletedAll, Succeeds, Fails, Exits,
           Opens, Deletes, DeletesOne, Creates, Writes, Stays
  <1>3. keys' = keys /\ content' = content
    BY <1>2 DEF Begins, Looks, Passes, Quiet, RegistryFrame
  <1>4. CASE Begins(p)
    BY <1>1, <1>3, <1>4 DEF Begins, Scanning
  <1>5. CASE Looks(p)
    <2>1. \A i \in 1 .. Len(keys) : content[keys[i]] = r => i >= tool[p].index
      BY <1>5 DEF Looks, Stays, Scanning
    <2>2. \A i \in 1 .. Len(keys) : content[keys[i]] = r => keys[i] = tool'[p].key \/ i > tool'[p].index
      BY <1>1, <1>5, <2>1 DEF Looks
    <2> QED
      BY <1>3, <1>5, <2>2 DEF Looks, Stays, Scanning
  <1>6. CASE Passes(p)
    <2>1. \A i \in 1 .. Len(keys) : content[keys[i]] = r => keys[i] = tool[p].key \/ i > tool[p].index
      BY <1>6 DEF Passes, Stays, Scanning
    <2>2. content[tool[p].key] # r
      BY <1>6 DEF Passes, Stays
    <2>3. \A i \in 1 .. Len(keys) : content[keys[i]] = r => i >= tool'[p].index
      BY <1>1, <1>6, <2>1, <2>2 DEF Passes
    <2> QED
      BY <1>3, <1>6, <2>3 DEF Passes, Stays, Scanning
  <1> QED
    BY <1>2, <1>4, <1>5, <1>6

\* A scan that is over has not found the rule.
LEMMA ScanOver ==
    ASSUME Core, NEW p \in Tools, NotThere(p), ~Misreads(p), NEW r, Scanning(p, r)
    PROVE  Holding(r) = {} /\ Holding(r)' = {}
  <1>1. keys \in Seq(KeyNames) /\ Len(keys) \in Nat /\ tool[p].index \in Nat
    BY LenProperties DEF Core, TypeOK, ToolsTyped, ToolType
  <1>2. \A i \in 1 .. Len(keys) : content[keys[i]] # r
    BY <1>1 DEF NotThere, Stays, Scanning
  <1>3. Holding(r) = {}
    BY <1>1, <1>2, InToSet DEF Holding
  <1> QED
    BY <1>3 DEF NotThere, Quiet, RegistryFrame, Holding

\* A call that adds a rule, in the words of the invariant.
LEMMA AddingCall ==
    ASSUME ToolsTyped, NEW p \in Tools, tool[p].pc \in {"find", "compare", "addKey", "write"}, tool[p].call.op = "add"
    PROVE  tool[p].call.rule \in Rules /\ Adding(p, tool[p].call.rule)
  <1>1. tool[p].call \in Calls
    BY DEF ToolsTyped, ToolFits
  <1> QED
    BY <1>1, CallFacts DEF Adding

\* A key in the way of a call was seen by it or makes its rule contested.
LEMMA DuplicatesStep ==
    ASSUME Core, Core', DuplicatesInv, NEW p \in Tools, OthersStay(p), Transition(p), RecordCalls
    PROVE  DuplicatesInv'
  <1> SUFFICES ASSUME NEW r \in Rules, r \notin contested'
               PROVE  /\ \A a, b \in Holding(r)' : a = b
                      /\ \A q \in Tools : Adding(q, r)' =>
                            /\ Scanning(q, r)'
                            /\ tool'[q].pc \in {"addKey", "write"} => Holding(r)' = {}
    BY DEF DuplicatesInv
  <1>1. /\ r \notin contested
        /\ \A q \in Tools : Adding(q, r) =>
              ~KeyDeleted /\ ~Misreads(q) /\ \A o \in Tools \ {q} : ~Adding(o, r)
    BY DEF RecordCalls
  <1>2. /\ \A a, b \in Holding(r) : a = b
        /\ \A q \in Tools : Adding(q, r) =>
              /\ Scanning(q, r)
              /\ tool[q].pc \in {"addKey", "write"} => Holding(r) = {}
    BY <1>1 DEF DuplicatesInv
  <1>3. TypeOK /\ TypeOK' /\ ToolsTyped /\ ToolsTyped' /\ RegistryInv
    BY DEF Core
  <1>4. Completes(p, r) => Adding(p, r) /\ tool[p].pc = "write"
    <2> SUFFICES ASSUME Completes(p, r) PROVE Adding(p, r) /\ tool[p].pc = "write"
      OBVIOUS
    <2>1. tool[p].pc = "write" /\ NowHolds(p) = r
      BY DEF Completes, Writes, Stays
    <2>2. r = tool[p].call.rule
      BY <2>1, HideRulesAssumption DEF NowHolds
    <2>3. tool[p].call.op = "add"
      BY <1>3, <2>1 DEF ToolsTyped, ToolFits
    <2> QED
      BY <1>3, <2>1, <2>2, <2>3, AddingCall
  <1>5. \A a, b \in Holding(r)' : a = b
    <2>1. CASE KeyDeleted
      <3>1. \A e : e \in Holding(r)' => e \in Holding(r)
        BY <2>1, ShrinkingStep
      <3> QED
        BY <1>2, <3>1
    <2>2. CASE ~KeyDeleted /\ Completes(p, r)
      <3>1. \A e : e \in Holding(r)' <=> e \in Holding(r) \/ e = tool[p].key
        BY <2>2, GrowingStep
      <3> QED
        BY <1>2, <1>4, <2>2, <3>1
    <2>3. CASE ~KeyDeleted /\ ~Completes(p, r)
      <3>1. \A e : e \in Holding(r)' <=> e \in Holding(r)
        BY <2>3, GrowingStep
      <3> QED
        BY <1>2, <3>1
    <2> QED
      BY <2>1, <2>2, <2>3
  <1>6. ASSUME NEW q \in Tools, Adding(q, r)', q # p
        PROVE  Scanning(q, r)' /\ (tool'[q].pc \in {"addKey", "write"} => Holding(r)' = {})
    <2>1. tool'[q] = tool[q] /\ Adding(q, r)
      BY <1>6 DEF OthersStay, Adding
    <2>2. ~KeyDeleted /\ ~Completes(p, r)
      BY <1>1, <1>4, <1>6, <2>1
    <2>3. Onward /\ \A e : e \in Holding(r)' <=> e \in Holding(r)
      BY <2>2, GrowingStep
    <2>4. Scanning(q, r)'
      BY <1>2, <1>3, <2>1, <2>3, ScanGoesOn
    <2> QED
      BY <1>2, <2>1, <2>3, <2>4
  <1>7. ASSUME Adding(p, r)'
        PROVE  Scanning(p, r)' /\ (tool'[p].pc \in {"addKey", "write"} => Holding(r)' = {})
    <2>1. tool'[p].pc \in {"find", "compare", "addKey", "write"} /\ tool'[p].call.rule = r
          /\ tool'[p].call.op = "add"
      BY <1>7 DEF Adding
    <2>2. Begins(p) \/ Looks(p) \/ NotThere(p) \/ Passes(p) \/ (\E k \in KeyNames : Creates(p, k)) \/ Writes(p)
      BY <2>1 DEF Transition, Finds, Lists, Listed, Misses, DeletedAll, Succeeds, Fails, Exits,
             Opens, Deletes, DeletesOne, Stays
    <2>3. CASE Begins(p)
      <3>1. tool[p].pc = "idle" /\ tool'[p].pc \in {"find", "list"}
        BY <2>3 DEF Begins
      <3>2. Scanning(p, r)
        BY <3>1 DEF Scanning
      <3>3. Scanning(p, r)'
        BY <2>1, <3>1, <3>2, ScanStep
      <3> QED
        BY <3>1, <3>3
    <2>4. ASSUME ~Begins(p) PROVE Adding(p, r)
      <3>1. tool'[p].call = tool[p].call /\ tool[p].pc \in {"find", "compare", "addKey", "write"}
        BY <2>2, <2>4 DEF Looks, NotThere, Passes, Creates, Writes, Stays
      <3> QED
        BY <1>7, <3>1 DEF Adding
    <2>5. CASE Looks(p) \/ Passes(p)
      <3>1. ~Begins(p)
        BY <2>5 DEF Begins, Looks, Passes, Stays
      <3>2. /\ Scanning(p, r) /\ tool'[p].pc \in {"find", "compare"}
            /\ tool[p].call.rule = r /\ ~Misreads(p)
        BY <1>1, <1>2, <2>4, <2>5, <3>1 DEF Looks, Passes, Stays, Adding
      <3>3. Scanning(p, r)'
        BY <3>2, ScanStep
      <3> QED
        BY <3>2, <3>3
    <2>6. CASE NotThere(p)
      <3>1. ~Begins(p)
        BY <2>6 DEF Begins, NotThere, Stays
      <3>2. Scanning(p, r) /\ ~Misreads(p)
        BY <1>1, <1>2, <2>4, <3>1
      <3>3. Holding(r)' = {}
        BY <2>6, <3>2, ScanOver
      <3>4. tool'[p].pc \notin {"find", "compare"}
        BY <2>6 DEF NotThere, Stays
      <3> QED
        BY <3>3, <3>4 DEF Scanning
    <2>7. CASE (\E k \in KeyNames : Creates(p, k)) \/ Writes(p)
      <3>1. ~Begins(p) /\ tool[p].pc \in {"addKey", "write"} /\ tool'[p].pc = "write"
        BY <2>1, <2>7 DEF Begins, Creates, Writes, Stays
      <3>2. Holding(r) = {} /\ ~KeyDeleted
        BY <1>1, <1>2, <2>4, <3>1
      <3>3. ~Completes(p, r)
        <4> SUFFICES ASSUME Completes(p, r) PROVE FALSE
          OBVIOUS
        <4>1. Writes(p) /\ NowHolds(p) = r /\ tool[p].value # Values /\ tool[p].pc = "write"
          BY <3>1 DEF Completes, Writes, Stays
        <4>2. NowWritten(p) = 1 .. Values
          BY <4>1, HideRulesAssumption DEF NowHolds
        <4>3. tool[p].value \in 1 .. Values /\ Values \in Nat \ {0} /\ tool[p].key \in KeyNames
          BY <1>3, <4>1, WritesTyped, RuleToolsAssumption
        <4>4. Values \notin written[tool[p].key]
          BY <4>1, <4>3, <1>3 DEF RegistryInv, WrittenInOrder
        <4> QED
          BY <4>1, <4>2, <4>3, <4>4 DEF NowWritten
      <3>4. \A e : e \notin Holding(r)'
        BY <3>2, <3>3, GrowingStep
      <3> QED
        BY <3>1, <3>4 DEF Scanning
    <2> QED
      BY <2>2, <2>3, <2>5, <2>6, <2>7
  <1> QED
    BY <1>5, <1>6, <1>7

\* No two keys hold the same rule at the start.
LEMMA DuplicatesInit == CallsInit => DuplicatesInv
  <1> SUFFICES ASSUME CallsInit PROVE DuplicatesInv
    OBVIOUS
  <1>1. TypeOK /\ \A i, j \in 1 .. Len(keys) : content[keys[i]] = content[keys[j]] => i = j
    BY ToolsInitTyped DEF CallsInit, ToolsInit
  <1>2. \A r : \A a, b \in Holding(r) : a = b
    BY <1>1, InToSet DEF Holding, TypeOK
  <1>3. \A p \in Tools : tool[p].pc = "idle"
    BY DEF CallsInit, ToolsInit, IdleTool, NewTool
  <1> QED
    BY <1>2, <1>3 DEF DuplicatesInv, Adding

\* A step that leaves calls and registry alone.
LEMMA DuplicatesQuiet ==
    ASSUME DuplicatesInv, UNCHANGED <<keys, content, tool>>, contested \subseteq contested'
    PROVE  DuplicatesInv'
  <1>1. \A r : Holding(r)' = Holding(r)
    BY DEF Holding
  <1>2. \A q, r : (Adding(q, r)' <=> Adding(q, r)) /\ (Scanning(q, r)' <=> Scanning(q, r))
    BY DEF Adding, Scanning
  <1> QED
    BY <1>1, <1>2 DEF DuplicatesInv

\* Every step preserves it.
LEMMA DuplicatesNext == Core /\ Core' /\ DuplicatesInv /\ [ToolsNext /\ RecordCalls]_allVars => DuplicatesInv'
  <1> SUFFICES ASSUME Core, Core', DuplicatesInv, [ToolsNext /\ RecordCalls]_allVars PROVE DuplicatesInv'
    OBVIOUS
  <1>1. CASE (\E p \in Tools : ToolStep(p)) /\ RecordCalls
    BY <1>1, ToolTransition, DuplicatesStep DEF Core
  <1>2. CASE (\E t \in Reloaders : ReloadStep(t)) /\ UNCHANGED toolVars /\ RecordCalls
    BY <1>2, ReloadQuiet, DuplicatesQuiet DEF Core, toolVars, RecordCalls
  <1>3. CASE UNCHANGED allVars
    BY <1>3, DuplicatesQuiet DEF allVars, vars, toolVars, callHistory
  <1> QED
    BY <1>1, <1>2, <1>3 DEF ToolsNext

\* It holds in every state.
LEMMA DuplicatesInvariant == ToolsSpec => []DuplicatesInv
  BY DuplicatesInit, DuplicatesNext, CoreInvariant, PTL DEF ToolsSpec

\* A rule is in the registry twice only if two calls added it at a time, or a
\* key was deleted while one of them did, or one misread what was there.
THEOREM DuplicatesAreContested == ToolsSpec => []NoDuplicates
  <1>1. DuplicatesInv => NoDuplicates
    <2> SUFFICES ASSUME DuplicatesInv, NEW r \in Rules \ contested PROVE Cardinality(Holding(r)) <= 1
      BY DEF NoDuplicates
    <2>1. \A a, b \in Holding(r) : a = b
      BY DEF DuplicatesInv
    <2>2. CASE Holding(r) = {}
      <3>1. Cardinality(Holding(r)) = 0
        BY <2>2, FS_EmptySet
      <3> QED
        BY <3>1
    <2>3. CASE Holding(r) # {}
      <3>1. PICK k : Holding(r) = {k}
        BY <2>1, <2>3
      <3>2. Cardinality(Holding(r)) = 1
        BY <3>1, FS_Singleton
      <3> QED
        BY <3>2
    <2> QED
      BY <2>2, <2>3
  <1> QED
    BY <1>1, DuplicatesInvariant, PTL

-----------------------------------------------------------------------------
(* Successful deletions.                                                   *)

\* The call has succeeded, or will if the reload does.
Done(p) ==
    \/ tool[p].pc \in {"open", "reloading"}
    \/ tool[p].pc = "returned" /\ tool[p].result = "InstallSuccess"

\* A call that deletes a rule, and is not disturbed, finds it or sees that it
\* is in no key; none is left when the call is done.
DeletingInv ==
    \A p \in Tools : \A r \in Rules \ contested :
        calm[p] /\ tool[p].call.op = "delete" /\ tool[p].call.rule = r =>
            /\ Scanning(p, r)
            /\ tool[p].pc = "deleteKey" => tool[p].key \in Holding(r)
            /\ Done(p) => Holding(r) = {}

\* What a call that is not disturbed sees of another's step.
LEMMA CalmBefore ==
    ASSUME ToolsTyped, RecordCalls, NEW q \in Tools, calm'[q], tool'[q].pc \notin {"idle", "exited"}
    PROVE  calm[q] /\ ~Disturbs(q)
  BY DEF RecordCalls

\* The keys a deletion has passed do not hold its rule, and the keys that
\* come are contested or end its calm.
LEMMA DeletingStep ==
    ASSUME Core, Core', DuplicatesInv, DeletingInv, NEW p \in Tools, OthersStay(p), Transition(p), RecordCalls
    PROVE  DeletingInv'
  <1> SUFFICES ASSUME NEW q \in Tools, NEW r \in Rules, r \notin contested',
                      calm'[q], tool'[q].call.op = "delete", tool'[q].call.rule = r
               PROVE  /\ Scanning(q, r)'
                      /\ tool'[q].pc = "deleteKey" => tool'[q].key \in Holding(r)'
                      /\ Done(q)' => Holding(r)' = {}
    BY DEF DeletingInv
  <1>1. TypeOK /\ TypeOK' /\ ToolsTyped /\ ToolsTyped' /\ RegistryInv /\ r \notin contested
    BY DEF Core, RecordCalls
  <1>2. CASE tool'[q].pc \in {"idle", "exited"}
    BY <1>2 DEF Scanning, Done
  <1>3. CASE tool'[q].pc \notin {"idle", "exited"}
    <2>1. calm[q] /\ ~Disturbs(q)
      BY <1>1, <1>3, CalmBefore
    <2>2. CASE q # p
      <3>1. tool'[q] = tool[q]
        BY <2>2 DEF OthersStay
      <3>2. ~KeyDeleted /\ Holding(r)' = Holding(r)
        BY <1>3, <2>1, <3>1 DEF Disturbs
      <3>3. /\ Scanning(q, r)
            /\ tool[q].pc = "deleteKey" => tool[q].key \in Holding(r)
            /\ Done(q) => Holding(r) = {}
        BY <1>1, <2>1, <3>1 DEF DeletingInv
      <3>4. Scanning(q, r)'
        BY <1>1, <3>1, <3>2, <3>3, GrowingStep, ScanGoesOn
      <3> QED
        BY <3>1, <3>2, <3>3, <3>4 DEF Done
    <2>3. CASE q = p
      <3>1. Begins(p) \/ Looks(p) \/ NotThere(p) \/ Finds(p) \/ Passes(p) \/ Deletes(p) \/ Opens(p)
            \/ Succeeds(p) \/ Fails(p)
        <4>1. tool[p].pc \notin {"addKey", "write", "list", "deleteEach"} \/ tool[p].call.op # "delete"
          BY <1>1 DEF ToolsTyped, ToolFits
        <4> QED
          BY <1>3, <2>3, <4>1 DEF Transition, Exits, Creates, Writes, Lists, Listed, Misses, DeletedAll,
                 DeletesOne, Stays
      <3>2. CASE Begins(p)
        <4>1. tool[p].pc = "idle" /\ tool'[p].pc \in {"find", "list"}
          BY <3>2 DEF Begins
        <4>2. Scanning(p, r)
          BY <4>1 DEF Scanning
        <4>3. tool'[p].pc = "find" => Scanning(p, r)'
          BY <4>1, <4>2, ScanStep
        <4> QED
          BY <2>3, <4>1, <4>3 DEF Scanning, Done
      <3>3. CASE Fails(p)
        BY <2>3, <3>3 DEF Fails, Scanning, Done
      <3>4. ASSUME ~Begins(p), ~Fails(p)
            PROVE  /\ tool[p].call = tool'[p].call /\ ~Misreads(p)
                   /\ Scanning(p, r)
                   /\ tool[p].pc = "deleteKey" => tool[p].key \in Holding(r)
                   /\ Done(p) => Holding(r) = {}
        <4>1. tool[p].call = tool'[p].call
          BY <3>1, <3>4 DEF Looks, NotThere, Finds, Passes, Deletes, Opens, Succeeds, Stays
        <4>2. ~Misreads(p)
          BY <2>1, <2>3, <4>1 DEF Disturbs
        <4> QED
          BY <1>1, <2>1, <2>3, <4>1, <4>2 DEF DeletingInv
      <3>5. CASE Looks(p) \/ Passes(p)
        <4>1. tool'[p].pc \in {"find", "compare"} /\ ~Begins(p) /\ ~Fails(p)
          BY <3>5 DEF Looks, Passes, Begins, Fails, Stays
        <4>2. Scanning(p, r)'
          BY <2>3, <3>4, <4>1, ScanStep
        <4> QED
          BY <2>3, <4>1, <4>2 DEF Done
      <3>6. CASE NotThere(p)
        <4>1. tool'[p].pc \in {"addKey", "open"} /\ ~Begins(p) /\ ~Fails(p)
          BY <3>6 DEF NotThere, Begins, Fails, Stays
        <4>2. Holding(r)' = {}
          BY <3>4, <3>6, <4>1, ScanOver
        <4> QED
          BY <2>3, <4>1, <4>2 DEF Scanning
      <3>7. CASE Finds(p)
        <4>1. tool'[p].pc = "deleteKey" /\ tool[p].pc = "compare" /\ ~Begins(p) /\ ~Fails(p)
              /\ tool'[p].key = tool[p].key /\ content[tool[p].key] = tool[p].call.rule
              /\ keys' = keys /\ content' = content
          BY <3>7 DEF Finds, Begins, Fails, Stays, Quiet, RegistryFrame
        <4>2. content[tool[p].key] = r /\ tool[p].key \in KeyNames
          BY <1>1, <2>3, <3>4, <4>1 DEF ToolsTyped, ToolFits
        <4>3. tool[p].key \in ToSet(keys)
          BY <1>1, <4>2, HideRulesAssumption DEF RegistryInv, CompleteKeys
        <4> QED
          BY <2>3, <4>1, <4>2, <4>3 DEF Scanning, Done, Holding
      <3>8. CASE Deletes(p)
        <4>1. tool'[p].pc = "open" /\ tool[p].pc = "deleteKey" /\ ~Begins(p) /\ ~Fails(p)
          BY <3>8 DEF Deletes, Begins, Fails, Stays
        <4>2. RemoveKey(Removed(p)) /\ Removed(p) = tool[p].key
          BY <3>8, <4>1 DEF Deletes, Removed
        <4>3. KeyDeleted
          BY <1>1, <4>2, RemoveKeyEffect DEF RegistryInv
        <4>4. \A e : e \in Holding(r)' <=> e \in Holding(r) /\ e # tool[p].key
          BY <4>2, <4>3, ShrinkingStep
        <4>5. tool[p].key \in Holding(r) /\ \A a, b \in Holding(r) : a = b
          BY <1>1, <3>4, <4>1 DEF DuplicatesInv
        <4>6. Holding(r)' = {}
          BY <4>4, <4>5
        <4> QED
          BY <2>3, <4>1, <4>6 DEF Scanning
      <3>9. CASE Opens(p) \/ Succeeds(p)
        <4>1. tool'[p].pc \in {"reloading", "returned"} /\ Done(p) /\ ~Begins(p)
          BY <3>9 DEF Opens, Succeeds, Begins, Done, Stays
        <4>2. keys' = keys /\ content' = content
          BY <3>9 DEF Opens, UpdateRegistryParameters, ReloadFrame, Succeeds, Quiet, RegistryFrame
        <4>3. CASE ~Fails(p)
          <5>1. Holding(r)' = {}
            BY <3>4, <4>1, <4>2, <4>3 DEF Holding
          <5> QED
            BY <2>3, <4>1, <5>1 DEF Scanning
        <4> QED
          BY <3>3, <4>3
      <3> QED
        BY <3>1, <3>2, <3>3, <3>5, <3>6, <3>7, <3>8, <3>9
    <2> QED
      BY <2>2, <2>3
  <1> QED
    BY <1>2, <1>3

\* There is no call at the start.
LEMMA DeletingInit == CallsInit => DeletingInv
  BY DEF CallsInit, ToolsInit, IdleTool, NewTool, DeletingInv

\* A step that leaves calls and registry alone disturbs no call.
LEMMA QuietHistory ==
    ASSUME ToolsTyped, RecordCalls, UNCHANGED <<keys, content, tool>>
    PROVE  /\ contested \subseteq contested'
           /\ \A q \in Tools : tool[q].pc \notin {"idle", "exited"} => (calm'[q] => calm[q])
  BY DEF RecordCalls

\* A step that changes no key and no call only makes more rules contested.
LEMMA DeletingQuiet ==
    ASSUME DeletingInv, UNCHANGED <<keys, content, tool>>, contested \subseteq contested',
           \A q \in Tools : tool[q].pc \notin {"idle", "exited"} => (calm'[q] => calm[q])
    PROVE  DeletingInv'
  <1>1. \A r : Holding(r)' = Holding(r)
    BY DEF Holding
  <1>2. \A q, r : (Done(q)' <=> Done(q)) /\ (Scanning(q, r)' <=> Scanning(q, r))
    BY DEF Done, Scanning
  <1> SUFFICES ASSUME NEW q \in Tools, NEW r \in Rules, r \notin contested',
                      calm'[q], tool[q].call.op = "delete", tool[q].call.rule = r
               PROVE  /\ Scanning(q, r)
                      /\ tool[q].pc = "deleteKey" => tool[q].key \in Holding(r)
                      /\ Done(q) => Holding(r) = {}
    BY <1>1, <1>2 DEF DeletingInv
  <1>3. CASE tool[q].pc \in {"idle", "exited"}
    BY <1>3 DEF Scanning, Done
  <1>4. CASE tool[q].pc \notin {"idle", "exited"}
    BY <1>4 DEF DeletingInv
  <1> QED
    BY <1>3, <1>4

\* Every step preserves it.
LEMMA DeletingNext ==
    Core /\ Core' /\ DuplicatesInv /\ DeletingInv /\ [ToolsNext /\ RecordCalls]_allVars => DeletingInv'
  <1> SUFFICES ASSUME Core, Core', DuplicatesInv, DeletingInv, [ToolsNext /\ RecordCalls]_allVars
               PROVE  DeletingInv'
    OBVIOUS
  <1>1. CASE (\E p \in Tools : ToolStep(p)) /\ RecordCalls
    BY <1>1, ToolTransition, DeletingStep DEF Core
  <1>2. CASE (\E t \in Reloaders : ReloadStep(t)) /\ UNCHANGED toolVars /\ RecordCalls
    <2>1. UNCHANGED <<keys, content, tool>>
      BY <1>2, ReloadQuiet DEF Core, toolVars
    <2> QED
      BY <1>2, <2>1, QuietHistory, DeletingQuiet DEF Core
  <1>3. CASE UNCHANGED allVars
    <2>1. UNCHANGED <<keys, content, tool, contested, calm>>
      BY <1>3 DEF allVars, vars, toolVars, callHistory
    <2> QED
      BY <2>1, DeletingQuiet
  <1> QED
    BY <1>1, <1>2, <1>3 DEF ToolsNext

\* It holds in every state.
LEMMA DeletingInvariant == ToolsSpec => []DeletingInv
  BY DeletingInit, DeletingNext, DuplicatesInvariant, CoreInvariant, PTL DEF ToolsSpec

\* What a call that deletes all rules has met, or listed, covers the keys.
ClearingInv ==
    \A p \in Tools : calm[p] /\ tool[p].call.op = "deleteAll" =>
        /\ tool[p].pc = "list" =>
              \A i \in 1 .. Len(keys) : i < tool[p].index => keys[i] \in ToSet(tool[p].names)
        /\ tool[p].pc = "deleteEach" /\ ~tool[p].notDeleted => ToSet(keys) \subseteq ToSet(tool[p].names)
        /\ tool[p].pc \in {"open", "reloading"} /\ ~tool[p].notDeleted => keys = <<>>
        /\ tool[p].pc = "returned" /\ tool[p].result = "InstallSuccess" => keys = <<>>

\* The keys that are there are in the names, or still to be listed.
LEMMA ClearingStep ==
    ASSUME Core, Core', ClearingInv, NEW p \in Tools, OthersStay(p), Transition(p), RecordCalls
    PROVE  ClearingInv'
  <1> SUFFICES ASSUME NEW q \in Tools, calm'[q], tool'[q].call.op = "deleteAll"
               PROVE  /\ tool'[q].pc = "list" =>
                            \A i \in 1 .. Len(keys') : i < tool'[q].index => keys'[i] \in ToSet(tool'[q].names)
                      /\ tool'[q].pc = "deleteEach" /\ ~tool'[q].notDeleted =>
                            ToSet(keys') \subseteq ToSet(tool'[q].names)
                      /\ tool'[q].pc \in {"open", "reloading"} /\ ~tool'[q].notDeleted => keys' = <<>>
                      /\ tool'[q].pc = "returned" /\ tool'[q].result = "InstallSuccess" => keys' = <<>>
    BY DEF ClearingInv
  <1>1. /\ TypeOK /\ TypeOK' /\ ToolsTyped /\ ToolsTyped' /\ RegistryInv
        /\ keys \in Seq(KeyNames) /\ Len(keys) \in Nat
    BY LenProperties DEF Core, TypeOK
  <1>2. CASE tool'[q].pc \in {"idle", "exited"}
    BY <1>2
  <1>3. CASE tool'[q].pc \notin {"idle", "exited"}
    <2>1. calm[q] /\ ~Disturbs(q)
      BY <1>1, <1>3, CalmBefore
    <2>2. CASE q # p
      <3>1. tool'[q] = tool[q]
        BY <2>2 DEF OthersStay
      <3>2. ~KeyDeleted /\ ~(Len(keys') > Len(keys))
        BY <1>3, <2>1, <3>1 DEF Disturbs
      <3>3. keys' = keys
        <4>1. CASE \E k \in KeyNames : Creates(p, k)
          <5>1. PICK k \in KeyNames : Creates(p, k)
            BY <4>1
          <5>2. Len(keys') = Len(keys) + 1
            BY <1>1, <5>1, InsertEffect DEF Creates, NewName, RegistryInv
          <5> QED
            BY <1>1, <3>2, <5>2
        <4>2. CASE Writes(p)
          <5>1. CASE tool[p].key \notin ToSet(keys) /\ Insert(tool[p].key)
            <6>1. tool[p].key \in KeyNames
              BY <1>1, <4>2, WritesTyped
            <6>2. Len(keys') = Len(keys) + 1
              BY <1>1, <5>1, <6>1, InsertEffect DEF RegistryInv
            <6> QED
              BY <1>1, <3>2, <6>2
          <5> QED
            BY <4>2, <5>1 DEF Writes
        <4>3. CASE RemoveKey(Removed(p))
          BY <1>1, <3>2, <4>3, RemoveKeyEffect DEF RegistryInv
        <4> QED
          BY <4>1, <4>2, <4>3, RegistryCases DEF Untouched
      <3> QED
        BY <2>1, <3>1, <3>3 DEF ClearingInv
    <2>3. CASE q = p
      <3> DEFINE t == tool[p]
                 t1 == tool'[p]
      <3>1. \/ Begins(p) \/ Lists(p) \/ Listed(p) \/ DeletesOne(p) \/ Misses(p) \/ DeletedAll(p)
            \/ Opens(p) \/ Succeeds(p) \/ Fails(p)
        <4>1. t.pc \notin {"find", "compare", "addKey", "write", "deleteKey"} \/ t.call.op # "deleteAll"
          BY <1>1 DEF ToolsTyped, ToolFits
        <4> QED
          BY <1>3, <2>3, <4>1 DEF Transition, Exits, Looks, NotThere, Finds, Passes, Creates, Writes,
                 Deletes, Stays
      <3>2. CASE Begins(p)
        BY <1>1, <2>3, <3>2 DEF Begins
      <3>3. CASE Fails(p)
        BY <2>3, <3>3 DEF Fails
      <3>4. ASSUME ~Begins(p), ~Fails(p) PROVE t.call.op = "deleteAll" /\ calm[p] /\ ~Misreads(p)
        <4>1. t.call.op = "deleteAll"
          BY <2>3, <3>1, <3>4 DEF Lists, Listed, DeletesOne, Misses, DeletedAll, Opens, Succeeds, Stays
        <4> QED
          BY <2>1, <2>3, <4>1 DEF Disturbs
      <3>5. t.names \in Seq(KeyNames) /\ t.index \in Nat \ {0}
        BY <1>1 DEF ToolsTyped, ToolType
      <3>6. CASE Lists(p)
        <4>1. /\ t1.pc = "list" /\ t.pc = "list" /\ ~Begins(p) /\ ~Fails(p) /\ keys' = keys
              /\ t.index <= Len(keys) /\ t1.index = t.index + 1
              /\ t1.names = Append(t.names, keys[t.index])
          BY <3>6 DEF Lists, Begins, Fails, Stays, Quiet, RegistryFrame
        <4>2. \A i \in 1 .. Len(keys) : i < t.index => keys[i] \in ToSet(t.names)
          BY <3>4, <4>1 DEF ClearingInv
        <4>3. keys[t.index] \in KeyNames
          BY <1>1, <3>5, <4>1, ElementOfSeq
        <4> DEFINE k == keys[t.index]
                   l == Append(t.names, k)
        <4>4. /\ l \in Seq(KeyNames) /\ Len(l) = Len(t.names) + 1 /\ Len(t.names) \in Nat
              /\ \A i \in 1 .. Len(t.names) : l[i] = t.names[i]
              /\ l[Len(t.names) + 1] = k
          BY <3>5, <4>3, AppendProperties, LenProperties
        <4> HIDE DEF l, k
        <4>5. \A e : e \in ToSet(t.names) \/ e = k => e \in ToSet(l)
          BY <3>5, <4>4, InToSet
        <4>6. \A i \in 1 .. Len(keys) : i < t1.index => keys[i] \in ToSet(l)
          BY <1>1, <3>5, <4>1, <4>2, <4>5 DEF k
        <4>7. t1.names = l
          BY <4>1 DEF l, k
        <4> QED
          BY <2>3, <4>1, <4>6, <4>7
      <3>7. CASE Listed(p)
        <4>1. /\ t1.pc = "deleteEach" /\ t.pc = "list" /\ ~Begins(p) /\ ~Fails(p) /\ keys' = keys
              /\ (t.index > Len(keys) \/ Misreads(p)) /\ t1.names = t.names
          BY <3>7 DEF Listed, Begins, Fails, Stays, Quiet, RegistryFrame
        <4>2. \A i \in 1 .. Len(keys) : i < t.index => keys[i] \in ToSet(t.names)
          BY <3>4, <4>1 DEF ClearingInv
        <4>3. \A i \in 1 .. Len(keys) : keys[i] \in ToSet(t.names)
          BY <1>1, <3>4, <3>5, <4>1, <4>2
        <4>4. ToSet(keys) \subseteq ToSet(t.names)
          BY <1>1, <4>3, InToSet
        <4> QED
          BY <2>3, <4>1, <4>4
      <3>8. CASE DeletesOne(p)
        <4>1. /\ t1.pc = "deleteEach" /\ t.pc = "deleteEach" /\ ~Begins(p) /\ ~Fails(p)
              /\ RemoveKey(Head(t.names)) /\ t.names # <<>> /\ t1.names = Tail(t.names)
          BY <3>8 DEF DeletesOne, Begins, Fails, Stays
        <4>2. t1.notDeleted = t.notDeleted
          BY <3>8 DEF DeletesOne
        <4>3. ~t.notDeleted => ToSet(keys) \subseteq ToSet(t.names)
          BY <3>4, <4>1 DEF ClearingInv
        <4> DEFINE k == Head(t.names)
                   l == Tail(t.names)
        <4>4. \A e : e \in ToSet(keys') <=> e \in ToSet(keys) /\ e # k
          BY <1>1, <4>1, RemoveKeyEffect DEF RegistryInv
        <4>5. \A e \in ToSet(t.names) : e # k => e \in ToSet(l)
          <5>1. /\ l \in Seq(KeyNames) /\ Len(l) = Len(t.names) - 1 /\ Len(t.names) \in Nat
                /\ \A i \in 1 .. Len(l) : l[i] = t.names[i + 1]
            BY <3>5, <4>1, HeadTailProperties, LenProperties
          <5>2. k = t.names[1]
            BY <3>5
          <5> HIDE DEF l, k
          <5> SUFFICES ASSUME NEW i \in 1 .. Len(t.names), t.names[i] # k PROVE t.names[i] \in ToSet(l)
            BY <3>5, InToSet
          <5>3. i - 1 \in 1 .. Len(l) /\ (i - 1) + 1 = i
            BY <5>1, <5>2
          <5>4. l[i - 1] = t.names[i]
            BY <5>1, <5>3
          <5> QED
            BY <5>1, <5>3, <5>4, InToSet
        <4> HIDE DEF k, l
        <4>6. ~t.notDeleted => ToSet(keys') \subseteq ToSet(l)
          BY <4>3, <4>4, <4>5
        <4>7. t1.names = l
          BY <4>1 DEF l
        <4> QED
          BY <2>3, <4>1, <4>2, <4>6, <4>7
      <3>9. CASE Misses(p)
        BY <2>3, <3>9 DEF Misses, Stays
      <3>10. CASE DeletedAll(p)
        <4>1. /\ t1.pc = "open" /\ t.pc = "deleteEach" /\ ~Begins(p) /\ ~Fails(p) /\ keys' = keys
              /\ t.names = <<>>
          BY <3>10 DEF DeletedAll, Begins, Fails, Stays, Quiet, RegistryFrame
        <4>2. t1.notDeleted = t.notDeleted
          BY <3>10 DEF DeletedAll
        <4>3. ~t.notDeleted => ToSet(keys) \subseteq ToSet(t.names)
          BY <3>4, <4>1 DEF ClearingInv
        <4>4. ASSUME ~t.notDeleted PROVE keys = <<>>
          <5>1. ToSet(<<>>) = {}
            BY DEF ToSet
          <5>2. \A i \in 1 .. Len(keys) : FALSE
            BY <1>1, <4>1, <4>3, <4>4, <5>1, InToSet
          <5>3. Len(keys) = 0
            BY <1>1, <5>2
          <5> QED
            BY <1>1, <5>3, EmptySeq
        <4> QED
          BY <2>3, <4>1, <4>2, <4>4
      <3>11. CASE Opens(p)
        <4>1. t1.pc = "reloading" /\ t.pc = "open" /\ ~Begins(p) /\ ~Fails(p) /\ keys' = keys
          BY <3>11 DEF Opens, Begins, Fails, Stays, UpdateRegistryParameters, ReloadFrame
        <4>2. t1.notDeleted = t.notDeleted
          BY <3>11 DEF Opens
        <4> QED
          BY <2>3, <3>4, <4>1, <4>2 DEF ClearingInv
      <3>12. CASE Succeeds(p) /\ ~Fails(p)
        <4>1. t1.pc = "returned" /\ t.pc = "reloading" /\ ~Begins(p) /\ keys' = keys /\ ~t.notDeleted
          BY <3>12 DEF Succeeds, Begins, Stays, Quiet, RegistryFrame
        <4> QED
          BY <2>3, <3>4, <3>12, <4>1 DEF ClearingInv
      <3> QED
        BY <3>1, <3>2, <3>3, <3>6, <3>7, <3>8, <3>9, <3>10, <3>11, <3>12
    <2> QED
      BY <2>2, <2>3
  <1> QED
    BY <1>2, <1>3

\* There is no call at the start.
LEMMA ClearingInit == CallsInit => ClearingInv
  BY DEF CallsInit, ToolsInit, IdleTool, NewTool, ClearingInv

\* A step that changes no key and no call preserves it.
LEMMA ClearingQuiet ==
    ASSUME ClearingInv, UNCHANGED <<keys, tool>>,
           \A q \in Tools : tool[q].pc \notin {"idle", "exited"} => (calm'[q] => calm[q])
    PROVE  ClearingInv'
  <1> SUFFICES ASSUME NEW q \in Tools, calm'[q], tool[q].call.op = "deleteAll"
               PROVE  /\ tool[q].pc = "list" =>
                            \A i \in 1 .. Len(keys) : i < tool[q].index => keys[i] \in ToSet(tool[q].names)
                      /\ tool[q].pc = "deleteEach" /\ ~tool[q].notDeleted =>
                            ToSet(keys) \subseteq ToSet(tool[q].names)
                      /\ tool[q].pc \in {"open", "reloading"} /\ ~tool[q].notDeleted => keys = <<>>
                      /\ tool[q].pc = "returned" /\ tool[q].result = "InstallSuccess" => keys = <<>>
    BY DEF ClearingInv
  <1>1. CASE tool[q].pc \in {"idle", "exited"}
    BY <1>1
  <1>2. CASE tool[q].pc \notin {"idle", "exited"}
    BY <1>2 DEF ClearingInv
  <1> QED
    BY <1>1, <1>2

\* Every step preserves it.
LEMMA ClearingNext == Core /\ Core' /\ ClearingInv /\ [ToolsNext /\ RecordCalls]_allVars => ClearingInv'
  <1> SUFFICES ASSUME Core, Core', ClearingInv, [ToolsNext /\ RecordCalls]_allVars PROVE ClearingInv'
    OBVIOUS
  <1>1. CASE (\E p \in Tools : ToolStep(p)) /\ RecordCalls
    BY <1>1, ToolTransition, ClearingStep DEF Core
  <1>2. CASE (\E t \in Reloaders : ReloadStep(t)) /\ UNCHANGED toolVars /\ RecordCalls
    <2>1. UNCHANGED <<keys, content, tool>>
      BY <1>2, ReloadQuiet DEF Core, toolVars
    <2> QED
      BY <1>2, <2>1, QuietHistory, ClearingQuiet DEF Core
  <1>3. CASE UNCHANGED allVars
    <2>1. UNCHANGED <<keys, tool, calm>>
      BY <1>3 DEF allVars, vars, toolVars, callHistory
    <2> QED
      BY <2>1, ClearingQuiet
  <1> QED
    BY <1>1, <1>2, <1>3 DEF ToolsNext

\* It holds in every state.
LEMMA ClearingInvariant == ToolsSpec => []ClearingInv
  BY ClearingInit, ClearingNext, CoreInvariant, PTL DEF ToolsSpec

\* A deletion that reports success, was not disturbed and did not misread the
\* registry has left no key with the rule, unless it was contested, or no key.
THEOREM DeletionsDelete == ToolsSpec => []DeletedIsGone
  <1>1. Core /\ DeletingInv /\ ClearingInv => DeletedIsGone
    <2> SUFFICES ASSUME Core, DeletingInv, ClearingInv, NEW p \in Tools
                 PROVE  /\ Succeeded(p, "delete") =>
                              tool[p].call.rule \in contested \/ Holding(tool[p].call.rule) = {}
                        /\ Succeeded(p, "deleteAll") => keys = <<>>
      BY DEF DeletedIsGone
    <2>1. ASSUME Succeeded(p, "delete"), tool[p].call.rule \notin contested
          PROVE  Holding(tool[p].call.rule) = {}
      <3>1. tool[p].call \in Calls
        BY <2>1 DEF Succeeded, Core, ToolsTyped, ToolFits
      <3>2. tool[p].call.rule \in Rules
        BY <2>1, <3>1, CallFacts DEF Succeeded
      <3> QED
        BY <2>1, <3>2 DEF Succeeded, DeletingInv, Done
    <2>2. Succeeded(p, "deleteAll") => keys = <<>>
      BY DEF Succeeded, ClearingInv
    <2> QED
      BY <2>1, <2>2
  <1> QED
    BY <1>1, CoreInvariant, DeletingInvariant, ClearingInvariant, PTL

-----------------------------------------------------------------------------
(* Successful additions.                                                   *)

\* A call that adds a rule, and is not disturbed, writes the values of its key
\* one after another. When it is done the rule is complete, and once the driver
\* has begun to reload it stays so.
AddingInv ==
    \A p \in Tools : \A r \in Rules : calm[p] /\ tool[p].call.op = "add" /\ tool[p].call.rule = r =>
        /\ tool[p].pc = "write" =>
              tool[p].key \in ToSet(keys) /\ written[tool[p].key] = 1 .. tool[p].value - 1
        /\ Done(p) => r \in Complete
        /\ Done(p) /\ tool[p].pc # "open" => r \in kept

\* Unless a key is deleted, no rule is lost.
LEMMA CompleteGrows ==
    ASSUME Core, NEW p \in Tools, Transition(p), ~KeyDeleted
    PROVE  Complete \subseteq Complete'
  <1>1. /\ \A e : e \in ToSet(keys) => e \in ToSet(keys')
        /\ \A e \in KeyNames : content[e] # Partial => content'[e] = content[e]
    BY GrowingStep
  <1>2. \A e : e \in ToSet(keys) => e \in KeyNames
    BY InToSet, ElementOfSeq DEF Core, TypeOK
  <1> QED
    BY <1>1, <1>2 DEF Complete

\* Nor does another call change the values of a key in the making.
LEMMA WrittenStays ==
    ASSUME Core, NEW p \in Tools, Transition(p), ~KeyDeleted,
           NEW q \in Tools, q # p, tool[q].pc = "write"
    PROVE  written'[tool[q].key] = written[tool[q].key]
  <1>1. TypeOK /\ ToolsTyped /\ KeysDiffer /\ tool[q].key \in KeyNames
    BY DEF Core, RegistryInv, ToolsTyped, ToolFits
  <1>2. CASE Untouched \/ \E k \in KeyNames : Creates(p, k)
    BY <1>2 DEF Untouched, Creates
  <1>3. CASE Writes(p)
    <2>1. tool[p].key # tool[q].key
      BY <1>3 DEF Writes, Stays, Core, RegistryInv, WritersDiffer
    <2>2. \A e \in KeyNames : written'[e] = IF e = tool[p].key THEN NowWritten(p) ELSE written[e]
      BY <1>1, <1>3, WriteEffect
    <2> QED
      BY <1>1, <2>1, <2>2
  <1>4. CASE RemoveKey(Removed(p))
    BY <1>1, <1>4, RemoveKeyEffect
  <1> QED
    BY <1>2, <1>3, <1>4, RegistryCases

\* What the history keeps of a rule that is complete all the time.
LEMMA KeptStays ==
    ASSUME RecordCalls, ~KeyDeleted, NEW r, r \in Complete'
    PROVE  /\ r \in kept => r \in kept'
           /\ ReloadBegins => r \in kept'
  BY DEF RecordCalls

\* A call that adds keeps its key, writes it in order, and then has a
\* complete key that the reload it asks for meets.
LEMMA AddingStep ==
    ASSUME Core, Core', AddingInv, NEW p \in Tools, OthersStay(p), Transition(p), RecordCalls
    PROVE  AddingInv'
  <1> SUFFICES ASSUME NEW q \in Tools, NEW r \in Rules,
                      calm'[q], tool'[q].call.op = "add", tool'[q].call.rule = r
               PROVE  /\ tool'[q].pc = "write" =>
                            tool'[q].key \in ToSet(keys') /\ written'[tool'[q].key] = 1 .. tool'[q].value - 1
                      /\ Done(q)' => r \in Complete'
                      /\ Done(q)' /\ tool'[q].pc # "open" => r \in kept'
    BY DEF AddingInv
  <1>1. TypeOK /\ TypeOK' /\ ToolsTyped /\ ToolsTyped' /\ RegistryInv /\ KeysDiffer
    BY DEF Core, RegistryInv
  <1>2. CASE tool'[q].pc \in {"idle", "exited"}
    BY <1>2 DEF Done
  <1>3. CASE tool'[q].pc \notin {"idle", "exited"}
    <2>1. calm[q] /\ ~Disturbs(q)
      BY <1>1, <1>3, CalmBefore
    <2>2. CASE q # p
      <3>1. tool'[q] = tool[q]
        BY <2>2 DEF OthersStay
      <3>2. ~KeyDeleted
        BY <1>3, <2>1, <3>1 DEF Disturbs
      <3>3. /\ tool[q].pc = "write" =>
                  tool[q].key \in ToSet(keys) /\ written[tool[q].key] = 1 .. tool[q].value - 1
            /\ Done(q) => r \in Complete
            /\ Done(q) /\ tool[q].pc # "open" => r \in kept
        BY <2>1, <3>1 DEF AddingInv
      <3>4. Done(q)' <=> Done(q)
        BY <3>1 DEF Done
      <3>5. Done(q) => r \in Complete'
        BY <3>2, <3>3, CompleteGrows
      <3>6. Done(q) /\ tool[q].pc # "open" => r \in kept'
        BY <3>2, <3>3, <3>5, KeptStays
      <3>7. tool[q].pc = "write" =>
                  tool[q].key \in ToSet(keys') /\ written'[tool[q].key] = 1 .. tool[q].value - 1
        BY <2>2, <3>2, <3>3, WrittenStays, GrowingStep
      <3> QED
        BY <3>1, <3>4, <3>5, <3>6, <3>7
    <2>3. CASE q = p
      <3>1. \/ Begins(p) \/ Looks(p) \/ NotThere(p) \/ Passes(p) \/ (\E k \in KeyNames : Creates(p, k))
            \/ Writes(p) \/ Opens(p) \/ Succeeds(p) \/ Fails(p)
        <4>1. tool[p].pc \notin {"deleteKey", "list", "deleteEach"} \/ tool[p].call.op # "add"
          BY <1>1 DEF ToolsTyped, ToolFits
        <4> QED
          BY <1>3, <2>3, <4>1 DEF Transition, Exits, Finds, Lists, Listed, Misses, DeletedAll,
                 Deletes, DeletesOne, Stays
      <3>2. CASE Begins(p) \/ Looks(p) \/ Passes(p)
        BY <2>3, <3>2 DEF Begins, Looks, Passes, Stays, Done
      <3>3. CASE NotThere(p)
        BY <2>3, <3>3 DEF NotThere, Stays, Done
      <3>4. CASE Fails(p)
        BY <2>3, <3>4 DEF Fails, Done
      <3>5. ASSUME NEW k \in KeyNames, Creates(p, k)
            PROVE  /\ tool'[p].pc = "write" /\ tool'[p].key \in ToSet(keys')
                   /\ written'[tool'[p].key] = 1 .. tool'[p].value - 1
        <4>1. tool[p].pc = "addKey" /\ tool'[p].pc = "write" /\ tool'[p].key = k /\ tool'[p].value = tool[p].value
              /\ written' = written
          BY <3>5 DEF Creates, Stays
        <4>2. tool[p].value = 1
          BY <1>1, <4>1 DEF ToolsTyped, ToolFits
        <4>3. k \in ToSet(keys') /\ written[k] = {}
          BY <1>1, <3>5, CreateEffect
        <4> QED
          BY <4>1, <4>2, <4>3
      <3>6. CASE Writes(p)
        <4> DEFINE k == tool[p].key
                   v == tool[p].value
        <4>1. tool[p].pc = "write" /\ tool'[p].call = tool[p].call
          BY <3>6 DEF Writes, Stays
        <4>2. written[k] = 1 .. v - 1
          BY <2>1, <2>3, <4>1 DEF AddingInv
        <4>3. v \in 1 .. Values /\ Values \in Nat /\ k \in KeyNames
          BY <1>1, <3>6, WritesTyped, RuleToolsAssumption
        <4>4. /\ \A e : e \in ToSet(keys') <=> e \in ToSet(keys) \/ e = k
              /\ written'[k] = NowWritten(p) /\ content'[k] = NowHolds(p)
          BY <1>1, <3>6, <4>3, WriteEffect
        <4>5. NowWritten(p) = 1 .. v
          BY <4>2, <4>3 DEF NowWritten
        <4>6. CASE v = Values /\ Stays(p, "write", "open")
          <5>1. content'[k] = r
            BY <2>3, <4>1, <4>4, <4>5, <4>6 DEF NowHolds
          <5>2. r \in Complete'
            BY <4>4, <5>1, HideRulesAssumption DEF Complete
          <5> QED
            BY <2>3, <4>6, <5>2 DEF Stays
        <4>7. CASE tool'[p].pc = "write" /\ tool'[p].key = k /\ tool'[p].value = v + 1
          <5>1. tool'[p].value - 1 = v
            BY <4>3, <4>7
          <5> QED
            BY <2>3, <4>4, <4>5, <4>7, <5>1 DEF Done
        <4> QED
          BY <3>6, <4>6, <4>7 DEF Writes, Stays
      <3>7. CASE (Opens(p) \/ Succeeds(p)) /\ ~Fails(p)
        <4>1. tool[p].pc \in {"open", "reloading"} /\ tool'[p].call = tool[p].call
              /\ tool'[p].pc \in {"reloading", "returned"}
          BY <3>7 DEF Opens, Succeeds, Stays
        <4>2. keys' = keys /\ content' = content
          BY <3>7 DEF Opens, UpdateRegistryParameters, ReloadFrame, Succeeds, Quiet, RegistryFrame
        <4>3. Done(p)
          BY <4>1 DEF Done
        <4>4. r \in Complete
          BY <2>1, <2>3, <4>1, <4>3 DEF AddingInv
        <4>5. ~KeyDeleted /\ r \in Complete'
          BY <1>1, <4>2, <4>4, UntouchedEffect DEF Complete
        <4>6. CASE Opens(p)
          <5>1. ReloadBegins
            BY <1>1, <4>6, OpensReload
          <5> QED
            BY <2>3, <4>1, <4>5, <5>1, KeptStays
        <4>7. CASE Succeeds(p)
          <5>1. tool[p].pc = "reloading"
            BY <4>7 DEF Succeeds, Stays
          <5>2. r \in kept
            BY <2>1, <2>3, <4>1, <4>3, <5>1 DEF AddingInv
          <5> QED
            BY <2>3, <4>1, <4>5, <5>2, KeptStays
        <4> QED
          BY <3>7, <4>6, <4>7
      <3> QED
        BY <2>3, <3>1, <3>2, <3>3, <3>4, <3>5, <3>6, <3>7 DEF Creates, Stays, Done
    <2> QED
      BY <2>2, <2>3
  <1> QED
    BY <1>2, <1>3

\* There is no call at the start.
LEMMA AddingInit == CallsInit => AddingInv
  BY DEF CallsInit, ToolsInit, IdleTool, NewTool, AddingInv

\* A reload preserves it.
LEMMA AddingReload ==
    ASSUME Core, AddingInv, NEW t \in Reloaders, ReloadStep(t), UNCHANGED toolVars, RecordCalls
    PROVE  AddingInv'
  <1>1. /\ keys' = keys /\ content' = content /\ Complete' = Complete /\ ~KeyDeleted /\ tool' = tool
        /\ written' = written
    BY ReloadQuiet DEF Core, toolVars
  <1>2. \A q \in Tools : tool[q].pc \notin {"idle", "exited"} => (calm'[q] => calm[q])
    BY <1>1, QuietHistory DEF Core
  <1> SUFFICES ASSUME NEW q \in Tools, NEW r \in Rules, calm'[q], tool[q].call.op = "add", tool[q].call.rule = r
               PROVE  /\ tool[q].pc = "write" =>
                            tool[q].key \in ToSet(keys) /\ written[tool[q].key] = 1 .. tool[q].value - 1
                      /\ Done(q) => r \in Complete
                      /\ Done(q) /\ tool[q].pc # "open" => r \in kept'
    BY <1>1 DEF AddingInv, Done
  <1>3. CASE tool[q].pc \in {"idle", "exited"}
    BY <1>3 DEF Done
  <1>4. CASE tool[q].pc \notin {"idle", "exited"}
    <2>1. /\ tool[q].pc = "write" =>
                tool[q].key \in ToSet(keys) /\ written[tool[q].key] = 1 .. tool[q].value - 1
          /\ Done(q) => r \in Complete
          /\ Done(q) /\ tool[q].pc # "open" => r \in kept
      BY <1>2, <1>4 DEF AddingInv
    <2> QED
      BY <1>1, <2>1, KeptStays
  <1> QED
    BY <1>3, <1>4

\* Every step preserves it.
LEMMA AddingNext == Core /\ Core' /\ AddingInv /\ [ToolsNext /\ RecordCalls]_allVars => AddingInv'
  <1> SUFFICES ASSUME Core, Core', AddingInv, [ToolsNext /\ RecordCalls]_allVars PROVE AddingInv'
    OBVIOUS
  <1>1. CASE (\E p \in Tools : ToolStep(p)) /\ RecordCalls
    BY <1>1, ToolTransition, AddingStep DEF Core
  <1>2. CASE (\E t \in Reloaders : ReloadStep(t)) /\ UNCHANGED toolVars /\ RecordCalls
    BY <1>2, AddingReload
  <1>3. CASE UNCHANGED allVars
    BY <1>3 DEF allVars, vars, toolVars, callHistory, AddingInv, Done, Complete
  <1> QED
    BY <1>1, <1>2, <1>3 DEF ToolsNext

\* It holds in every state.
LEMMA AddingInvariant == ToolsSpec => []AddingInv
  BY AddingInit, AddingNext, CoreInvariant, PTL DEF ToolsSpec

-----------------------------------------------------------------------------
(* Rules that stay are loaded.                                             *)

\* A key with the rule is at a place or behind it.
HeldFrom(i, r) == \E j \in i .. Len(keys) : content[keys[j]] = r

\* The reload has still to meet the rule.
OnItsWay(t, r) ==
    \/ reload[t].pc \in {"clearExt", "open", "query"} /\ HeldFrom(reload[t].index, r)
    \/ reload[t].pc = "read" /\ (content[reload[t].name] = r \/ HeldFrom(reload[t].index + 1, r))
    \/ reload[t].pc = "add" /\ (reload[t].rule = r \/ HeldFrom(reload[t].index + 1, r))

\* A rule that was complete all the time is in its set, or a reload has still
\* to empty the set or to meet the rule.
LoadedOrComing(s, r) == ToBeEmptied(s) \/ r \in rules[s] \/ \E t \in Reloaders : OnItsWay(t, r)

\* A rule that stayed is loaded or will be.
LoadedInv ==
    /\ \A t \in Reloaders : reload[t].pc \in {"clear", "clearExt", "open"} => reload[t].index = 1
    /\ undisturbed => \A s \in PersistentSets : \A r \in kept \cap RulesOf(s) : LoadedOrComing(s, r)

\* A key that is ahead of a reload stays ahead of it unless a key is deleted.
LEMMA HeldGoesOn ==
    ASSUME Core, NEW p \in Tools, Transition(p), ~KeyDeleted, NEW r \in Rules, NEW i \in Nat \ {0},
           HeldFrom(i, r)
    PROVE  HeldFrom(i, r)'
  <1>1. /\ Onward
        /\ \A e \in KeyNames : content[e] # Partial => content'[e] = content[e]
    BY GrowingStep
  <1>2. keys \in Seq(KeyNames) /\ Len(keys) \in Nat /\ keys' \in Seq(KeyNames) /\ Len(keys') \in Nat
    BY RegistryStepTypes, LenProperties DEF Core, TypeOK, RegistryInv
  <1>3. PICK j \in i .. Len(keys) : content[keys[j]] = r
    BY DEF HeldFrom
  <1>4. j \in 1 .. Len(keys) /\ j >= i
    BY <1>2, <1>3
  <1>5. keys[j] \in KeyNames /\ r # Partial
    BY <1>2, <1>4, ElementOfSeq, HideRulesAssumption
  <1>6. PICK k \in j .. Len(keys') : keys'[k] = keys[j]
    BY <1>1, <1>4 DEF Onward
  <1>7. k \in i .. Len(keys') /\ content'[keys'[k]] = r
    BY <1>1, <1>2, <1>3, <1>4, <1>5, <1>6
  <1> QED
    BY <1>7 DEF HeldFrom

\* A rule that a reload has still to meet is not lost by a call that deletes
\* no key.
LEMMA ComingGoesOn ==
    ASSUME Core, NEW p \in Tools, Transition(p), ~KeyDeleted, reload' = reload, NEW r \in Rules,
           NEW t \in Reloaders, OnItsWay(t, r)
    PROVE  OnItsWay(t, r)'
  <1>1. reload[t].index \in Nat \ {0} /\ reload[t].index + 1 \in Nat \ {0}
    BY DEF Core, TypeOK, ReloadType
  <1>2. CASE reload[t].pc \in {"clearExt", "open", "query"} /\ HeldFrom(reload[t].index, r)
    <2> DEFINE i == reload[t].index
    <2>1. i \in Nat \ {0} /\ HeldFrom(i, r) /\ reload'[t].index = i
      BY <1>1, <1>2
    <2>2. \A j \in Nat \ {0} : HeldFrom(j, r) => HeldFrom(j, r)'
      BY HeldGoesOn
    <2>3. \E j \in i .. Len(keys') : content'[keys'[j]] = r
      BY <2>1, <2>2 DEF HeldFrom
    <2> QED
      BY <1>2, <2>3 DEF OnItsWay, HeldFrom
  <1>3. ASSUME HeldFrom(reload[t].index + 1, r)
        PROVE  \E j \in reload[t].index + 1 .. Len(keys') : content'[keys'[j]] = r
    <2>1. \A i \in Nat \ {0} : HeldFrom(i, r) => HeldFrom(i, r)'
      BY HeldGoesOn
    <2> QED
      BY <1>1, <1>3, <2>1 DEF HeldFrom
  <1>4. CASE reload[t].pc = "read" /\ (content[reload[t].name] = r \/ HeldFrom(reload[t].index + 1, r))
    <2>1. ASSUME content[reload[t].name] = r PROVE content'[reload[t].name] = r
      <3>1. reload[t].name \in KeyNames /\ r # Partial
        BY <1>4, HideRulesAssumption DEF Core, TypeOK
      <3> QED
        BY <2>1, <3>1, GrowingStep
    <2> QED
      BY <1>3, <1>4, <2>1 DEF OnItsWay, HeldFrom
  <1>5. CASE reload[t].pc = "add" /\ (reload[t].rule = r \/ HeldFrom(reload[t].index + 1, r))
    BY <1>3, <1>5 DEF OnItsWay, HeldFrom
  <1> QED
    BY <1>2, <1>4, <1>5 DEF OnItsWay

\* The sets hold rules.
LEMMA RulesAreRules == \A s \in PersistentSets : \A r : r \in RulesOf(s) => r \in Rules
  BY DEF RulesOf

\* A call that deletes no key takes no rule from a reload, and a reload
\* begins by emptying the sets.
LEMMA LoadedToolStep ==
    ASSUME Core, LoadedInv, NEW p \in Tools, Transition(p), RecordCalls
    PROVE  LoadedInv'
  <1>1. TypeOK /\ rules' = rules
    BY DriverCases DEF Core
  <1>2. CASE Opens(p)
    <2>1. /\ "queue" \in Reloaders /\ reload'["queue"].pc = "clear" /\ reload'["queue"].index = 1
          /\ OtherReloads("queue")
      BY <1>1, <1>2, OpensReload
    <2>2. \A s \in PersistentSets : ToBeEmptied(s)'
      BY <2>1 DEF ToBeEmptied, Emptying
    <2>3. \A t \in Reloaders : reload'[t].pc \in {"clear", "clearExt", "open"} => reload'[t].index = 1
      BY <2>1 DEF LoadedInv, OtherReloads
    <2> QED
      BY <2>2, <2>3 DEF LoadedInv, LoadedOrComing
  <1>3. CASE reload' = reload
    <2>1. ~ReloadBegins
      BY <1>3 DEF ReloadBegins
    <2>2. (undisturbed' => undisturbed /\ ~KeyDeleted) /\ kept' \subseteq kept
      BY <2>1 DEF RecordCalls
    <2>3. ASSUME undisturbed', NEW s \in PersistentSets, NEW r \in RulesOf(s), r \in kept'
          PROVE  LoadedOrComing(s, r)'
      <3>1. r \in Rules /\ ~KeyDeleted /\ LoadedOrComing(s, r)
        BY <2>2, <2>3, RulesAreRules DEF LoadedInv
      <3>2. CASE ToBeEmptied(s) \/ r \in rules[s]
        BY <1>1, <1>3, <3>2 DEF LoadedOrComing, ToBeEmptied
      <3>3. CASE \E t \in Reloaders : OnItsWay(t, r)
        BY <1>3, <3>1, <3>3, ComingGoesOn DEF LoadedOrComing
      <3> QED
        BY <3>1, <3>2, <3>3 DEF LoadedOrComing
    <2>4. \A t \in Reloaders : reload'[t].pc \in {"clear", "clearExt", "open"} => reload'[t].index = 1
      BY <1>3 DEF LoadedInv
    <2> QED
      BY <2>3, <2>4 DEF LoadedInv
  <1> QED
    BY <1>2, <1>3, DriverCases

\* A complete rule is ahead of a reload that has just begun.
LEMMA HeldFromStart ==
    ASSUME Core, NEW r \in Complete
    PROVE  HeldFrom(1, r)
  BY InToSet DEF Core, TypeOK, Complete, HeldFrom

\* The rule that was first is met, or lies further on.
LEMMA HeldSplits ==
    ASSUME Core, NEW i \in Nat \ {0}, NEW r, HeldFrom(i, r)
    PROVE  i <= Len(keys) /\ (content[keys[i]] = r \/ HeldFrom(i + 1, r))
  <1>1. PICK j \in i .. Len(keys) : content[keys[j]] = r
    BY DEF HeldFrom
  <1>2. Len(keys) \in Nat
    BY LenProperties DEF Core, TypeOK
  <1>3. j = i \/ j \in i + 1 .. Len(keys)
    BY <1>1, <1>2
  <1> QED
    BY <1>1, <1>2, <1>3 DEF HeldFrom

\* A reload that does not fail adds the rule it met, and passes no other.
LEMMA LoadedReloadStep ==
    ASSUME Core, Core', RegisteredInv, LoadedInv, NEW t \in Reloaders, ReloadStep(t), RecordCalls
    PROVE  LoadedInv'
  <1>1. /\ TypeOK /\ OtherReloads(t) /\ ReloadTransition(t)
        /\ keys' = keys /\ content' = content /\ ~KeyDeleted /\ ~ReloadBegins
        /\ reload[t].index \in Nat \ {0}
        /\ rules \in [Sets -> SUBSET Rules]
    BY ReloadTransitions, ReloadQuiet DEF Core, TypeOK, ReloadType
  <1>2. \A i, r : HeldFrom(i, r)' <=> HeldFrom(i, r)
    BY <1>1 DEF HeldFrom
  <1>3. \A u \in Reloaders : reload'[u].pc \in {"clear", "clearExt", "open"} => reload'[u].index = 1
    <2>1. reload'[t].pc \in {"clear", "clearExt", "open"} => reload'[t].index = 1
      BY <1>1 DEF ReloadTransition, Empties, OpensKey, Ends, Queries, Reads, Skips, Adds, Goes, GoesOn, LoadedInv
    <2> QED
      BY <1>1, <2>1 DEF OtherReloads, LoadedInv
  <1>4. ASSUME undisturbed', NEW s \in PersistentSets, NEW r \in RulesOf(s), r \in kept'
        PROVE  LoadedOrComing(s, r)'
    <2>1. undisturbed /\ r \in kept /\ ~ReloadFails(t)
      BY <1>1, <1>4 DEF RecordCalls
    <2>2. r \in Rules /\ r # Partial /\ r \in Complete /\ LoadedOrComing(s, r)
      BY <2>1, RulesAreRules, HideRulesAssumption DEF LoadedInv, RegisteredInv
    <2>3. \A u \in Reloaders \ {t} : OnItsWay(u, r) => OnItsWay(u, r)'
      BY <1>1, <1>2 DEF OnItsWay, OtherReloads
    <2>4. CASE Goes(t, "clear", "clearExt") /\ rules' = [rules EXCEPT !["persistent"] = {}]
      <3>1. CASE s = "persistent"
        <4>1. HeldFrom(1, r) /\ reload'[t].index = 1 /\ reload'[t].pc = "clearExt"
          BY <2>2, <2>4, HeldFromStart DEF Goes, LoadedInv
        <4>2. OnItsWay(t, r)'
          BY <1>2, <4>1 DEF OnItsWay
        <4> QED
          BY <4>2 DEF LoadedOrComing
      <3>2. CASE s = "persistentExt"
        BY <2>4, <3>2 DEF Goes, LoadedOrComing, ToBeEmptied, Emptying
      <3> QED
        BY <3>1, <3>2 DEF PersistentSets
    <2>5. CASE Goes(t, "clearExt", "open") /\ rules' = [rules EXCEPT !["persistentExt"] = {}]
      <3>1. HeldFrom(1, r) /\ reload'[t].index = 1 /\ reload'[t].pc = "open"
        BY <2>2, <2>5, HeldFromStart DEF Goes, LoadedInv
      <3>2. OnItsWay(t, r)'
        BY <1>2, <3>1 DEF OnItsWay
      <3> QED
        BY <3>2 DEF LoadedOrComing
    <2>6. CASE ~Empties(t)
      <3>1. reload[t].pc \notin {"clear", "clearExt"}
        BY <1>1, <2>6 DEF ReloadTransition, OpensKey, Ends, Queries, Reads, Skips, Adds, Goes, GoesOn
      <3>2. ToBeEmptied(s) => ToBeEmptied(s)'
        BY <1>1, <3>1 DEF ToBeEmptied, Emptying, OtherReloads
      <3>3. r \in rules[s] => r \in rules'[s]
        <4>1. CASE rules' = rules
          BY <4>1
        <4>2. CASE Adds(t)
          BY <1>1, <4>2 DEF Adds, PersistentSets, Sets
        <4> QED
          BY <1>1, <2>6, <4>1, <4>2 DEF ReloadTransition, OpensKey, Ends, Queries, Reads, Skips
      <3>4. ASSUME OnItsWay(t, r) PROVE OnItsWay(t, r)' \/ r \in rules'[s]
        <4>1. CASE OpensKey(t)
          BY <1>2, <3>4, <4>1 DEF OpensKey, Goes, OnItsWay
        <4>2. CASE Ends(t)
          <5>1. HeldFrom(reload[t].index, r)
            BY <3>4, <4>2 DEF Ends, OnItsWay
          <5>2. reload[t].index <= Len(keys)
            BY <1>1, <5>1, HeldSplits
          <5> QED
            BY <2>1, <4>2, <5>2 DEF Ends, ReloadFails
        <4>3. CASE Queries(t)
          <5>1. HeldFrom(reload[t].index, r) /\ reload'[t].name = keys[reload[t].index]
                /\ reload'[t].index = reload[t].index /\ reload'[t].pc = "read"
            BY <3>4, <4>3 DEF Queries, Goes, OnItsWay
          <5>2. content[keys[reload[t].index]] = r \/ HeldFrom(reload[t].index + 1, r)
            BY <1>1, <5>1, HeldSplits
          <5> QED
            BY <1>1, <1>2, <5>1, <5>2 DEF OnItsWay
        <4>4. CASE Reads(t)
          BY <1>2, <3>4, <4>4 DEF Reads, Goes, OnItsWay
        <4>5. CASE Skips(t)
          <5>1. content[reload[t].name] # r
            BY <2>1, <2>2, <4>5 DEF Skips, GoesOn, ReloadFails
          <5> QED
            BY <1>2, <3>4, <4>5, <5>1 DEF Skips, GoesOn, OnItsWay
        <4>6. CASE Adds(t) /\ reload[t].rule = r
          <5>1. r \in Loadable
            BY <2>2 DEF RulesOf, PersistentSets, Loadable
          <5>2. r \in InForce'
            BY <2>1, <4>6, <5>1 DEF Adds, GoesOn, ReloadFails
          <5>3. \A u \in PersistentSets : rules'[u] \subseteq RulesOf(u)
            BY DEF Core, TypeOK, PersistentSets, Sets
          <5> QED
            BY <5>2, <5>3 DEF InForce, PersistentSets, RulesOf
        <4>7. CASE Adds(t) /\ reload[t].rule # r
          BY <1>2, <3>4, <4>7 DEF Adds, GoesOn, OnItsWay
        <4> QED
          BY <1>1, <2>6, <4>1, <4>2, <4>3, <4>4, <4>5, <4>6, <4>7 DEF ReloadTransition
      <3> QED
        BY <2>2, <2>3, <3>2, <3>3, <3>4 DEF LoadedOrComing
    <2> QED
      BY <2>4, <2>5, <2>6 DEF Empties
  <1> QED
    BY <1>3, <1>4 DEF LoadedInv

\* The driver starts with a reload.
LEMMA LoadedInit == CallsInit => LoadedInv
  <1> SUFFICES ASSUME CallsInit PROVE LoadedInv
    OBVIOUS
  <1>1. reload = [t \in Reloaders |-> IF t = "register" THEN StartedReload ELSE IdleReload]
    BY DEF CallsInit, ToolsInit, Init
  <1>2. \A t \in Reloaders : reload[t].index = 1
    BY <1>1 DEF StartedReload, IdleReload
  <1>3. \A s \in PersistentSets : ToBeEmptied(s)
    BY <1>1 DEF StartedReload, ToBeEmptied, Emptying, Reloaders
  <1> QED
    BY <1>2, <1>3 DEF LoadedInv, LoadedOrComing

\* Every step preserves it.
LEMMA LoadedNext ==
    Core /\ Core' /\ RegisteredInv /\ LoadedInv /\ [ToolsNext /\ RecordCalls]_allVars => LoadedInv'
  <1> SUFFICES ASSUME Core, Core', RegisteredInv, LoadedInv, [ToolsNext /\ RecordCalls]_allVars PROVE LoadedInv'
    OBVIOUS
  <1>1. CASE (\E p \in Tools : ToolStep(p)) /\ RecordCalls
    BY <1>1, ToolTransition, LoadedToolStep DEF Core
  <1>2. CASE (\E t \in Reloaders : ReloadStep(t)) /\ RecordCalls
    BY <1>2, LoadedReloadStep
  <1>3. CASE UNCHANGED allVars
    <2>1. UNCHANGED <<rules, keys, content, reload, kept, undisturbed>>
      BY <1>3 DEF allVars, vars, callHistory
    <2>2. \A s, r : LoadedOrComing(s, r)' <=> LoadedOrComing(s, r)
      BY <2>1 DEF LoadedOrComing, ToBeEmptied, OnItsWay, HeldFrom
    <2> QED
      BY <2>1, <2>2 DEF LoadedInv
  <1> QED
    BY <1>1, <1>2, <1>3 DEF ToolsNext

\* It holds in every state.
LEMMA LoadedInvariant == ToolsSpec => []LoadedInv
  BY LoadedInit, LoadedNext, RegisteredInvariant, CoreInvariant, PTL DEF ToolsSpec

\* When no reload is left, the rule can only be in its set.
LEMMA LoadedIsLoaded == LoadedInv => KeptRulesAreLoaded
  <1> SUFFICES ASSUME LoadedInv, NoReload, undisturbed, NEW r \in kept \cap Loadable PROVE r \in InForce
    BY DEF KeptRulesAreLoaded
  <1>1. \A t \in Reloaders : reload[t].pc = "idle"
    BY DEF NoReload
  <1>2. \A s \in PersistentSets : LoadedOrComing(s, r) => r \in rules[s]
    BY <1>1 DEF LoadedOrComing, ToBeEmptied, Emptying, OnItsWay
  <1>3. r \in RulesOf("persistent") \/ r \in RulesOf("persistentExt")
    BY DEF Loadable, RulesOf
  <1> QED
    BY <1>2, <1>3 DEF LoadedInv, PersistentSets, InForce

\* If no key was deleted and no call of the driver failed since the last reload
\* began, a rule that stayed in the registry is in force when it is over,
\* whatever keys are created meanwhile.
THEOREM RulesThatStayAreLoaded == ToolsSpec => []KeptRulesAreLoaded
  BY LoadedInvariant, LoadedIsLoaded, PTL

\* An addition that reports success has brought its rule into force, whatever
\* other processes do but delete a key, and whatever it misread itself, unless
\* a call of the driver failed, which the success does not tell.
THEOREM AdditionsAdd == ToolsSpec => []AddedRuleIsInForce
  <1>1. Core /\ AddingInv /\ LoadedInv => AddedRuleIsInForce
    <2> SUFFICES ASSUME Core, AddingInv, LoadedInv, NEW p \in Tools, Succeeded(p, "add"), NoReload,
                        undisturbed, tool[p].call.rule \in Loadable
                 PROVE  tool[p].call.rule \in InForce
      BY DEF AddedRuleIsInForce
    <2>1. tool[p].call.rule \in Rules
      BY DEF Loadable
    <2>2. tool[p].call.rule \in kept
      BY <2>1 DEF Succeeded, AddingInv, Done
    <2> QED
      BY <2>2, LoadedIsLoaded DEF KeptRulesAreLoaded
  <1> QED
    BY <1>1, LoadedInvariant, AddingInvariant, CoreInvariant, PTL

-----------------------------------------------------------------------------
(* HideRules lets other processes create, complete and delete keys as they *)
(* like. The calls of the library do nothing else to the driver's rules    *)
(* and to the registry.                                                    *)

\* A key that is not there has no values.
ValuesAreInKeys == \A k \in KeyNames : k \notin ToSet(keys) => written[k] = {}

\* No call leaves values behind, by its transition.
LEMMA ValuesInKeysStep ==
    ASSUME TypeOK, ToolsTyped, KeysDiffer, ValuesAreInKeys, NEW p \in Tools, Transition(p)
    PROVE  ValuesAreInKeys'
  <1>1. CASE Untouched
    BY <1>1 DEF Untouched, ValuesAreInKeys
  <1>2. CASE \E k \in KeyNames : Creates(p, k)
    <2>1. PICK k \in KeyNames : Creates(p, k)
      BY <1>2
    <2>2. \A e : e \in ToSet(keys) => e \in ToSet(keys')
      BY <2>1, CreateEffect
    <2> QED
      BY <2>1, <2>2 DEF Creates, ValuesAreInKeys
  <1>3. CASE Writes(p)
    <2> DEFINE k == tool[p].key
    <2>1. /\ \A e : e \in ToSet(keys') <=> e \in ToSet(keys) \/ e = k
          /\ \A e \in KeyNames : written'[e] = IF e = k THEN NowWritten(p) ELSE written[e]
      BY <1>3, WriteEffect
    <2> HIDE DEF k
    <2> QED
      BY <2>1 DEF ValuesAreInKeys
  <1>4. CASE Removes(p) /\ RemoveKey(Removed(p))
    <2> DEFINE k == Removed(p)
    <2>1. /\ \A e : e \in ToSet(keys') <=> e \in ToSet(keys) /\ e # k
          /\ \A e \in KeyNames : written'[e] = IF e = k THEN {} ELSE written[e]
      BY <1>4, RemoveKeyEffect
    <2> HIDE DEF k
    <2> QED
      BY <2>1 DEF ValuesAreInKeys
  <1> QED
    BY <1>1, <1>2, <1>3, <1>4, RegistryCases

\* The first write to a key that is gone creates it again, without its other
\* values; the last write to a key completes it; any other write is not seen.
LEMMA WriteImplements ==
    ASSUME Values > 1, TypeOK, ToolsTyped, RegistryInv, ValuesAreInKeys, NEW p \in Tools, Writes(p)
    PROVE  ChangeRegistry \/ UNCHANGED vars
  <1> DEFINE k == tool[p].key
             r == tool[p].call.rule
  <1>1. tool[p].pc = "write" /\ UNCHANGED <<rules, verdict, hiderOpen, reload>>
    BY DEF Writes, Stays, DriverFrame
  <1>2. /\ content \in [KeyNames -> Rules \cup {Partial}]
        /\ content' = [content EXCEPT ![k] = NowHolds(p)]
        /\ \/ k \in ToSet(keys) /\ keys' = keys
           \/ k \notin ToSet(keys) /\ Insert(k)
    BY DEF Writes, TypeOK
  <1>3. k \in KeyNames /\ NowHolds(p) \in Rules \cup {Partial}
    BY WritesTyped
  <1>4. content[k] = Partial
    BY <1>1, WriterIncomplete
  <1>5. NowHolds(p) = Partial \/ NowHolds(p) = r
    BY DEF NowHolds
  <1>6. CASE k \notin ToSet(keys)
    <2>1. NowWritten(p) = {tool[p].value}
      BY <1>3, <1>6 DEF ValuesAreInKeys, NowWritten
    <2>2. 1 \in 1 .. Values /\ 2 \in 1 .. Values /\ 1 # 2
      BY RuleToolsAssumption
    <2>3. NowHolds(p) = Partial
      BY <2>1, <2>2 DEF NowHolds
    <2>4. CreateKey(k)
      BY <1>2, <1>6, <2>3 DEF Insert, CreateKey
    <2> QED
      BY <1>1, <1>3, <2>4 DEF ChangeRegistry
  <1>7. CASE k \in ToSet(keys) /\ NowHolds(p) # Partial
    <2>1. r \in Rules
      BY <1>3, <1>5, <1>7
    <2>2. CompleteKey(k, r)
      BY <1>2, <1>4, <1>5, <1>7 DEF CompleteKey
    <2> QED
      BY <1>1, <1>3, <2>1, <2>2 DEF ChangeRegistry
  <1>8. CASE k \in ToSet(keys) /\ NowHolds(p) = Partial
    <2>1. content' = content /\ keys' = keys
      BY <1>2, <1>3, <1>4, <1>8
    <2> QED
      BY <1>1, <2>1 DEF vars
  <1> QED
    BY <1>6, <1>7, <1>8

\* So is every step of a call.
LEMMA ToolStepImplements ==
    ASSUME Values > 1, TypeOK, ToolsTyped, RegistryInv, ValuesAreInKeys, NEW p \in Tools, Transition(p)
    PROVE  [Next]_vars
  <1>1. UNCHANGED <<rules, verdict, hiderOpen>> /\ (UNCHANGED reload \/ Opens(p))
    BY DriverCases
  <1>2. CASE Opens(p)
    BY <1>2 DEF Opens, Next
  <1>3. CASE UNCHANGED reload /\ Untouched
    BY <1>1, <1>3 DEF Untouched, vars
  <1>4. CASE \E k \in KeyNames : Creates(p, k)
    <2>1. PICK k \in KeyNames : Creates(p, k)
      BY <1>4
    <2>2. k \notin ToSet(keys) /\ Insert(k) /\ content' = content /\ UNCHANGED <<rules, verdict, hiderOpen, reload>>
      BY <2>1 DEF Creates, NewName, DriverFrame
    <2>3. content[k] = Partial
      BY <2>2 DEF RegistryInv, CompleteKeys
    <2>4. content' = [content EXCEPT ![k] = Partial]
      BY <2>2, <2>3 DEF TypeOK
    <2>5. CreateKey(k)
      BY <2>2, <2>4 DEF Insert, CreateKey
    <2> QED
      BY <2>2, <2>5 DEF ChangeRegistry, Next
  <1>5. CASE Writes(p)
    BY <1>5, WriteImplements DEF Next
  <1>6. CASE Removes(p) /\ RemoveKey(Removed(p))
    <2> DEFINE k == Removed(p)
    <2>1. k \in KeyNames
      BY <1>6, RemoveKeyEffect DEF RegistryInv
    <2>2. DeleteKey(k)
      BY <1>6 DEF RemoveKey
    <2>3. UNCHANGED <<rules, verdict, hiderOpen, reload>>
      BY <1>6 DEF Removes, Deletes, DeletesOne, DriverFrame
    <2> HIDE DEF k
    <2> QED
      BY <2>1, <2>2, <2>3 DEF ChangeRegistry, Next
  <1> QED
    BY <1>1, <1>2, <1>3, <1>4, <1>5, <1>6, RegistryCases

\* At first no key is without its values, and no value without its key.
LEMMA ValuesInKeysInit == ToolsInit => ValuesAreInKeys
  BY DEF ToolsInit, ValuesAreInKeys

\* The invariant holds in every state.
LEMMA ValuesInKeysNext == Core /\ ValuesAreInKeys /\ [ToolsNext /\ RecordCalls]_allVars => ValuesAreInKeys'
  <1> SUFFICES ASSUME Core, ValuesAreInKeys, [ToolsNext /\ RecordCalls]_allVars PROVE ValuesAreInKeys'
    OBVIOUS
  <1>1. CASE \E p \in Tools : ToolStep(p)
    BY <1>1, ToolTransition, ValuesInKeysStep DEF Core, RegistryInv
  <1>2. CASE (\E t \in Reloaders : ReloadStep(t)) /\ UNCHANGED toolVars
    <2>1. UNCHANGED keys
      BY <1>2 DEF ReloadStep, ReloadClear, ReloadClearExt, OpenRulesKey, QuerySubkey, ReadRule,
             AddPersistentHideRule, ReloadFrame
    <2> QED
      BY <1>2, <2>1 DEF toolVars, ValuesAreInKeys
  <1>3. CASE UNCHANGED allVars
    BY <1>3 DEF allVars, vars, toolVars, ValuesAreInKeys
  <1> QED
    BY <1>1, <1>2, <1>3 DEF ToolsNext

\* The calls of the helper library keep to HideRules: whatever they do, and
\* whichever of their accesses fail, the driver and its registry go through a
\* behaviour of that module, so that what is shown there holds with them. A
\* key has more than one value, and so is never created and complete in one step.
THEOREM ToolsKeepToHideRules == ASSUME Values > 1 PROVE ToolsSpec => Spec
  <1>1. CallsInit => Init /\ ValuesAreInKeys
    BY ValuesInKeysInit DEF CallsInit, ToolsInit
  <1>2. Core /\ ValuesAreInKeys /\ [ToolsNext /\ RecordCalls]_allVars => [Next]_vars
    <2> SUFFICES ASSUME Core, ValuesAreInKeys, [ToolsNext /\ RecordCalls]_allVars PROVE [Next]_vars
      OBVIOUS
    <2>1. CASE \E p \in Tools : ToolStep(p)
      BY <2>1, ToolTransition, ToolStepImplements DEF Core
    <2>2. CASE \E t \in Reloaders : ReloadStep(t)
      BY <2>2 DEF Next
    <2>3. CASE UNCHANGED allVars
      BY <2>3 DEF allVars
    <2> QED
      BY <2>1, <2>2, <2>3 DEF ToolsNext
  <1> QED
    BY <1>1, <1>2, ValuesInKeysNext, CoreInvariant, PTL DEF ToolsSpec, Spec

=============================================================================
