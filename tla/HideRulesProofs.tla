---------------------------- MODULE HideRulesProofs ----------------------------
(***************************************************************************)
(* Proof that every verdict on a device has its reason in the rules that   *)
(* were in force while the four sets were looked at, whatever the rules,   *)
(* the devices and the changes meanwhile. The invariant says for each      *)
(* place of the pass what the sets behind it allow to conclude.            *)
(***************************************************************************)
EXTENDS HideRulesHistory, HideVisitor, Loops, FiniteSetTheorems, SequenceTheorems, TLAPS

\* The history brackets the rules while a pass is under way.
Bracketed ==
    \A d \in Devices : verdict[d].pc \notin {"idle", "done"} =>
        \A s \in Sets : steady[d][s] \subseteq rules[s] /\ rules[s] \subseteq seen[d][s]

\* The verdict so far is hide: what set s alone allows to say.
Hidden(d, s) == SeenHide(d, s) /\ ~SteadyKeep(d, s)

\* The verdict so far is not hide.
Kept(d, s) == SteadyHide(d, s) => SeenKeep(d, s)

\* As Kept, where the set t is looked at after s.
KeptBy(d, s, t) == SteadyHide(d, s) => SeenKeep(d, s) \/ SeenKeep(d, t)

DefaultsKept(d) == KeptBy(d, "dynamic", "persistent") /\ Kept(d, "persistent")

PassAt(d) ==
    /\ verdict[d].pc = "dynamic" => ~verdict[d].hide
    /\ verdict[d].pc = "persistent" =>
          IF verdict[d].hide THEN Hidden(d, "dynamic") ELSE Kept(d, "dynamic")
    /\ verdict[d].pc = "ext" => ~verdict[d].hide /\ DefaultsKept(d)
    /\ verdict[d].pc = "persistentExt" =>
          /\ DefaultsKept(d)
          /\ IF verdict[d].hide THEN Hidden(d, "ext") ELSE Kept(d, "ext")
    /\ verdict[d].pc = "done" =>
          IF verdict[d].hide
          THEN \/ Hidden(d, "persistent") \/ Hidden(d, "persistentExt")
               \/ Hidden(d, "dynamic") /\ ~SteadyKeep(d, "persistent")
               \/ Hidden(d, "ext") /\ ~SteadyKeep(d, "persistentExt")
          ELSE /\ DefaultsKept(d)
               /\ KeptBy(d, "ext", "persistentExt") /\ Kept(d, "persistentExt")

PassInv == Bracketed /\ \A d \in Devices : PassAt(d)

-----------------------------------------------------------------------------
\* What one step does to the history of a pass that is under way.
LEMMA HistoryOfAPass ==
    ASSUME Record, NEW d \in Devices,
           verdict[d].pc \notin {"idle", "done"}, verdict'[d].pc # "idle"
    PROVE  \A s \in Sets : /\ seen'[d][s] = seen[d][s] \cup rules'[s]
                           /\ steady'[d][s] = steady[d][s] \cap rules'[s]
  BY DEF Record

\* So what was seen stays seen, and what is steady was steady.
LEMMA HistoryIsMonotone ==
    ASSUME Record, NEW d \in Devices,
           verdict[d].pc \notin {"idle", "done"}, verdict'[d].pc # "idle",
           NEW s \in Sets
    PROVE  /\ SeenHide(d, s) => SeenHide(d, s)'
           /\ SeenKeep(d, s) => SeenKeep(d, s)'
           /\ SteadyHide(d, s)' => SteadyHide(d, s)
           /\ SteadyKeep(d, s)' => SteadyKeep(d, s)
  <1>1. seen[d][s] \subseteq seen'[d][s] /\ steady'[d][s] \subseteq steady[d][s]
    BY HistoryOfAPass
  <1> QED
    BY <1>1 DEF SeenHide, SeenKeep, SteadyHide, SteadyKeep

\* The history of a pass that is over stays.
LEMMA HistoryIsFrozen ==
    ASSUME Record, NEW d \in Devices,
           verdict[d].pc = "done", verdict'[d].pc # "idle",
           NEW s \in Sets
    PROVE  /\ SeenHide(d, s)' <=> SeenHide(d, s)
           /\ SeenKeep(d, s)' <=> SeenKeep(d, s)
           /\ SteadyHide(d, s)' <=> SteadyHide(d, s)
           /\ SteadyKeep(d, s)' <=> SteadyKeep(d, s)
  <1>1. seen'[d] = seen[d] /\ steady'[d] = steady[d]
    BY DEF Record
  <1> QED
    BY <1>1 DEF SeenHide, SeenKeep, SteadyHide, SteadyKeep

\* A step that leaves a verdict alone keeps what is known about it.
LEMMA PassGoesOn ==
    ASSUME Record, NEW d \in Devices, PassAt(d), verdict'[d] = verdict[d]
    PROVE  PassAt(d)'
  <1>1. CASE verdict[d].pc = "idle"
    BY <1>1 DEF PassAt
  <1>2. CASE verdict[d].pc = "done"
    <2>1. \A s \in Sets : /\ SeenHide(d, s)' <=> SeenHide(d, s)
                          /\ SeenKeep(d, s)' <=> SeenKeep(d, s)
                          /\ SteadyHide(d, s)' <=> SteadyHide(d, s)
                          /\ SteadyKeep(d, s)' <=> SteadyKeep(d, s)
      BY <1>2, HistoryIsFrozen
    <2> QED
      BY <1>2, <2>1 DEF PassAt, Hidden, Kept, KeptBy, DefaultsKept, Sets
  <1>3. CASE verdict[d].pc \notin {"idle", "done"}
    <2>1. \A s \in Sets : /\ SeenHide(d, s) => SeenHide(d, s)'
                          /\ SeenKeep(d, s) => SeenKeep(d, s)'
                          /\ SteadyHide(d, s)' => SteadyHide(d, s)
                          /\ SteadyKeep(d, s)' => SteadyKeep(d, s)
      BY <1>3, HistoryIsMonotone
    <2> QED
      BY <1>3, <2>1 DEF PassAt, Hidden, Kept, KeptBy, DefaultsKept, Sets
  <1> QED
    BY <1>1, <1>2, <1>3

\* What a look at one set shows of the rules that are steady and seen after it.
LEMMA VisitOutcome ==
    ASSUME TypeOK, Bracketed, Record, UNCHANGED rules, NEW d \in Devices, NEW s \in Sets,
           verdict[d].pc = s, verdict'[d].pc # "idle"
    PROVE  \/ /\ Hits(s, d) = {}
              /\ ~SteadyHide(d, s)' /\ ~SteadyKeep(d, s)'
           \/ Hits(s, d) # {} /\ (\A r \in Hits(s, d) : r.hide) /\ Hidden(d, s)'
           \/ Hits(s, d) # {} /\ ~(\A r \in Hits(s, d) : r.hide) /\ SeenKeep(d, s)'
  <1>1. s \notin {"idle", "done"}
    BY DEF Sets
  <1>2. steady'[d][s] \subseteq rules[s] /\ rules[s] \subseteq seen'[d][s]
    BY <1>1, HistoryOfAPass DEF Bracketed
  <1>3. CASE Hits(s, d) = {}
    <2>1. \A r \in rules[s] : ~Match(s, r, d)
      BY <1>3 DEF Hits
    <2> QED
      BY <1>2, <1>3, <2>1 DEF SteadyHide, SteadyKeep
  <1>4. CASE Hits(s, d) # {} /\ \A r \in Hits(s, d) : r.hide
    <2>1. \A r \in rules[s] : Match(s, r, d) => r.hide
      BY <1>4 DEF Hits
    <2>2. \E r \in rules[s] : Match(s, r, d)
      BY <1>4 DEF Hits
    <2>3. SeenHide(d, s)'
      BY <1>2, <2>1, <2>2 DEF SeenHide
    <2>4. ~SteadyKeep(d, s)'
      BY <1>2, <2>1 DEF SteadyKeep
    <2> QED
      BY <1>4, <2>3, <2>4 DEF Hidden
  <1>5. CASE Hits(s, d) # {} /\ ~(\A r \in Hits(s, d) : r.hide)
    <2>1. \E r \in rules[s] : Match(s, r, d) /\ ~r.hide
      BY <1>5 DEF Hits
    <2>2. SeenKeep(d, s)'
      BY <1>2, <2>1 DEF SeenKeep
    <2> QED
      BY <1>5, <2>2
  <1> QED
    BY <1>3, <1>4, <1>5

\* A look at one set.
LEMMA VisitKeepsPass ==
    ASSUME TypeOK, Bracketed, Record, NEW d \in Devices, PassAt(d), NEW s \in Sets,
           VisitSet(d, s)
    PROVE  PassAt(d)'
  <1> DEFINE hide == Visit(s, d, verdict[d].hide)
  <1>1. verdict[d].pc = s /\ UNCHANGED rules
    BY DEF VisitSet
  <1>2. verdict'[d] = [pc |-> NextSet(s, hide), hide |-> hide]
    BY DEF VisitSet, TypeOK
  <1>3. verdict'[d].pc = NextSet(s, hide) /\ verdict'[d].hide = hide
    BY <1>2
  <1>4. NextSet(s, hide) # "idle" /\ s \notin {"idle", "done"}
    BY DEF NextSet, Sets
  <1>5. \A t \in Sets : /\ SeenHide(d, t) => SeenHide(d, t)'
                        /\ SeenKeep(d, t) => SeenKeep(d, t)'
                        /\ SteadyHide(d, t)' => SteadyHide(d, t)
                        /\ SteadyKeep(d, t)' => SteadyKeep(d, t)
    BY <1>1, <1>3, <1>4, HistoryIsMonotone
  <1>6. \/ /\ hide = verdict[d].hide
           /\ ~SteadyHide(d, s)' /\ ~SteadyKeep(d, s)'
        \/ hide = TRUE /\ Hidden(d, s)'
        \/ hide = FALSE /\ SeenKeep(d, s)'
    BY <1>1, <1>3, <1>4, VisitOutcome DEF Visit
  <1>7. verdict[d].hide \in BOOLEAN /\ hide \in BOOLEAN
    BY DEF TypeOK, Visit
  <1> HIDE DEF hide
  <1>8. CASE s = "dynamic"
    <2>1. verdict'[d].pc = "persistent"
      BY <1>3, <1>8 DEF NextSet
    <2>2. ~verdict[d].hide
      BY <1>1, <1>8 DEF PassAt
    <2>3. IF hide THEN Hidden(d, "dynamic")' ELSE Kept(d, "dynamic")'
      BY <1>6, <1>7, <1>8, <2>2 DEF Kept
    <2> QED
      BY <1>3, <2>1, <2>3 DEF PassAt
  <1>9. CASE s = "persistent"
    <2>1. verdict'[d].pc = IF hide THEN "done" ELSE "ext"
      BY <1>3, <1>9 DEF NextSet
    <2>2. IF verdict[d].hide THEN Hidden(d, "dynamic") ELSE Kept(d, "dynamic")
      BY <1>1, <1>9 DEF PassAt
    <2>3. ~hide => DefaultsKept(d)'
      BY <1>5, <1>6, <1>7, <1>9, <2>2 DEF DefaultsKept, KeptBy, Kept, Hidden, Sets
    <2>4. hide => \/ Hidden(d, "persistent")'
                  \/ Hidden(d, "dynamic")' /\ ~SteadyKeep(d, "persistent")'
      BY <1>5, <1>6, <1>7, <1>9, <2>2 DEF Hidden, Sets
    <2> QED
      BY <1>3, <1>7, <2>1, <2>3, <2>4 DEF PassAt
  <1>10. CASE s = "ext"
    <2>1. verdict'[d].pc = "persistentExt"
      BY <1>3, <1>10 DEF NextSet
    <2>2. ~verdict[d].hide /\ DefaultsKept(d)
      BY <1>1, <1>10 DEF PassAt
    <2>3. DefaultsKept(d)'
      BY <1>5, <2>2 DEF DefaultsKept, KeptBy, Kept, Sets
    <2>4. IF hide THEN Hidden(d, "ext")' ELSE Kept(d, "ext")'
      BY <1>6, <1>7, <1>10, <2>2 DEF Kept
    <2> QED
      BY <1>3, <2>1, <2>3, <2>4 DEF PassAt
  <1>11. CASE s = "persistentExt"
    <2>1. verdict'[d].pc = "done"
      BY <1>3, <1>11 DEF NextSet
    <2>2. /\ DefaultsKept(d)
          /\ IF verdict[d].hide THEN Hidden(d, "ext") ELSE Kept(d, "ext")
      BY <1>1, <1>11 DEF PassAt
    <2>3. DefaultsKept(d)'
      BY <1>5, <2>2 DEF DefaultsKept, KeptBy, Kept, Sets
    <2>4. ~hide => KeptBy(d, "ext", "persistentExt")' /\ Kept(d, "persistentExt")'
      BY <1>5, <1>6, <1>7, <1>11, <2>2 DEF KeptBy, Kept, Hidden, Sets
    <2>5. hide => \/ Hidden(d, "persistentExt")'
                  \/ Hidden(d, "ext")' /\ ~SteadyKeep(d, "persistentExt")'
      BY <1>5, <1>6, <1>7, <1>11, <2>2 DEF Hidden, Sets
    <2> QED
      BY <1>3, <1>7, <2>1, <2>3, <2>4, <2>5 DEF PassAt
  <1> QED
    BY <1>8, <1>9, <1>10, <1>11 DEF Sets

\* A step leaves a verdict alone, begins or ends the pass, or looks at a set.
LEMMA StepsOfAVerdict ==
    ASSUME TypeOK, Next, NEW d \in Devices
    PROVE  \/ verdict'[d] = verdict[d]
           \/ /\ verdict[d].pc = "idle"
              /\ verdict'[d].pc = "dynamic" /\ verdict'[d].hide = FALSE
           \/ verdict'[d].pc = "idle"
           \/ \E s \in Sets : VisitSet(d, s)
  <1>1. CASE \E e \in Devices : VerdictStep(e)
    <2>1. PICK e \in Devices : VerdictStep(e)
      BY <1>1
    <2>2. CASE e = d
      BY <2>1, <2>2 DEF VerdictStep, ShouldHideDevice, ReturnVerdict, TypeOK
    <2>3. CASE e # d
      BY <2>1, <2>3 DEF VerdictStep, ShouldHideDevice, VisitSet, ReturnVerdict, TypeOK
    <2> QED
      BY <2>2, <2>3
  <1>2. CASE HiderStep
    BY <1>2 DEF HiderStep, OpenHider, AddHideRule, ClearByClient, CloseHider
  <1>3. CASE ChangeRegistry \/ UpdateRegistryParameters
    BY <1>3 DEF ChangeRegistry, UpdateRegistryParameters, ReloadFrame
  <1>4. CASE \E t \in Reloaders : ReloadStep(t)
    BY <1>4 DEF ReloadStep, ReloadClear, ReloadClearExt, OpenRulesKey, QuerySubkey,
                ReadRule, AddPersistentHideRule, ReloadFrame
  <1> QED
    BY <1>1, <1>2, <1>3, <1>4 DEF Next

\* The invariant is kept, for one device at a time.
LEMMA PassStep ==
    ASSUME TypeOK, PassInv, HistoryNext
    PROVE  PassInv'
  <1>1. Next /\ Record
    BY DEF HistoryNext
  <1>2. ASSUME NEW d \in Devices, verdict'[d].pc \notin {"idle", "done"}, NEW s \in Sets
        PROVE  steady'[d][s] \subseteq rules'[s] /\ rules'[s] \subseteq seen'[d][s]
    <2>1. CASE verdict[d].pc = "idle"
      BY <1>1, <1>2, <2>1 DEF Record
    <2>2. CASE verdict[d].pc = "done"
      <3>1. \A t \in Sets : ~VisitSet(d, t)
        BY <2>2 DEF VisitSet, Sets
      <3> QED
        BY <1>1, <1>2, <2>2, <3>1, StepsOfAVerdict
    <2>3. CASE verdict[d].pc \notin {"idle", "done"}
      BY <1>1, <1>2, <2>3, HistoryOfAPass
    <2> QED
      BY <2>1, <2>2, <2>3
  <1>3. ASSUME NEW d \in Devices
        PROVE  PassAt(d)'
    <2>1. PassAt(d) /\ Bracketed
      BY DEF PassInv
    <2>2. CASE verdict'[d] = verdict[d]
      BY <1>1, <2>1, <2>2, PassGoesOn
    <2>3. CASE verdict'[d].pc = "dynamic" /\ verdict'[d].hide = FALSE
      BY <2>3 DEF PassAt
    <2>4. CASE verdict'[d].pc = "idle"
      BY <2>4 DEF PassAt
    <2>5. CASE \E s \in Sets : VisitSet(d, s)
      BY <1>1, <2>1, <2>5, VisitKeepsPass
    <2> QED
      BY <1>1, <2>2, <2>3, <2>4, <2>5, StepsOfAVerdict
  <1>4. Bracketed'
    BY <1>2 DEF Bracketed
  <1> QED
    BY <1>3, <1>4 DEF PassInv

-----------------------------------------------------------------------------
(* Type correctness.                                                       *)

\* The parts of a sequence before and behind a place.
LEMMA PartsOfASequence ==
    ASSUME NEW S, NEW q \in Seq(S), NEW i \in 1 .. Len(q) + 1
    PROVE  /\ SubSeq(q, 1, i - 1) \in Seq(S)
           /\ SubSeq(q, i, Len(q)) \in Seq(S)
           /\ SubSeq(q, i + 1, Len(q)) \in Seq(S)
  <1>1. Len(q) \in Nat
    BY LenProperties
  <1>2. i \in Int /\ i - 1 \in Int /\ i + 1 \in Int /\ Len(q) \in Int /\ i >= 1 /\ i - 1 <= Len(q)
    BY <1>1
  <1>3. \A j \in 1 .. Len(q) : q[j] \in S
    BY ElementOfSeq
  <1>4. \A j \in 1 .. i - 1 : q[j] \in S
    BY <1>1, <1>2, <1>3
  <1>5. \A j \in i .. Len(q) : q[j] \in S
    BY <1>1, <1>2, <1>3
  <1>6. \A j \in i + 1 .. Len(q) : q[j] \in S
    BY <1>1, <1>2, <1>3
  <1>7. SubSeq(q, 1, i - 1) \in Seq(S)
    BY <1>2, <1>4, SubSeqProperties
  <1>8. SubSeq(q, i, Len(q)) \in Seq(S)
    BY <1>2, <1>5, SubSeqProperties
  <1>9. SubSeq(q, i + 1, Len(q)) \in Seq(S)
    BY <1>2, <1>6, SubSeqProperties
  <1> QED
    BY <1>7, <1>8, <1>9

\* A key put in anywhere, or taken out, leaves a sequence of key names.
LEMMA InsertAtTyped ==
    ASSUME NEW S, NEW q \in Seq(S), NEW i \in 1 .. Len(q) + 1, NEW e \in S
    PROVE  InsertAt(q, i, e) \in Seq(S)
  <1>1. SubSeq(q, 1, i - 1) \in Seq(S) /\ SubSeq(q, i, Len(q)) \in Seq(S)
    BY PartsOfASequence
  <1>2. <<e>> \in Seq(S)
    OBVIOUS
  <1>3. SubSeq(q, 1, i - 1) \o <<e>> \in Seq(S)
    BY <1>1, <1>2, ConcatProperties
  <1> QED
    BY <1>1, <1>3, ConcatProperties, Zenon DEF InsertAt

LEMMA RemoveAtTyped ==
    ASSUME NEW S, NEW q \in Seq(S), NEW i \in 1 .. Len(q)
    PROVE  RemoveAt(q, i) \in Seq(S)
  <1>1. i \in 1 .. Len(q) + 1
    BY LenProperties
  <1>2. SubSeq(q, 1, i - 1) \in Seq(S) /\ SubSeq(q, i + 1, Len(q)) \in Seq(S)
    BY <1>1, PartsOfASequence
  <1> QED
    BY <1>2, ConcatProperties DEF RemoveAt

\* The type of what a reload keeps.
ReloadTyped ==
    /\ reload \in [Reloaders -> ReloadType]
    /\ \A t \in Reloaders : /\ reload[t].pc = "read" => reload[t].name \in KeyNames
                            /\ reload[t].pc = "add" => reload[t].rule \in Rules

\* What a reload may become at a step: a place in which name and rule fit.
Fits(x) ==
    /\ x \in ReloadType
    /\ x.pc = "read" => x.name \in KeyNames
    /\ x.pc = "add" => x.rule \in Rules

LEMMA ReloadFits ==
    ASSUME ReloadTyped, NEW t \in Reloaders, NEW x, Fits(x), Reload(t, x)
    PROVE  ReloadTyped'
  BY DEF ReloadTyped, Fits, Reload

LEMMA StartAndEndFit == Fits(IdleReload) /\ Fits(StartedReload)
  BY DEF Fits, IdleReload, StartedReload, ReloadType, ReloadPc

\* A reload goes on to a place where it has neither read a name nor a rule.
LEMMA PlaceFits ==
    ASSUME NEW x \in ReloadType, NEW pc \in ReloadPc \ {"read", "add"}
    PROVE  Fits([x EXCEPT !.pc = pc])
  BY DEF Fits, ReloadType, ReloadPc

RulesTyped == rules \in [Sets -> SUBSET Rules] /\ \A s \in Sets : rules[s] \subseteq RulesOf(s)

\* A rule of its type, or nothing, is what a set may become.
LEMMA RulesFit ==
    ASSUME RulesTyped, NEW s \in Sets, NEW R, R \subseteq RulesOf(s),
           rules' = [rules EXCEPT ![s] = R]
    PROVE  RulesTyped'
  BY DEF RulesTyped, RulesOf

VerdictTyped == verdict \in [Devices -> [pc: VerdictPc, hide: BOOLEAN]]

RegistryTyped == keys \in Seq(KeyNames) /\ content \in [KeyNames -> Rules \cup {Partial}]

LEMMA TypeParts ==
    TypeOK <=> RulesTyped /\ VerdictTyped /\ hiderOpen \in BOOLEAN /\ RegistryTyped /\ ReloadTyped
  BY DEF TypeOK, RulesTyped, VerdictTyped, RegistryTyped, ReloadTyped

LEMMA VerdictStepTyped ==
    ASSUME TypeOK, NEW d \in Devices, VerdictStep(d)
    PROVE  TypeOK'
  <1> USE DEF TypeOK
  <1>1. CASE ShouldHideDevice(d)
    BY <1>1 DEF ShouldHideDevice, VerdictPc, Sets
  <1>2. CASE \E s \in Sets : VisitSet(d, s)
    <2>1. PICK s \in Sets : VisitSet(d, s)
      BY <1>2
    <2>2. NextSet(s, Visit(s, d, verdict[d].hide)) \in VerdictPc
      BY DEF NextSet, VerdictPc, Sets
    <2>3. Visit(s, d, verdict[d].hide) \in BOOLEAN
      BY DEF Visit
    <2> QED
      BY <2>1, <2>2, <2>3 DEF VisitSet
  <1>3. CASE ReturnVerdict(d)
    BY <1>3 DEF ReturnVerdict, VerdictPc
  <1> QED
    BY <1>1, <1>2, <1>3 DEF VerdictStep

LEMMA HiderStepTyped ==
    ASSUME TypeOK, HiderStep
    PROVE  TypeOK'
  <1>1. UNCHANGED <<verdict, keys, content, reload>>
    BY DEF HiderStep, OpenHider, AddHideRule, ClearByClient, CloseHider
  <1>2. hiderOpen' \in BOOLEAN
    BY DEF HiderStep, OpenHider, AddHideRule, ClearByClient, CloseHider, TypeOK
  <1>3. RulesTyped
    BY TypeParts
  <1>4. RulesTyped'
    <2>1. CASE OpenHider
      BY <1>3, <2>1 DEF OpenHider, RulesTyped
    <2>2. CASE ClearByClient \/ CloseHider
      BY <1>3, <2>2 DEF ClearByClient, CloseHider, ClearHideRules, RulesTyped, Sets
    <2>3. CASE \E r \in Rules : AddHideRule(r)
      <3>1. PICK r \in Rules : AddHideRule(r)
        BY <2>3
      <3>2. CASE r.type = "default" /\ rules' = [rules EXCEPT !["dynamic"] = @ \cup {r}]
        BY <1>3, <3>2 DEF RulesTyped, RulesOf, Sets
      <3>3. CASE r.type = "determinative" /\ rules' = [rules EXCEPT !["ext"] = @ \cup {r}]
        BY <1>3, <3>3 DEF RulesTyped, RulesOf, Sets
      <3> QED
        BY <3>1, <3>2, <3>3 DEF AddHideRule
    <2> QED
      BY <2>1, <2>2, <2>3 DEF HiderStep
  <1> QED
    BY <1>1, <1>2, <1>4 DEF TypeOK, RulesTyped

LEMMA RegistryStepTyped ==
    ASSUME TypeOK, ChangeRegistry
    PROVE  TypeOK'
  <1>1. UNCHANGED <<rules, verdict, hiderOpen, reload>>
    BY DEF ChangeRegistry
  <1>2. content' \in [KeyNames -> Rules \cup {Partial}]
    BY DEF ChangeRegistry, CreateKey, DeleteKey, CompleteKey, TypeOK
  <1>3. keys \in Seq(KeyNames)
    BY DEF TypeOK
  <1>4. PICK k \in KeyNames : CreateKey(k) \/ DeleteKey(k) \/ \E r \in Rules : CompleteKey(k, r)
    BY DEF ChangeRegistry
  <1>5. keys' \in Seq(KeyNames)
    <2>1. CASE CreateKey(k)
      BY <1>3, <2>1, InsertAtTyped DEF CreateKey
    <2>2. CASE DeleteKey(k)
      BY <1>3, <2>2, RemoveAtTyped DEF DeleteKey
    <2>3. CASE \E r \in Rules : CompleteKey(k, r)
      BY <1>3, <2>3 DEF CompleteKey
    <2> QED
      BY <1>4, <2>1, <2>2, <2>3
  <1> QED
    BY <1>1, <1>2, <1>5 DEF TypeOK

LEMMA ReloadStepTyped ==
    ASSUME TypeOK, NEW t \in Reloaders, ReloadStep(t)
    PROVE  TypeOK'
  <1>1. UNCHANGED <<verdict, hiderOpen, keys, content>>
    BY DEF ReloadStep, ReloadClear, ReloadClearExt, OpenRulesKey, QuerySubkey, ReadRule,
           AddPersistentHideRule, ReloadFrame
  <1>2. ReloadTyped /\ RulesTyped /\ RegistryTyped /\ reload[t] \in ReloadType
    BY TypeParts DEF ReloadTyped
  <1>3. \A pc \in ReloadPc \ {"read", "add"} : Fits([reload[t] EXCEPT !.pc = pc])
    BY <1>2, PlaceFits
  <1>4. Fits(NextKey(t))
    <2>1. reload[t].index + 1 \in Nat \ {0}
      BY <1>2 DEF ReloadType
    <2> QED
      BY <1>2, <2>1 DEF Fits, NextKey, ReloadType, ReloadPc
  <1>5. RulesTyped' /\ ReloadTyped'
    <2>1. CASE ReloadClear(t)
      <3>1. Fits([reload[t] EXCEPT !.pc = "clearExt"])
        BY <1>3 DEF ReloadPc
      <3>2. ReloadTyped'
        BY <1>2, <2>1, <3>1, ReloadFits DEF ReloadClear
      <3> QED
        BY <1>2, <2>1, <3>2 DEF ReloadClear, RulesTyped, Sets
    <2>2. CASE ReloadClearExt(t)
      <3>1. Fits([reload[t] EXCEPT !.pc = "open"])
        BY <1>3 DEF ReloadPc
      <3>2. ReloadTyped'
        BY <1>2, <2>2, <3>1, ReloadFits DEF ReloadClearExt
      <3> QED
        BY <1>2, <2>2, <3>2 DEF ReloadClearExt, RulesTyped, Sets
    <2>3. CASE OpenRulesKey(t)
      <3>1. Fits([reload[t] EXCEPT !.pc = "query"])
        BY <1>3 DEF ReloadPc
      <3>2. ReloadTyped'
        BY <1>2, <2>3, <3>1, ReloadFits, StartAndEndFit DEF OpenRulesKey
      <3> QED
        BY <1>2, <2>3, <3>2 DEF OpenRulesKey, RulesTyped
    <2>4. CASE QuerySubkey(t)
      <3>1. UNCHANGED rules
        BY <2>4 DEF QuerySubkey
      <3>2. CASE Reload(t, IdleReload)
        <4>1. ReloadTyped'
          BY <1>2, <3>2, ReloadFits, StartAndEndFit
        <4> QED
          BY <1>2, <3>1, <4>1 DEF RulesTyped
      <3>3. CASE /\ reload[t].index <= Len(keys)
                 /\ Reload(t, [reload[t] EXCEPT !.pc = "read", !.name = keys[reload[t].index]])
        <4>1. reload[t].index \in 1 .. Len(keys)
          BY <1>2, <3>3, LenProperties DEF ReloadType, RegistryTyped
        <4>2. keys[reload[t].index] \in KeyNames
          BY <1>2, <4>1, ElementOfSeq DEF RegistryTyped
        <4>3. Fits([reload[t] EXCEPT !.pc = "read", !.name = keys[reload[t].index]])
          BY <1>2, <4>2 DEF Fits, ReloadType, ReloadPc
        <4>4. ReloadTyped'
          BY <1>2, <3>3, <4>3, ReloadFits
        <4> QED
          BY <1>2, <3>1, <4>4 DEF RulesTyped
      <3> QED
        BY <2>4, <3>2, <3>3 DEF QuerySubkey
    <2>5. CASE ReadRule(t)
      <3> DEFINE found == content[reload[t].name]
      <3>1. UNCHANGED rules /\ reload[t].pc = "read"
        BY <2>5 DEF ReadRule
      <3>2. CASE Reload(t, NextKey(t))
        <4>1. ReloadTyped'
          BY <1>2, <1>4, <3>2, ReloadFits
        <4> QED
          BY <1>2, <3>1, <4>1 DEF RulesTyped
      <3>3. CASE found # Partial /\ Reload(t, [reload[t] EXCEPT !.pc = "add", !.rule = found])
        <4>1. found \in Rules
          BY <1>2, <3>1, <3>3 DEF ReloadTyped, RegistryTyped
        <4> HIDE DEF found
        <4>2. Fits([reload[t] EXCEPT !.pc = "add", !.rule = found])
          BY <1>2, <4>1 DEF Fits, ReloadType, ReloadPc
        <4>3. ReloadTyped'
          BY <1>2, <3>3, <4>2, ReloadFits
        <4> QED
          BY <1>2, <3>1, <4>3 DEF RulesTyped
      <3> QED
        BY <2>5, <3>2, <3>3 DEF ReadRule
    <2>6. CASE AddPersistentHideRule(t)
      <3> DEFINE r == reload[t].rule
      <3>1. ReloadTyped' /\ r \in Rules
        BY <1>2, <1>4, <2>6, ReloadFits DEF AddPersistentHideRule, ReloadTyped
      <3>2. \/ r.type = "default" /\ rules' = [rules EXCEPT !["persistent"] = @ \cup {r}]
            \/ r.type = "determinative" /\ rules' = [rules EXCEPT !["persistentExt"] = @ \cup {r}]
            \/ UNCHANGED rules
        BY <2>6 DEF AddPersistentHideRule
      <3> HIDE DEF r
      <3>3. RulesTyped'
        BY <1>2, <3>1, <3>2 DEF RulesTyped, RulesOf, Sets
      <3> QED
        BY <3>1, <3>3
    <2> QED
      BY <2>1, <2>2, <2>3, <2>4, <2>5, <2>6 DEF ReloadStep
  <1> QED
    BY <1>1, <1>5 DEF TypeOK, RulesTyped, ReloadTyped

LEMMA InitTyped == Init => TypeOK
  <1> SUFFICES ASSUME Init PROVE TypeOK
    OBVIOUS
  <1>1. ReloadTyped
    <2>1. reload = [t \in Reloaders |-> IF t = "register" THEN StartedReload ELSE IdleReload]
      BY DEF Init
    <2>2. \A t \in Reloaders : Fits(reload[t])
      BY <2>1, StartAndEndFit
    <2> QED
      BY <2>1, <2>2 DEF ReloadTyped, Fits
  <1>2. RulesTyped /\ VerdictTyped /\ hiderOpen \in BOOLEAN
    BY DEF Init, RulesTyped, VerdictTyped, VerdictPc
  <1>3. RegistryTyped
    BY HideRulesAssumption DEF Init, RegistryTyped
  <1> QED
    BY <1>1, <1>2, <1>3, TypeParts

LEMMA NextTyped == TypeOK /\ [Next]_vars => TypeOK'
  <1> SUFFICES ASSUME TypeOK, [Next]_vars PROVE TypeOK'
    OBVIOUS
  <1>1. CASE \E d \in Devices : VerdictStep(d)
    BY <1>1, VerdictStepTyped
  <1>2. CASE HiderStep
    BY <1>2, HiderStepTyped
  <1>3. CASE ChangeRegistry
    BY <1>3, RegistryStepTyped
  <1>4. CASE UpdateRegistryParameters
    <2>1. ReloadTyped'
      BY <1>4, TypeParts, ReloadFits, StartAndEndFit DEF UpdateRegistryParameters, Reloaders
    <2> QED
      BY <1>4, <2>1 DEF UpdateRegistryParameters, ReloadFrame, TypeOK, ReloadTyped
  <1>5. CASE \E t \in Reloaders : ReloadStep(t)
    BY <1>5, ReloadStepTyped
  <1>6. CASE UNCHANGED vars
    BY <1>6 DEF vars, TypeOK
  <1> QED
    BY <1>1, <1>2, <1>3, <1>4, <1>5, <1>6 DEF Next

\* The shape of the state, and each set holds rules of its type only, whatever
\* the clients, the other processes and the reloads do.
THEOREM TypeCorrect == Spec => []TypeOK
  BY InitTyped, NextTyped, PTL DEF Spec

-----------------------------------------------------------------------------
(* The verdicts.                                                           *)

LEMMA PassInit == HistoryInit => PassInv
  BY DEF HistoryInit, Init, PassInv, Bracketed, PassAt

LEMMA PassNext == TypeOK /\ PassInv /\ [HistoryNext]_historyVars => PassInv'
  <1> SUFFICES ASSUME TypeOK, PassInv, [HistoryNext]_historyVars PROVE PassInv'
    OBVIOUS
  <1>1. CASE HistoryNext
    BY <1>1, PassStep
  <1>2. CASE UNCHANGED historyVars
    BY <1>2 DEF historyVars, PassInv, Bracketed, PassAt, Hidden, Kept, KeptBy, DefaultsKept,
                SeenHide, SeenKeep, SteadyHide, SteadyKeep
  <1> QED
    BY <1>1, <1>2

\* The history does not change what HideRules may do.
LEMMA HistoryIsHistory == HistorySpec => []TypeOK
  <1>1. HistoryInit => TypeOK
    BY InitTyped DEF HistoryInit
  <1>2. TypeOK /\ [HistoryNext]_historyVars => TypeOK'
    BY NextTyped DEF HistoryNext, historyVars, vars
  <1> QED
    BY <1>1, <1>2, PTL DEF HistorySpec

LEMMA PassInvariant == HistorySpec => []PassInv
  BY HistoryIsHistory, PassInit, PassNext, PTL DEF HistorySpec

\* Whoever changes the rules during the pass, a device is hidden only for a
\* matching hide rule that nothing in force throughout overrules.
THEOREM VerdictsHaveReasons == HistorySpec => []HiddenForAReason
  <1>1. PassInv => HiddenForAReason
    BY DEF PassInv, PassAt, Hidden, HiddenForAReason, Sets
  <1> QED
    BY <1>1, PassInvariant, PTL

\* Whoever changes the rules during the pass, a hide rule in force throughout
\* hides its devices unless a do-not-hide rule was seen.
THEOREM SteadyRulesHide == HistorySpec => []HiddenWhenSteady
  <1>1. PassInv => HiddenWhenSteady
    BY DEF PassInv, PassAt, DefaultsKept, KeptBy, Kept, HiddenWhenSteady, Sets
  <1> QED
    BY <1>1, PassInvariant, PTL

-----------------------------------------------------------------------------
(* The loop of the visitor.                                                *)

\* What the loop knows after a rule.
LoopState == [hide: BOOLEAN, goesOn: BOOLEAN]

\* The values of the loop behind ForEach up to position n.
VisitedUpTo(k, s, list, d, hide, n) ==
    k = [i \in 0 .. n |->
          IF i = 0 THEN [hide |-> hide, goesOn |-> TRUE]
          ELSE IF k[i - 1].goesOn THEN VisitorStep(s, list[i], d, k[i - 1].hide)
          ELSE k[i - 1]]

\* Every rule says hide or not.
LEMMA StepTyped ==
    ASSUME NEW s, NEW r \in Rules, NEW d, NEW hide \in BOOLEAN
    PROVE  VisitorStep(s, r, d, hide) \in LoopState
  <1>1. r.hide \in BOOLEAN
    BY HideRulesAssumption
  <1> QED
    BY <1>1 DEF VisitorStep, LoopState

\* There is such a loop.
LEMMA VisitedExists ==
    ASSUME NEW s, NEW n \in Nat, NEW list, \A i \in 1 .. n : list[i] \in Rules, NEW d,
           NEW hide \in BOOLEAN
    PROVE  \E k : VisitedUpTo(k, s, list, d, hide, n)
  <1> DEFINE Start == [hide |-> hide, goesOn |-> TRUE]
             OneStep(i, v) == IF v.goesOn THEN VisitorStep(s, list[i], d, v.hide) ELSE v
             step == [i \in 1 .. n |-> [v \in LoopState |-> OneStep(i, v)]]
  <1>1. Start \in LoopState
    BY DEF LoopState
  <1>2. \A i \in 1 .. n, v \in LoopState : OneStep(i, v) \in LoopState
    <2> TAKE i \in 1 .. n, v \in LoopState
    <2>1. v.hide \in BOOLEAN
      BY DEF LoopState
    <2> QED
      BY <2>1, StepTyped
  <1> HIDE DEF Start, OneStep
  <1>3. step \in Steps(n, LoopState)
    BY <1>2 DEF Steps
  <1>4. \A i \in 1 .. n, v \in LoopState : step[i][v] = OneStep(i, v)
    OBVIOUS
  <1> HIDE DEF step
  <1>5. PICK f : IsLoop(f, n, LoopState, Start, step)
    BY <1>1, <1>3, LoopExists
  <1>6. /\ f \in [0 .. n -> LoopState] /\ f[0] = Start
        /\ \A i \in 1 .. n : f[i] = step[i][f[i - 1]]
    BY <1>5 DEF IsLoop
  <1>7. \A i \in 1 .. n : f[i] = OneStep(i, f[i - 1])
    BY <1>4, <1>6
  <1>8. f = [i \in 0 .. n |-> IF i = 0 THEN Start ELSE OneStep(i, f[i - 1])]
    BY <1>6, <1>7
  <1> QED
    BY <1>8 DEF VisitedUpTo, Start, OneStep

\* The rules among the first ones that match, and whether all of them hide.
MatchesUpTo(s, list, d, i) == {j \in 1 .. i : Match(s, list[j], d)}

AllHideUpTo(s, list, d, i) == \A j \in MatchesUpTo(s, list, d, i) : list[j].hide

\* The loop goes on as long as all matches hide, and decides only by a match.
LEMMA VisitedFacts ==
    ASSUME NEW s, NEW n \in Nat, NEW list, \A i \in 1 .. n : list[i] \in Rules, NEW d,
           NEW hide \in BOOLEAN, NEW k, VisitedUpTo(k, s, list, d, hide, n)
    PROVE  /\ k[n].hide \in BOOLEAN
           /\ k[n].hide <=> IF MatchesUpTo(s, list, d, n) = {} THEN hide
                            ELSE AllHideUpTo(s, list, d, n)
  <1> DEFINE OneStep(i) == IF k[i - 1].goesOn THEN VisitorStep(s, list[i], d, k[i - 1].hide)
                           ELSE k[i - 1]
             M(i) == MatchesUpTo(s, list, d, i)
             AllHide(i) == AllHideUpTo(s, list, d, i)
             Good(v, i) == /\ v \in LoopState
                           /\ v.goesOn <=> AllHide(i)
                           /\ v.hide <=> IF M(i) = {} THEN hide ELSE AllHide(i)
             S == {i \in 0 .. n : Good(k[i], i)}
  <1>1. k[0] = [hide |-> hide, goesOn |-> TRUE]
    BY DEF VisitedUpTo
  <1>2. \A i \in 1 .. n : k[i] = OneStep(i)
    <2>1. k = [i \in 0 .. n |-> IF i = 0 THEN [hide |-> hide, goesOn |-> TRUE] ELSE OneStep(i)]
      BY DEF VisitedUpTo
    <2> HIDE DEF OneStep
    <2> QED
      BY <2>1
  <1>3. 0 \in S
    <2>1. M(0) = {} /\ AllHide(0)
      BY DEF MatchesUpTo, AllHideUpTo
    <2>2. k[0] \in LoopState /\ k[0].goesOn = TRUE /\ k[0].hide = hide
      BY <1>1 DEF LoopState
    <2> HIDE DEF M, AllHide
    <2> QED
      BY <2>1, <2>2
  <1>4. ASSUME NEW i \in 1 .. n, Good(k[i - 1], i - 1) PROVE Good(k[i], i)
    <2> DEFINE v == k[i - 1]
               r == list[i]
    <2>1. r \in Rules /\ r.hide \in BOOLEAN
      BY HideRulesAssumption
    <2>2. M(i) = IF Match(s, r, d) THEN M(i - 1) \cup {i} ELSE M(i - 1)
      BY DEF MatchesUpTo
    <2>3. AllHide(i) <=> AllHide(i - 1) /\ (Match(s, r, d) => r.hide)
      BY <2>2 DEF AllHideUpTo
    <2>4. v \in LoopState /\ v.hide \in BOOLEAN /\ v.goesOn \in BOOLEAN
      BY <1>4 DEF LoopState
    <2>5. k[i] = IF v.goesOn THEN VisitorStep(s, r, d, v.hide) ELSE v
      BY <1>2
    <2>6. CASE ~v.goesOn
      <3>1. k[i] = v /\ ~AllHide(i - 1) /\ ~AllHide(i)
        BY <1>4, <2>3, <2>5, <2>6
      <3>2. M(i - 1) # {} /\ M(i) # {}
        BY <3>1 DEF AllHideUpTo
      <3> HIDE DEF M, AllHide
      <3> QED
        BY <1>4, <3>1, <3>2
    <2>7. CASE v.goesOn /\ Match(s, r, d)
      <3>1. k[i] = [hide |-> r.hide, goesOn |-> r.hide]
        BY <2>5, <2>7 DEF VisitorStep
      <3>2. k[i] \in LoopState /\ k[i].hide = r.hide /\ k[i].goesOn = r.hide
        BY <2>1, <3>1 DEF LoopState
      <3>3. M(i) # {} /\ (AllHide(i) <=> r.hide)
        BY <1>4, <2>2, <2>3, <2>7
      <3> HIDE DEF M, AllHide
      <3> QED
        BY <3>2, <3>3
    <2>8. CASE v.goesOn /\ ~Match(s, r, d)
      <3>1. k[i] = [hide |-> v.hide, goesOn |-> TRUE]
        BY <2>5, <2>8 DEF VisitorStep
      <3>2. k[i] \in LoopState /\ k[i].hide = v.hide /\ k[i].goesOn = TRUE
        BY <2>4, <3>1 DEF LoopState
      <3>3. M(i) = M(i - 1) /\ (AllHide(i) <=> AllHide(i - 1))
        BY <2>2, <2>3, <2>8
      <3> HIDE DEF M, AllHide
      <3> QED
        BY <1>4, <2>8, <3>2, <3>3
    <2> QED
      BY <2>4, <2>6, <2>7, <2>8
  <1> HIDE DEF Good
  <1>5. \A i \in 1 .. n : i - 1 \in S => i \in S
    BY <1>4
  <1>6. n \in S
    <2> HIDE DEF S
    <2>1. \A i \in 0 .. n : i \in S
      BY <1>3, <1>5, LoopInvariant
    <2> QED
      BY <2>1
  <1> QED
    BY <1>6 DEF Good, LoopState

\* A list of a finite set names every element.
LEMMA ListOfAll ==
    ASSUME NEW S, IsFiniteSet(S), NEW list \in SetToSeqs(S)
    PROVE  /\ Cardinality(S) \in Nat /\ Len(list) = Cardinality(S)
           /\ S = {list[i] : i \in 1 .. Len(list)}
  <1> DEFINE n == Cardinality(S)
  <1>1. n \in Nat
    BY FS_CardinalityType
  <1>2. list \in [1 .. n -> S] /\ \A i, j \in 1 .. n : i # j => list[i] # list[j]
    BY DEF SetToSeqs
  <1> HIDE DEF n
  <1>3. list \in Injection(1 .. n, S)
    BY <1>2 DEF Injection, IsInjective
  <1>4. Cardinality(1 .. n) = n
    <2>1. 1 \in Int /\ n \in Int
      BY <1>1
    <2>2. Cardinality(1 .. n) = IF 1 > n THEN 0 ELSE n - 1 + 1
      BY <2>1, FS_Interval
    <2> QED
      BY <1>1, <2>2
  <1>5. Cardinality(1 .. n) = Cardinality(S)
    BY <1>4 DEF n
  <1>6. list \in Surjection(1 .. n, S)
    BY <1>3, <1>5, FS_Injection
  <1>7. Len(list) = n
    BY <1>1, <1>2
  <1> QED
    BY <1>1, <1>2, <1>6, <1>7 DEF Surjection, n

\* The loop over a finite set of rules comes to what Visit says, in any order.
LEMMA ForEachIsVisit ==
    ASSUME TypeOK, NEW s \in Sets, IsFiniteSet(rules[s]), NEW d, NEW hide \in BOOLEAN,
           NEW list \in SetToSeqs(rules[s])
    PROVE  ForEach(s, list, d, hide) = Visit(s, d, hide)
  <1> DEFINE n == Len(list)
             k == CHOOSE f : VisitedUpTo(f, s, list, d, hide, n)
  <1>1. n \in Nat /\ rules[s] = {list[i] : i \in 1 .. n}
    BY ListOfAll
  <1>2. \A i \in 1 .. n : list[i] \in Rules
    BY <1>1 DEF TypeOK
  <1>3. ForEach(s, list, d, hide) = k[n].hide
    BY DEF ForEach, VisitedUpTo
  <1> HIDE DEF n
  <1>4. VisitedUpTo(k, s, list, d, hide, n)
    <2>1. \E f : VisitedUpTo(f, s, list, d, hide, n)
      BY <1>1, <1>2, VisitedExists
    <2> QED
      BY <2>1
  <1> HIDE DEF k
  <1>5. /\ k[n].hide \in BOOLEAN
        /\ k[n].hide <=> IF MatchesUpTo(s, list, d, n) = {} THEN hide
                         ELSE AllHideUpTo(s, list, d, n)
    BY <1>1, <1>2, <1>4, VisitedFacts
  <1>6. Hits(s, d) = {list[j] : j \in MatchesUpTo(s, list, d, n)}
    BY <1>1 DEF Hits, MatchesUpTo
  <1>7. /\ Hits(s, d) = {} <=> MatchesUpTo(s, list, d, n) = {}
        /\ (\A r \in Hits(s, d) : r.hide) <=> AllHideUpTo(s, list, d, n)
    BY <1>6 DEF AllHideUpTo
  <1>8. Visit(s, d, hide) \in BOOLEAN
    BY DEF Visit
  <1>9. Visit(s, d, hide) <=> IF MatchesUpTo(s, list, d, n) = {} THEN hide
                              ELSE AllHideUpTo(s, list, d, n)
    BY <1>7 DEF Visit
  <1> QED
    BY <1>3, <1>5, <1>8, <1>9

\* The sets of rules are finite: they start empty and grow by one rule at a time.
FiniteRules == \A s \in Sets : IsFiniteSet(rules[s])

\* At first they are empty.
LEMMA FiniteInit == Init => FiniteRules
  BY FS_EmptySet DEF Init, FiniteRules

\* A step adds one rule to a set or empties it.
LEMMA FiniteNext == TypeOK /\ FiniteRules /\ [Next]_vars => FiniteRules'
  <1> SUFFICES ASSUME TypeOK, FiniteRules, [Next]_vars PROVE FiniteRules'
    OBVIOUS
  <1> DEFINE Grows == \E s \in Sets, r \in Rules : rules' = [rules EXCEPT ![s] = rules[s] \cup {r}]
             Emptied == \E s \in Sets : rules' = [rules EXCEPT ![s] = {}]
  <1>1. \A s \in Sets, r \in Rules : IsFiniteSet(rules[s] \cup {r}) /\ IsFiniteSet({})
    BY FS_AddElement, FS_EmptySet DEF FiniteRules
  <1>2. CASE Grows
    <2>1. PICK s \in Sets, r \in Rules : rules' = [rules EXCEPT ![s] = rules[s] \cup {r}]
      BY <1>2
    <2>2. \A u \in Sets : rules'[u] = rules[u] \/ rules'[u] = rules[s] \cup {r}
      BY <2>1 DEF TypeOK
    <2> QED
      BY <1>1, <2>2 DEF FiniteRules
  <1>3. CASE Emptied
    <2>1. \A u \in Sets : rules'[u] = rules[u] \/ rules'[u] = {}
      BY <1>3 DEF TypeOK
    <2> QED
      BY <2>1, FS_EmptySet DEF FiniteRules
  <1>4. CASE UNCHANGED rules
    BY <1>4 DEF FiniteRules
  <1>5. ASSUME HiderStep PROVE Grows \/ Emptied \/ UNCHANGED rules
    BY <1>5 DEF HiderStep, OpenHider, ClearByClient, CloseHider, ClearHideRules, AddHideRule, Sets
  <1>6. ASSUME NEW t \in Reloaders, ReloadStep(t) PROVE Grows \/ Emptied \/ UNCHANGED rules
    BY <1>6 DEF ReloadStep, ReloadClear, ReloadClearExt, OpenRulesKey, QuerySubkey, ReadRule,
       AddPersistentHideRule, Sets, TypeOK
  <1>7. ASSUME NEW d \in Devices, VerdictStep(d) PROVE UNCHANGED rules
    BY <1>7 DEF VerdictStep, ShouldHideDevice, VisitSet, ReturnVerdict
  <1> HIDE DEF Grows, Emptied
  <1> QED
    BY <1>2, <1>3, <1>4, <1>5, <1>6, <1>7
       DEF Next, ChangeRegistry, UpdateRegistryParameters, vars

\* The verdict of a set of rules does not depend on the order in which they were
\* added: the loop of HideVisitor, which stops at the first matching rule that
\* does not hide, comes to what Visit says, however many rules there are.
THEOREM OrderDoesNotMatter == Spec => []VisitIsForEach
  <1>1. Init => FiniteRules
    BY FiniteInit
  <1>2. TypeOK /\ FiniteRules /\ [Next]_vars => FiniteRules'
    BY FiniteNext
  <1>3. TypeOK /\ FiniteRules => VisitIsForEach
    BY ForEachIsVisit DEF VisitIsForEach, FiniteRules
  <1> QED
    BY <1>1, <1>2, <1>3, TypeCorrect, PTL DEF Spec
=============================================================================
