---------------------------- MODULE HideRulesHistory ----------------------------
(***************************************************************************)
(* HideRules with two history variables per device: the rules that were in *)
(* force at some time, and all the time, since ShouldHideDevice began to   *)
(* look at the sets. They say what a verdict may depend on although the    *)
(* four sets are not read at one time.                                     *)
(***************************************************************************)
EXTENDS HideRules

VARIABLES seen, steady

historyVars == <<rules, verdict, hiderOpen, keys, content, reload, seen, steady>>

NoRules == [s \in Sets |-> {}]

HistoryInit ==
    /\ Init
    /\ seen = [d \in Devices |-> NoRules]
    /\ steady = [d \in Devices |-> NoRules]

Record ==
    /\ seen' = [d \in Devices |->
          IF verdict'[d].pc = "idle" THEN NoRules
          ELSE IF verdict[d].pc = "idle" THEN rules'
          ELSE IF verdict[d].pc = "done" THEN seen[d]
          ELSE [s \in Sets |-> seen[d][s] \cup rules'[s]]]
    /\ steady' = [d \in Devices |->
          IF verdict'[d].pc = "idle" THEN NoRules
          ELSE IF verdict[d].pc = "idle" THEN rules'
          ELSE IF verdict[d].pc = "done" THEN steady[d]
          ELSE [s \in Sets |-> steady[d][s] \cap rules'[s]]]

HistoryNext == Next /\ Record

HistorySpec == HistoryInit /\ [][HistoryNext]_historyVars

-----------------------------------------------------------------------------
\* A matching rule that hides, or does not, was in force during the pass.
SeenHide(d, s) == \E r \in seen[d][s] : Match(s, r, d) /\ r.hide
SeenKeep(d, s) == \E r \in seen[d][s] : Match(s, r, d) /\ ~r.hide

\* A matching rule that hides, or does not, was in force all the time.
SteadyHide(d, s) == \E r \in steady[d][s] : Match(s, r, d) /\ r.hide
SteadyKeep(d, s) == \E r \in steady[d][s] : Match(s, r, d) /\ ~r.hide

\* A device is hidden only for a reason: a matching hide rule was in force in a
\* set that had no matching do-not-hide rule throughout; the dynamic rules are
\* overruled by the persistent ones as well, the extended ones likewise.
HiddenForAReason ==
    \A d \in Devices : verdict[d].pc = "done" /\ verdict[d].hide =>
        \E s \in Sets :
            /\ SeenHide(d, s) /\ ~SteadyKeep(d, s)
            /\ s = "dynamic" => ~SteadyKeep(d, "persistent")
            /\ s = "ext" => ~SteadyKeep(d, "persistentExt")

\* A device that a hide rule matched all the time is hidden, unless a matching
\* do-not-hide rule of some set was in force at some time. Which of two sets has
\* the last word is left open: by Hider.txt a do-not-hide rule is terminal.
HiddenWhenSteady ==
    \A d \in Devices : verdict[d].pc = "done" /\ ~verdict[d].hide =>
        ((\E s \in Sets : SteadyHide(d, s)) => \E s \in Sets : SeenKeep(d, s))

\* Hider.txt and CUsbDkHideRule::ForceDecision: a do-not-hide rule is terminal. A
\* device that matches one in the set that is visited first, all the time, is not
\* hidden. The code does not keep this promise: ForceDecision ends the visit of
\* its own set only, and a hide rule of the next set has the last word.
DoNotHideIsTerminal ==
    \A d \in Devices : verdict[d].pc = "done" /\ verdict[d].hide => ~SteadyKeep(d, "dynamic")
=============================================================================
