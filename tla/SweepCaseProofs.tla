--------------------------- MODULE SweepCaseProofs ---------------------------
(***************************************************************************)
(* One case of a sweep, against any engine and on any number of trials:    *)
(* nothing is found in an engine nothing is wrong with, and whatever is    *)
(* wrong with one is found.                                                *)
(***************************************************************************)
EXTENDS SweepRun, SequenceTheorems, FiniteSetTheorems, TLAPS

-----------------------------------------------------------------------------
(* One case of a sweep, against any engine.                                *)

\* A limit, or a usage, of each kind.
Amounts == [Kinds -> Nat]

\* What a call says that does not answer.
Refusals == {"resource", "badinput"}

\* What any engine gives the harness: bounds or none of them, needs, and
\* answers that are not refusals.
EngineRight ==
  /\ Len(engine.trials) \in Nat /\ engine.maxlen \in Nat
  /\ engine.bound[engine.maxlen]["mem"] \in {None} \cup Nat
  /\ \A i \in Trials :
       /\ Trial(i).len \in Nat
       /\ \A k \in Kinds : /\ engine.bound[Trial(i).len][k] \in {None} \cup Nat
                           /\ engine.btbound[Trial(i).len][k] \in {None} \cup Nat
       /\ Trial(i).need \in Amounts /\ Trial(i).btneed \in Amounts /\ Trial(i).ctxneed \in Amounts
       /\ Trial(i).answer \notin Refusals /\ Trial(i).btanswer \notin Refusals
       /\ Trial(i).ctxanswer \notin Refusals

\* The runs of a trial, at its certificate of either matcher.
Paths == {"match", "bt_match"}
BoundOf(path, i) == (IF path = "match" THEN engine.bound ELSE engine.btbound)[Trial(i).len]
Ran(path, i) == Run(path, i, LimitsFor(BoundOf(path, i)))

AnyStep == (CaseStep \/ ReduceStep \/ PoolStep \/ LoopStep) /\ UNCHANGED about

AnyCase == about = "case" /\ EngineRight /\ budget \in Amounts /\ Begin(engine, budget)

\* An honest engine, under a memory budget no smaller than the cost one.
Fair == Honest /\ budget["mem"] >= budget["cost"]

Rows == [outcome : {"resource"} \cup {Trial(i).answer : i \in Trials},
         used : Amounts, edges : BOOLEAN]

\* Where the harness is, and the rows it has by then.
StageRight ==
  /\ stage \in {"compile", "believes", "class", "trials", "context", "calls", "done"}
  /\ at \in Nat \ {0}
  /\ rows \in Seq(Rows)
  /\ stage \in {"compile", "believes", "class"} => rows = <<>> /\ at = 1
  /\ stage = "trials" => Len(rows) = at - 1 /\ Len(rows) <= Len(engine.trials)
  /\ stage = "context" => at = 1
  /\ stage \in {"context", "calls"} => Len(rows) = Len(engine.trials)

\* A row that is not a refusal is the answer, and the budget covers what it took.
RowsRight ==
  \A i \in 1..Len(rows) :
    /\ i \in Trials
    /\ rows[i].outcome # "resource" => /\ rows[i].outcome = Trial(i).answer
                                       /\ \A k \in Kinds : Trial(i).need[k] <= budget[k]

HeldRight == stage = "calls" => held.reports = held.reserved /\ held.cap = CreationLimits

NoneCapped == engine.pike => \A i \in Trials : ~ Capped(i)

CaseTypes == EngineRight /\ budget \in Amounts
CaseRight == RowsRight /\ HeldRight /\ (NoneCapped => findings = {})

CaseInv == about = "case" => CaseTypes /\ StageRight /\ (Fair => CaseRight)

\* The limits of a run are amounts within the budget, and cover what a bound
\* that is right and is inside the budget covers.
LEMMA LimitsAre ==
  ASSUME budget \in Amounts, NEW bound, \A k \in Kinds : bound[k] \in {None} \cup Nat
  PROVE  /\ LimitsFor(bound) \in Amounts
         /\ \A k \in Kinds : LimitsFor(bound)[k] <= budget[k]
         /\ Sufficient(bound) => \A k \in Kinds : LimitsFor(bound)[k] = bound[k]
<1>1. \A k \in Kinds : budget[k] \in Nat
  BY DEF Amounts
<1>2. ASSUME NEW k \in Kinds
      PROVE  /\ LimitsFor(bound)[k] \in Nat /\ LimitsFor(bound)[k] <= budget[k]
             /\ bound[k] # None /\ bound[k] <= budget[k] => LimitsFor(bound)[k] = bound[k]
  BY <1>1 DEF LimitsFor, Lesser, None
<1>3. LimitsFor(bound) = [k \in Kinds |-> LimitsFor(bound)[k]]
  BY DEF LimitsFor
<1>4. QED BY <1>2, <1>3 DEF Sufficient, Amounts

\* A run within limits of the engine's comparisons is the answer, at what it
\* needs; any other is a refusal.
LEMMA RunEnds ==
  ASSUME NEW path, NEW i, NEW limits \in Amounts, Need(path, i) \in Amounts
  PROVE  /\ (\A k \in Kinds : Allows(path, k, limits[k], Need(path, i)[k]))
              => Run(path, i, limits) = [outcome |-> Says(path, i), used |-> Need(path, i)]
         /\ ~(\A k \in Kinds : Allows(path, k, limits[k], Need(path, i)[k]))
              => /\ Run(path, i, limits).outcome = "resource"
                 /\ Run(path, i, limits).used \in Amounts
<1> DEFINE need == Need(path, i)
           allowed(k) == Allows(path, k, limits[k], need[k])
<1>1. \A k \in Kinds : limits[k] \in Nat /\ need[k] \in Nat
  BY DEF Amounts
<1>2. ~ \E k \in Kinds : limits[k] < 0
  BY <1>1
<1> HIDE DEF need, allowed
<1>3. CASE \A k \in Kinds : allowed(k)
  <2>1. Run(path, i, limits) = [outcome |-> Says(path, i), used |-> need]
    BY <1>2, <1>3 DEF Run, need, allowed
  <2>2. QED BY <1>3, <2>1 DEF need, allowed
<1>4. CASE ~(\A k \in Kinds : allowed(k))
  <2>1. Run(path, i, limits) = [outcome |-> "resource", used |-> [k \in Kinds |-> Lesser(limits[k], need[k])]]
    BY <1>2, <1>4 DEF Run, need, allowed
  <2>2. \A k \in Kinds : Lesser(limits[k], need[k]) \in Nat
    BY <1>1 DEF Lesser
  <2>3. QED BY <1>4, <2>1, <2>2 DEF need, allowed, Amounts
<1>5. QED BY <1>3, <1>4

\* Without a fault a comparison allows exactly what the limit covers.
LEMMA RunIs ==
  ASSUME engine.fault = NoFault, NEW path, NEW i, NEW limits \in Amounts, Need(path, i) \in Amounts
  PROVE  /\ (\A k \in Kinds : Need(path, i)[k] <= limits[k])
              => Run(path, i, limits) = [outcome |-> Says(path, i), used |-> Need(path, i)]
         /\ ~(\A k \in Kinds : Need(path, i)[k] <= limits[k])
              => /\ Run(path, i, limits).outcome = "resource"
                 /\ Run(path, i, limits).used \in Amounts
<1>1. \A k \in Kinds : limits[k] \in Nat /\ Need(path, i)[k] \in Nat
  BY DEF Amounts
<1>2. \A k \in Kinds : Allows(path, k, limits[k], Need(path, i)[k]) <=> Need(path, i)[k] <= limits[k]
  BY <1>1 DEF Allows, NoFault
<1>3. QED BY <1>2, RunEnds

\* No edge of an honest run is a finding.
LEMMA EdgeClear ==
  ASSUME engine.fault = NoFault, NEW path, NEW i, NEW limits \in Amounts, Need(path, i) \in Amounts,
         \A k \in Kinds : Need(path, i)[k] <= limits[k], Says(path, i) # "resource"
  PROVE  Edge(path, i, limits, Run(path, i, limits)) = {}
<1> DEFINE need == Need(path, i)
           got == Run(path, i, limits)
<1>1. got = [outcome |-> Says(path, i), used |-> need]
  BY RunIs
<1>2. \A k \in Kinds : limits[k] \in Nat /\ need[k] \in Nat /\ need[k] <= limits[k]
  BY DEF Amounts
<1>3. ASSUME NEW k \in Kinds
      PROVE  Run(path, i, [limits EXCEPT ![k] = got.used[k]]).outcome = got.outcome
  <2> DEFINE at_ == [limits EXCEPT ![k] = got.used[k]]
  <2>1. at_ \in Amounts /\ \A j \in Kinds : need[j] <= at_[j]
    BY <1>1, <1>2 DEF Amounts
  <2> HIDE DEF at_
  <2>2. Run(path, i, at_) = [outcome |-> Says(path, i), used |-> Need(path, i)]
    BY <2>1, RunIs
  <2>3. QED BY <1>1, <2>2 DEF at_
<1>4. ASSUME NEW k \in Kinds, got.used[k] # 0
      PROVE  Run(path, i, [limits EXCEPT ![k] = got.used[k] - 1]).outcome = "resource"
  <2> DEFINE below == [limits EXCEPT ![k] = got.used[k] - 1]
  <2>1. below \in Amounts /\ ~(need[k] <= below[k])
    BY <1>1, <1>2, <1>4 DEF Amounts
  <2> HIDE DEF below
  <2>2. Run(path, i, below).outcome = "resource"
    BY <2>1, RunIs
  <2>3. QED BY <2>2 DEF below
<1> HIDE DEF got
<1>5. QED BY <1>3, <1>4 DEF Edge, FailureIf, got


\* What a step that keeps the engine and the budget keeps.
LEMMA SameCase ==
  ASSUME UNCHANGED <<engine, budget>>
  PROVE  (CaseTypes' <=> CaseTypes) /\ (Fair' <=> Fair) /\ Rows' = Rows /\ Trials' = Trials
BY DEF CaseTypes, EngineRight, Amounts, Fair, Honest, Rows, Trials, Trial

\* What an engine of any kind does at its certificate.
LEMMA RanTyped ==
  ASSUME CaseTypes, NEW i \in Trials, NEW path \in Paths
  PROVE  /\ LimitsFor(BoundOf(path, i)) \in Amounts
         /\ Need(path, i) \in Amounts
         /\ Says(path, i) \notin Refusals
         /\ Ran(path, i).used \in Amounts
         /\ \/ Ran(path, i).outcome = "resource"
            \/ Ran(path, i) = [outcome |-> Says(path, i), used |-> Need(path, i)]
<1>1. \A k \in Kinds : BoundOf(path, i)[k] \in {None} \cup Nat
  BY DEF CaseTypes, EngineRight, BoundOf
<1>2. LimitsFor(BoundOf(path, i)) \in Amounts
  BY <1>1, LimitsAre DEF CaseTypes
<1>3. Need(path, i) \in Amounts /\ Says(path, i) \notin Refusals
  BY DEF CaseTypes, EngineRight, Refusals, Need, Says
<1>4. QED BY <1>2, <1>3, RunEnds DEF Ran

\* The row of a trial.
LEMMA OneTrialRow ==
  ASSUME CaseTypes, OneTrial, at \in Trials
  PROVE  \E wanted \in BOOLEAN :
            LET row == [outcome |-> Ran("match", at).outcome, used |-> Ran("match", at).used,
                        edges |-> wanted]
            IN rows' = Append(rows, row) /\ row \in Rows
<1> DEFINE got == Ran("match", at)
<1>1. PICK wanted \in BOOLEAN :
         rows' = Append(rows, [outcome |-> got.outcome, used |-> got.used, edges |-> wanted])
  BY DEF OneTrial, Ran, BoundOf
<1>2. got.used \in Amounts /\ got.outcome \in {"resource", Trial(at).answer}
  BY RanTyped DEF Refusals, Paths, Says
<1>3. QED BY <1>1, <1>2 DEF Rows

\* Every step keeps the harness where it says it is.
LEMMA StageKeeps ==
  ASSUME CaseTypes, StageRight, Next
  PROVE  StageRight' /\ UNCHANGED <<engine, budget>>
<1>1. UNCHANGED <<engine, budget>>
  BY DEF Next, Compile, Believes, Class, OneTrial, TrialsDone, Context, ContextCall, CallEdges, Crashes
<1>2. Rows' = Rows
  BY <1>1, SameCase
<1>3. Len(engine.trials) \in Nat /\ Len(<<>>) = 0 /\ <<>> \in Seq(Rows)
  BY DEF CaseTypes, EngineRight
<1>4. CASE OneTrial
  <2>1. /\ stage = "trials" /\ at <= Len(engine.trials) /\ at' = at + 1 /\ UNCHANGED stage
    BY <1>4 DEF OneTrial
  <2>2. at \in Trials /\ at \in Nat \ {0}
    BY <1>3, <2>1 DEF StageRight, Trials
  <2>3. PICK row \in Rows : rows' = Append(rows, row)
    BY <1>4, <2>2, OneTrialRow
  <2>4. rows' \in Seq(Rows) /\ Len(rows') = at
    BY <2>1, <2>2, <2>3 DEF StageRight
  <2>5. QED BY <1>1, <1>2, <1>3, <2>1, <2>2, <2>4 DEF StageRight
<1>5. CASE TrialsDone
  BY <1>1, <1>2, <1>3, <1>5 DEF TrialsDone, StageRight
<1>6. CASE Compile \/ Believes \/ Class
  <2>1. /\ stage \in {"compile", "believes", "class"} /\ UNCHANGED <<at, rows>>
        /\ stage' \in {"believes", "class", "trials", "done"}
    BY <1>6 DEF Compile, Believes, Class
  <2>2. QED BY <1>1, <1>2, <1>3, <2>1 DEF StageRight
<1>7. CASE Context \/ ContextCall \/ CallEdges
  <2>1. /\ stage \in {"context", "calls"} /\ at' \in {at, at + 1} /\ UNCHANGED rows
        /\ stage' \in {"calls", "done"}
    BY <1>7 DEF Context, ContextCall, CallEdges
  <2>2. at' \in Nat \ {0}
    BY <2>1 DEF StageRight
  <2>3. QED BY <1>1, <1>2, <1>3, <2>1, <2>2 DEF StageRight
<1>8. CASE Crashes("believes") \/ Crashes("bounds")
  BY <1>1, <1>2, <1>3, <1>8 DEF Crashes, StageRight
<1>9. QED BY <1>1, <1>4, <1>5, <1>6, <1>7, <1>8 DEF Next

\* A run at a trial's certificate is a refusal the certificate did not promise
\* against, or it is the answer, with usage inside the certificate and the
\* budget and no finding at its edges.
LEMMA PathRuns ==
  ASSUME CaseTypes, Fair, NEW i \in Trials, NEW path \in {"match", "bt_match"},
         NEW bound, bound = (IF path = "match" THEN engine.bound ELSE engine.btbound)[Trial(i).len]
  PROVE  LET limits == LimitsFor(bound)
             got    == Run(path, i, limits)
         IN \/ /\ got.outcome = "resource" /\ got.used \in Amounts /\ ~ Sufficient(bound)
            \/ /\ got = [outcome |-> Trial(i).answer, used |-> Need(path, i)]
               /\ Trial(i).answer # "resource"
               /\ Need(path, i) \in Amounts
               /\ \A k \in Kinds : Need(path, i)[k] <= budget[k]
               /\ Fits(bound, got.used, i) = {} /\ Edge(path, i, limits, got) = {}
<1> DEFINE limits == LimitsFor(bound)
           got    == Run(path, i, limits)
<1>1. /\ engine.fault = NoFault
      /\ Need(path, i) \in Amounts
      /\ Says(path, i) = Trial(i).answer /\ Trial(i).answer # "resource"
  BY DEF CaseTypes, EngineRight, Refusals, Fair, Honest, Need, Says
<1>2. \A k \in Kinds : bound[k] \in {None} \cup Nat
  BY DEF CaseTypes, EngineRight
<1>3. \A k \in Kinds : bound[k] = None \/ Need(path, i)[k] <= bound[k]
  BY DEF Fair, Honest, Covers, Need
<1>4. /\ limits \in Amounts
      /\ \A k \in Kinds : limits[k] <= budget[k]
      /\ Sufficient(bound) => \A k \in Kinds : limits[k] = bound[k]
  BY <1>2, LimitsAre DEF CaseTypes
<1>5. \A k \in Kinds : limits[k] \in Nat /\ Need(path, i)[k] \in Nat /\ budget[k] \in Nat
  BY <1>1, <1>4 DEF Amounts, CaseTypes
<1> HIDE DEF limits
<1>6. CASE \A k \in Kinds : Need(path, i)[k] <= limits[k]
  <2>1. got = [outcome |-> Says(path, i), used |-> Need(path, i)]
    BY <1>1, <1>4, <1>6, RunIs
  <2>2. Edge(path, i, limits, got) = {}
    BY <1>1, <1>4, <1>6, EdgeClear
  <2>3. Fits(bound, got.used, i) = {}
    BY <1>2, <1>3, <1>5, <2>1 DEF Fits, FailureIf
  <2>4. \A k \in Kinds : Need(path, i)[k] <= budget[k]
    BY <1>4, <1>5, <1>6
  <2>5. QED BY <1>1, <2>1, <2>2, <2>3, <2>4 DEF limits
<1>7. CASE ~(\A k \in Kinds : Need(path, i)[k] <= limits[k])
  <2>1. got.outcome = "resource" /\ got.used \in Amounts
    BY <1>1, <1>4, <1>7, RunIs
  <2>2. ~ Sufficient(bound)
    BY <1>2, <1>3, <1>4, <1>5, <1>7 DEF Sufficient
  <2>3. QED BY <2>1, <2>2 DEF limits
<1>8. QED BY <1>6, <1>7

\* The questions about the program find nothing.
LEMMA CompileKeeps ==
  ASSUME CaseTypes, StageRight, Fair, CaseRight, Compile
  PROVE  CaseRight'
<1>1. findings' = {}
  BY DEF Compile, Fair, Honest, FailureIf
<1>2. stage' \in {"believes", "done"} /\ rows' = <<>>
  BY DEF Compile, StageRight
<1>3. QED BY <1>1, <1>2 DEF CaseRight, RowsRight, HeldRight

LEMMA BelievesKeeps ==
  ASSUME CaseTypes, StageRight, Fair, CaseRight, Believes
  PROVE  CaseRight'
<1>1. findings' = findings
  BY DEF Believes, Fair, Honest, Sound, FailureIf
<1>2. stage' = "class" /\ UNCHANGED <<engine, rows>> /\ rows = <<>>
  BY DEF Believes, StageRight
<1>3. NoneCapped' => NoneCapped
  BY <1>2 DEF NoneCapped, Trials, Capped
<1>4. QED BY <1>1, <1>2, <1>3 DEF CaseRight, RowsRight, HeldRight

LEMMA ClassKeeps ==
  ASSUME CaseTypes, StageRight, Fair, CaseRight, Class
  PROVE  CaseRight'
<1>1. findings' = findings
  BY DEF Class, Fair, Honest, NoFault, FailureIf
<1>2. stage' = "trials" /\ UNCHANGED <<engine, rows>> /\ rows = <<>>
  BY DEF Class, StageRight
<1>3. NoneCapped' => NoneCapped
  BY <1>2 DEF NoneCapped, Trials, Capped
<1>4. QED BY <1>1, <1>2, <1>3 DEF CaseRight, RowsRight, HeldRight

LEMMA TrialsDoneKeeps ==
  ASSUME CaseTypes, StageRight, Fair, CaseRight, TrialsDone
  PROVE  CaseRight'
<1>1. stage' = "context" /\ UNCHANGED <<engine, budget, rows, findings>>
  BY DEF TrialsDone
<1>2. RowsRight' /\ HeldRight'
  BY <1>1 DEF RowsRight, HeldRight, CaseRight, Trials, Trial
<1>3. NoneCapped' => NoneCapped
  BY <1>1 DEF NoneCapped, Trials, Capped
<1>4. QED BY <1>1, <1>2, <1>3 DEF CaseRight

\* A trial of an honest engine finds nothing, unless the budget capped the run
\* the other matcher's is compared with.
LEMMA TrialClear ==
  ASSUME CaseTypes, Fair, OneTrial, at \in Trials
  PROVE  /\ \/ \E used \in Amounts, wanted \in BOOLEAN :
                  rows' = Append(rows, [outcome |-> "resource", used |-> used, edges |-> wanted])
            \/ \E wanted \in BOOLEAN :
                  /\ rows' = Append(rows, [outcome |-> Trial(at).answer, used |-> Trial(at).need,
                                           edges |-> wanted])
                  /\ Trial(at).need \in Amounts
                  /\ \A k \in Kinds : Trial(at).need[k] <= budget[k]
                  /\ findings' = findings
         /\ ~ engine.pike => findings' = findings
<1> DEFINE bound   == engine.bound[Trial(at).len]
           limits  == LimitsFor(bound)
           got     == Run("match", at, limits)
           btbound == engine.btbound[Trial(at).len]
           again   == Run("bt_match", at, LimitsFor(btbound))
           ended   == got.outcome # "resource"
           wanted  == ended /\ Wanted(got.used)
           other   == IF engine.pike THEN Cross(at, got, wanted) ELSE {}
           own     == IF ended
                      THEN FailureIf(engine.oracle /\ got.outcome # Trial(at).pcre2, "match", at)
                             \cup Fits(bound, got.used, at)
                             \cup (IF wanted THEN Edge("match", at, limits, got) ELSE {})
                      ELSE FailureIf(Sufficient(bound), "bound", at)
<1>1. /\ findings' = findings \cup own \cup other
      /\ rows' = Append(rows, [outcome |-> got.outcome, used |-> got.used, edges |-> wanted])
  BY DEF OneTrial
<1>2. wanted \in BOOLEAN
  OBVIOUS
<1>3. \/ /\ got.outcome = "resource" /\ got.used \in Amounts /\ ~ Sufficient(bound)
      \/ /\ got = [outcome |-> Trial(at).answer, used |-> Need("match", at)]
         /\ Trial(at).answer # "resource"
         /\ Need("match", at) \in Amounts
         /\ \A k \in Kinds : Need("match", at)[k] <= budget[k]
         /\ Fits(bound, got.used, at) = {} /\ Edge("match", at, limits, got) = {}
  BY PathRuns
<1>4. \/ again.outcome = "resource" /\ ~ Sufficient(btbound)
      \/ /\ again.outcome = Trial(at).answer /\ Trial(at).answer # "resource"
         /\ Fits(btbound, again.used, at) = {}
         /\ Edge("bt_match", at, LimitsFor(btbound), again) = {}
  BY PathRuns
<1>5. Trial(at).pcre2 = Trial(at).answer
  BY DEF Fair, Honest
<1> HIDE DEF got, again, limits, bound, btbound
<1>6. own = {}
  BY <1>3, <1>5 DEF FailureIf
<1>7. ASSUME ended PROVE other = {}
  <2>1. got.outcome = Trial(at).answer
    BY <1>3, <1>7
  <2>2. Cross(at, got, wanted) =
           IF again.outcome = "resource"
           THEN FailureIf(Sufficient(btbound), "bound", at)
           ELSE Fits(btbound, again.used, at)
                  \cup (IF wanted THEN Edge("bt_match", at, LimitsFor(btbound), again) ELSE {})
                  \cup FailureIf(again.outcome # got.outcome, "cross-matcher", at)
    BY DEF Cross, again, btbound
  <2>3. Cross(at, got, wanted) = {}
    BY <1>4, <2>1, <2>2 DEF FailureIf
  <2>4. QED BY <2>3
<1> HIDE DEF own, other, wanted
<1>8. CASE ended
  <2>1. got.outcome = Trial(at).answer /\ got.used = Need("match", at) /\ Need("match", at) = Trial(at).need
    BY <1>3, <1>8 DEF Need
  <2>2. findings' = findings
    BY <1>1, <1>6, <1>7, <1>8
  <2>3. Trial(at).need \in Amounts /\ \A k \in Kinds : Trial(at).need[k] <= budget[k]
    BY <1>3, <1>8, <2>1
  <2>4. QED BY <1>1, <1>2, <2>1, <2>2, <2>3
<1>9. CASE ~ ended
  <2>1. got.outcome = "resource" /\ got.used \in Amounts
    BY <1>3, <1>9
  <2>2. ~ engine.pike => findings' = findings
    BY <1>1, <1>6 DEF other
  <2>3. QED BY <1>1, <1>2, <2>1, <2>2
<1>10. QED BY <1>8, <1>9

LEMMA OneTrialKeeps ==
  ASSUME CaseTypes, StageRight, Fair, CaseRight, OneTrial
  PROVE  CaseRight'
<1>1. /\ stage = "trials" /\ at <= Len(engine.trials) /\ at' = at + 1
      /\ UNCHANGED <<engine, budget, stage, held>>
  BY DEF OneTrial
<1>2. /\ Len(engine.trials) \in Nat /\ at \in Nat \ {0} /\ rows \in Seq(Rows)
      /\ Len(rows) = at - 1
  BY <1>1 DEF CaseTypes, EngineRight, StageRight
<1>3. at \in Trials
  BY <1>1, <1>2 DEF Trials
<1>4. PICK row :
         /\ rows' = Append(rows, row)
         /\ \/ row.outcome = "resource"
            \/ /\ row.outcome = Trial(at).answer
               /\ \A k \in Kinds : Trial(at).need[k] <= budget[k]
               /\ findings' = findings
         /\ ~ engine.pike => findings' = findings
  BY <1>3, TrialClear
<1>5. /\ Len(rows') = at /\ rows'[at] = row
      /\ \A i \in 1..(at - 1) : rows'[i] = rows[i]
  BY <1>2, <1>4
<1>6. RowsRight'
  <2> SUFFICES ASSUME NEW i \in 1..at
               PROVE  /\ i \in Trials
                      /\ rows'[i].outcome # "resource" =>
                            /\ rows'[i].outcome = Trial(i).answer
                            /\ \A k \in Kinds : Trial(i).need[k] <= budget[k]
    BY <1>1, <1>5 DEF RowsRight, Trials, Trial
  <2>1. CASE i = at
    BY <1>3, <1>4, <1>5, <2>1
  <2>2. CASE i # at
    BY <1>2, <1>5, <2>2 DEF CaseRight, RowsRight
  <2>3. QED BY <2>1, <2>2
<1>7. HeldRight'
  BY <1>1 DEF HeldRight
<1>8. ASSUME NoneCapped' PROVE findings' = {}
  <2>1. NoneCapped
    BY <1>1, <1>2, <1>5, <1>8 DEF NoneCapped, Trials, Capped
  <2>2. engine.pike => row.outcome # "resource"
    BY <1>1, <1>2, <1>3, <1>5, <1>8 DEF NoneCapped, Trials, Capped
  <2>3. findings' = findings
    BY <1>4, <2>2
  <2>4. QED BY <2>1, <2>3 DEF CaseRight
<1>9. QED BY <1>6, <1>7, <1>8 DEF CaseRight

\* What creating the context at its reservation finds: nothing.
LEMMA CreationClear ==
  ASSUME CaseTypes, Fair, Creation(CreationLimits) = "ok"
  PROVE  CreationEdge(engine.bound[engine.maxlen]["mem"]) = {}
<1> DEFINE reserved == engine.bound[engine.maxlen]["mem"]
           most     == budget["mem"]
           Given(n) == [CreationLimits EXCEPT !["mem"] = n]
<1>1. reserved \in {None} \cup Nat /\ most \in Nat
  BY DEF CaseTypes, EngineRight, Amounts, Kinds
<1>2. engine.fault.what # "create"
  BY DEF Fair, Honest, NoFault
<1>3. CreationLimits["mem"] = most /\ CreationLimits["cost"] = most
  BY DEF CreationLimits, CaseTypes, Amounts, Kinds
<1>4. \A n \in Int : Given(n)["mem"] = n /\ Given(n)["cost"] = most
  BY DEF CreationLimits, CaseTypes, Amounts, Kinds
<1> HIDE DEF reserved, most, Given
<1>5. reserved # None /\ reserved <= most
  BY <1>1, <1>2, <1>3 DEF Creation, reserved, None
<1>6. Creation(Given(reserved)) = "ok"
  BY <1>1, <1>2, <1>4, <1>5 DEF Creation, reserved, None
<1>7. Creation(Given(reserved - 1)) = "resource"
  BY <1>1, <1>2, <1>4, <1>5 DEF Creation, reserved, None
<1>8. QED BY <1>6, <1>7 DEF CreationEdge, FailureIf, Given, reserved

LEMMA ContextKeeps ==
  ASSUME CaseTypes, StageRight, Fair, CaseRight, Context
  PROVE  CaseRight'
<1>1. /\ stage = "context" /\ stage' \in {"calls", "done"}
      /\ UNCHANGED <<engine, budget, at, rows>>
  BY DEF Context
<1>2. engine.fault = NoFault
  BY DEF Fair, Honest
<1>3. findings' = findings /\ HeldRight'
  <2>1. CASE Creation(CreationLimits) # "ok"
    BY <2>1 DEF Context, HeldRight
  <2>2. CASE Creation(CreationLimits) = "ok"
    <3> DEFINE asked == engine.bound[engine.maxlen]["mem"]
    <3>1. asked \in Int
      BY DEF CaseTypes, EngineRight, None
    <3>2. CreationEdge(asked) = {}
      BY <2>2, CreationClear
    <3>3. /\ held' = [reserved |-> asked + 0, reports |-> asked + 0 + 0, cap |-> CreationLimits]
          /\ findings' = findings \cup FailureIf(asked # asked + 0 \/ asked + 0 + 0 # asked + 0, "context", 0)
                                  \cup CreationEdge(asked + 0)
      BY <1>2, <2>2 DEF Context, NoFault
    <3> HIDE DEF asked
    <3>4. asked + 0 = asked
      BY <3>1
    <3>5. findings' = findings /\ held' = [reserved |-> asked, reports |-> asked, cap |-> CreationLimits]
      BY <3>2, <3>3, <3>4 DEF FailureIf
    <3>6. CreationLimits' = CreationLimits
      BY <1>1 DEF CreationLimits
    <3>7. QED BY <3>5, <3>6 DEF HeldRight
  <2>3. QED BY <2>1, <2>2
<1>4. RowsRight'
  BY <1>1 DEF RowsRight, HeldRight, CaseRight, Trials, Trial, CreationLimits
<1>5. NoneCapped' => NoneCapped
  BY <1>1 DEF NoneCapped, Trials, Capped
<1>6. QED BY <1>3, <1>4, <1>5 DEF CaseRight

\* A call on the context within its ceilings, on a subject that fits it, ends
\* as a run does, and reports what the context reports.
LEMMA CallEnds ==
  ASSUME NEW i, NEW limits \in Amounts, held.cap \in Amounts, Trial(i).ctxneed \in Amounts,
         \A k \in {"cost", "stack"} : limits[k] <= held.cap[k],
         ~(Trial(i).len > engine.maxlen)
  PROVE  LET got     == ContextRun(i, limits)
             allowed == \A k \in {"cost", "stack"} :
                          Allows("context", k, limits[k], Trial(i).ctxneed[k])
         IN /\ got.used["mem"] = held.reports
            /\ allowed => /\ got.outcome = Trial(i).ctxanswer
                          /\ \A k \in {"cost", "stack"} : got.used[k] = Trial(i).ctxneed[k]
            /\ ~ allowed => got.outcome = "resource"
<1> DEFINE got     == ContextRun(i, limits)
           need    == Trial(i).ctxneed
           Two     == {"cost", "stack"}
           allowed(k) == Allows("context", k, limits[k], need[k])
           ended   == [outcome |-> Trial(i).ctxanswer, used |-> [need EXCEPT !["mem"] = held.reports]]
           refused == [outcome |-> "resource",
                       used |-> [k \in Kinds |-> IF k = "mem" THEN held.reports
                                                 ELSE Lesser(limits[k], need[k])]]
<1>1. ~ \E k \in Two : limits[k] < 0 \/ limits[k] > held.cap[k]
  <2>1. \A k \in Two : limits[k] \in Nat /\ held.cap[k] \in Nat /\ limits[k] <= held.cap[k]
    BY DEF Amounts, Kinds
  <2>2. QED BY <2>1
<1>2. /\ ended.outcome = Trial(i).ctxanswer /\ ended.used["mem"] = held.reports
      /\ \A k \in Two : ended.used[k] = need[k]
  BY DEF Amounts, Kinds
<1>3. refused.outcome = "resource" /\ refused.used["mem"] = held.reports
  BY DEF Kinds
<1> HIDE DEF ended, refused, allowed
<1>4. CASE \A k \in Two : allowed(k)
  <2>1. got = ended
    BY <1>1, <1>4 DEF ContextRun, ended, allowed
  <2>2. QED BY <1>2, <1>4, <2>1 DEF allowed
<1>5. CASE ~(\A k \in Two : allowed(k))
  <2>1. got = refused
    BY <1>1, <1>5 DEF ContextRun, refused, allowed
  <2>2. QED BY <1>3, <1>5, <2>1 DEF allowed
<1>6. QED BY <1>4, <1>5

\* A call on the context takes what the plain run took, inside the ceilings it
\* was created with.
LEMMA CallIs ==
  ASSUME CaseTypes, StageRight, Fair, CaseRight, stage = "calls", NEW i \in Trials, NEW limits \in Amounts,
         \A k \in {"cost", "stack"} : limits[k] <= held.cap[k]
  PROVE  LET got == ContextRun(i, limits)
         IN /\ Trial(i).len > engine.maxlen => got.outcome = "badinput" /\ got.used["mem"] = 0
            /\ ~(Trial(i).len > engine.maxlen) =>
                 /\ got.used["mem"] = held.reserved
                 /\ got.outcome # "badinput"
                 /\ (\A k \in {"cost", "stack"} : Trial(i).ctxneed[k] <= limits[k])
                       => /\ got.outcome = Trial(i).answer
                          /\ \A k \in {"cost", "stack"} : got.used[k] = Trial(i).ctxneed[k]
                 /\ ~(\A k \in {"cost", "stack"} : Trial(i).ctxneed[k] <= limits[k])
                       => got.outcome = "resource"
<1>1. /\ engine.fault = NoFault /\ Trial(i).ctxanswer = Trial(i).answer
      /\ Trial(i).answer # "badinput" /\ Trial(i).ctxneed \in Amounts
  BY DEF CaseTypes, EngineRight, Refusals, Fair, Honest
<1>2. held.reports = held.reserved /\ held.cap \in Amounts
  BY DEF CaseRight, HeldRight, CreationLimits, CaseTypes, Amounts, Kinds
<1>3. \A k \in {"cost", "stack"} : limits[k] \in Nat /\ Trial(i).ctxneed[k] \in Nat
  BY <1>1 DEF Amounts, Kinds
<1>4. \A k \in {"cost", "stack"} :
        Allows("context", k, limits[k], Trial(i).ctxneed[k]) <=> Trial(i).ctxneed[k] <= limits[k]
  BY <1>1, <1>3 DEF Allows, NoFault
<1>5. CASE Trial(i).len > engine.maxlen
  <2>1. ContextRun(i, limits) = [outcome |-> "badinput", used |-> [k \in Kinds |-> 0]]
    BY <1>5 DEF ContextRun
  <2>2. QED BY <1>5, <2>1 DEF Kinds
<1>6. CASE ~(Trial(i).len > engine.maxlen)
  BY <1>1, <1>2, <1>4, <1>6, CallEnds
<1>7. QED BY <1>5, <1>6

\* The ceilings are amounts, and cover a context call wherever the plain run ended.
LEMMA CapCovers ==
  ASSUME CaseTypes, StageRight, Fair, CaseRight, stage = "calls"
  PROVE  /\ held.cap \in Amounts
         /\ \A i \in Trials : rows[i].outcome # "resource" =>
               /\ rows[i].outcome = Trial(i).answer
               /\ \A k \in {"cost", "stack"} : Trial(i).ctxneed[k] <= held.cap[k]
<1>1. /\ held.cap = CreationLimits /\ budget["mem"] \in Nat /\ budget["mem"] >= budget["cost"]
      /\ \A k \in Kinds : budget[k] \in Nat
  BY DEF CaseRight, HeldRight, CaseTypes, Amounts, Kinds, Fair
<1>2. /\ held.cap \in Amounts /\ held.cap["cost"] = budget["mem"] /\ held.cap["stack"] = budget["stack"]
  BY <1>1 DEF CreationLimits, CaseTypes, Amounts, Kinds
<1>3. ASSUME NEW i \in Trials, rows[i].outcome # "resource"
      PROVE  /\ rows[i].outcome = Trial(i).answer
             /\ \A k \in {"cost", "stack"} : Trial(i).ctxneed[k] <= held.cap[k]
  <2>1. i \in 1..Len(rows)
    BY DEF CaseRight, StageRight, Trials
  <2>2. /\ rows[i].outcome = Trial(i).answer
        /\ \A k \in Kinds : Trial(i).need[k] <= budget[k]
    BY <1>3, <2>1 DEF CaseRight, RowsRight
  <2>3. \A k \in Kinds : Trial(i).need[k] \in Nat /\ Trial(i).ctxneed[k] \in Nat
    BY DEF CaseTypes, EngineRight, Amounts
  <2>4. \A k \in {"cost", "stack"} : Trial(i).ctxneed[k] <= Trial(i).need[k]
    BY DEF Fair, Honest
  <2>5. QED BY <1>1, <1>2, <2>2, <2>3, <2>4 DEF Kinds
<1>4. QED BY <1>2, <1>3

LEMMA ContextCallKeeps ==
  ASSUME CaseTypes, StageRight, Fair, CaseRight, ContextCall
  PROVE  CaseRight'
<1>1. /\ stage = "calls" /\ at <= Len(engine.trials) /\ at' = at + 1
      /\ UNCHANGED <<engine, budget, stage, rows, held>>
  BY DEF ContextCall
<1>2. at \in Trials
  BY <1>1 DEF CaseTypes, EngineRight, CaseRight, StageRight, Trials
<1>3. findings' = findings
  <2> DEFINE got == ContextRun(at, held.cap)
  <2>1. held.cap \in Amounts
    BY <1>1, CapCovers
  <2>2. \A k \in {"cost", "stack"} : held.cap[k] <= held.cap[k]
    BY <2>1 DEF Amounts, Kinds
  <2>3. /\ Trial(at).len > engine.maxlen => got.outcome = "badinput" /\ got.used["mem"] = 0
        /\ ~(Trial(at).len > engine.maxlen) =>
             /\ got.used["mem"] = held.reserved /\ got.outcome # "badinput"
             /\ (\A k \in {"cost", "stack"} : Trial(at).ctxneed[k] <= held.cap[k])
                   => got.outcome = Trial(at).answer
    BY <1>1, <1>2, <2>1, <2>2, CallIs
  <2>4. rows[at].outcome # "resource" =>
          /\ rows[at].outcome = Trial(at).answer
          /\ \A k \in {"cost", "stack"} : Trial(at).ctxneed[k] <= held.cap[k]
    BY <1>1, <1>2, CapCovers
  <2>5. findings' = findings \cup
          FailureIf(\/ got.used["mem"] # (IF got.outcome = "badinput" THEN 0 ELSE held.reserved)
                    \/ IF Trial(at).len > engine.maxlen
                       THEN got.outcome # "badinput"
                       ELSE /\ rows[at].outcome # "resource"
                            /\ got.outcome # rows[at].outcome, "context", at)
    BY DEF ContextCall
  <2> HIDE DEF got
  <2>6. QED BY <2>3, <2>4, <2>5 DEF FailureIf
<1>4. RowsRight' /\ HeldRight'
  BY <1>1 DEF RowsRight, HeldRight, CaseRight, Trials, Trial, CreationLimits
<1>5. NoneCapped' => NoneCapped
  BY <1>1 DEF NoneCapped, Trials, Capped
<1>6. QED BY <1>3, <1>4, <1>5 DEF CaseRight

\* Nor do the edges of a call that ended.
LEMMA CallEdgeClear ==
  ASSUME CaseTypes, StageRight, Fair, CaseRight, stage = "calls", NEW i \in Trials,
         rows[i].outcome # "resource", Trial(i).len <= engine.maxlen
  PROVE  CallEdge(i) = {}
<1> DEFINE got  == ContextRun(i, held.cap)
           need == Trial(i).ctxneed
           Two  == {"cost", "stack"}
           At(k, limit) == [held.cap EXCEPT ![k] = limit]
<1>1. ~(Trial(i).len > engine.maxlen)
  BY DEF CaseTypes, EngineRight
<1>2. held.cap \in Amounts /\ \A k \in Two : need[k] <= held.cap[k]
  BY CapCovers
<1>3. \A k \in Two : need[k] \in Nat /\ held.cap[k] \in Nat
  BY <1>2 DEF CaseTypes, EngineRight, Amounts, Kinds
<1>4. got.outcome = Trial(i).answer /\ \A k \in Two : got.used[k] = need[k]
  <2>1. \A k \in Two : held.cap[k] <= held.cap[k]
    BY <1>3
  <2>2. QED BY <1>1, <1>2, <2>1, CallIs
<1>5. ASSUME NEW k \in Two, NEW limit \in Nat, limit <= need[k]
      PROVE  /\ At(k, limit) \in Amounts /\ At(k, limit)[k] = limit
             /\ \A j \in Two : At(k, limit)[j] <= held.cap[j] /\ (j # k => need[j] <= At(k, limit)[j])
  BY <1>2, <1>3, <1>5 DEF Amounts, Kinds
<1> HIDE DEF got, At
<1>6. ASSUME NEW k \in Two
      PROVE  ContextRun(i, At(k, got.used[k])).outcome = got.outcome
  <2>1. /\ At(k, need[k]) \in Amounts
        /\ \A j \in Two : At(k, need[k])[j] <= held.cap[j] /\ need[j] <= At(k, need[k])[j]
    BY <1>3, <1>5
  <2>2. ContextRun(i, At(k, need[k])).outcome = Trial(i).answer
    BY <1>1, <2>1, CallIs
  <2>3. QED BY <1>4, <2>2
<1>7. ASSUME NEW k \in Two, got.used[k] > 0
      PROVE  ContextRun(i, At(k, got.used[k] - 1)).outcome = "resource"
  <2>1. need[k] - 1 \in Nat /\ need[k] - 1 <= need[k] /\ ~(need[k] <= need[k] - 1)
    BY <1>3, <1>4, <1>7
  <2>2. /\ At(k, need[k] - 1) \in Amounts
        /\ \A j \in Two : At(k, need[k] - 1)[j] <= held.cap[j]
        /\ ~ \A j \in Two : need[j] <= At(k, need[k] - 1)[j]
    BY <1>5, <2>1
  <2>3. ContextRun(i, At(k, need[k] - 1)).outcome = "resource"
    BY <1>1, <2>2, CallIs
  <2>4. QED BY <1>4, <2>3
<1>8. QED BY <1>6, <1>7 DEF CallEdge, FailureIf, got, At

\* A set of the first numbers that is not empty has a least one.
LEMMA LeastOf ==
  ASSUME NEW n \in Nat, NEW S, S \subseteq 1..n, S # {}
  PROVE  (CHOOSE i \in S : \A j \in S : i <= j) \in S
<1> DEFINE R == {ss \in Nat \X Nat : ss[1] < ss[2]}
<1>1. IsWellFoundedOn(R, Nat)
  BY NatLessThanWellFounded DEF OpToRel
<1> HIDE DEF R
<1>2. S \subseteq Nat
  OBVIOUS
<1>3. PICK m \in S : \A k \in S : ~ (<<k, m>> \in R)
  BY <1>1, <1>2, WFMin
<1>4. \A k \in S : ~(k < m)
  BY <1>2, <1>3 DEF R
<1>5. \A k \in S : m <= k
  BY <1>2, <1>4
<1>6. QED BY <1>3, <1>5

LEMMA CallEdgesKeeps ==
  ASSUME CaseTypes, StageRight, Fair, CaseRight, CallEdges
  PROVE  CaseRight'
<1>1. /\ stage = "calls" /\ stage' = "done"
      /\ UNCHANGED <<engine, budget, at, rows, held>>
  BY DEF CallEdges
<1>2. findings' = findings
  <2>1. CASE Completed = {}
    BY <2>1 DEF CallEdges
  <2>2. CASE Completed # {}
    <3> DEFINE least == CHOOSE i \in Completed : \A j \in Completed : i <= j
    <3>1. Completed \subseteq 1..Len(rows) /\ Len(rows) \in Nat
      BY DEF Completed, CaseRight, StageRight
    <3>2. least \in Completed
      BY <2>2, <3>1, LeastOf
    <3> HIDE DEF least
    <3>3. /\ least \in Trials /\ rows[least].outcome # "resource"
          /\ Trial(least).len <= engine.maxlen
      BY <1>1, <3>2 DEF Completed, CaseRight, StageRight, Trials
    <3>4. CallEdge(least) = {}
      BY <1>1, <3>3, CallEdgeClear
    <3>5. findings' = findings \cup CallEdge(least)
      BY <2>2 DEF CallEdges, least
    <3>6. QED BY <3>4, <3>5
  <2>3. QED BY <2>1, <2>2
<1>3. RowsRight' /\ HeldRight'
  BY <1>1 DEF RowsRight, HeldRight, CaseRight, Trials, Trial, CreationLimits
<1>4. NoneCapped' => NoneCapped
  BY <1>1 DEF NoneCapped, Trials, Capped
<1>5. QED BY <1>2, <1>3, <1>4 DEF CaseRight

\* An honest engine raises nothing, so no step is a crash.
LEMMA CaseStepKeeps ==
  ASSUME CaseTypes, StageRight, Fair, CaseRight, Next
  PROVE  CaseRight'
<1>1. engine.raises = "nothing"
  BY DEF Fair, Honest
<1>2. ~ Crashes("believes") /\ ~ Crashes("bounds")
  BY <1>1 DEF Crashes
<1>3. QED
  BY <1>2, CompileKeeps, BelievesKeeps, ClassKeeps, OneTrialKeeps, TrialsDoneKeeps,
     ContextKeeps, ContextCallKeeps, CallEdgesKeeps DEF Next

LEMMA CaseInvNext == CaseInv /\ [AnyStep]_allVars => CaseInv'
<1> SUFFICES ASSUME CaseInv, about' = "case", [AnyStep]_allVars
             PROVE  (CaseTypes /\ StageRight /\ (Fair => CaseRight))'
  BY DEF CaseInv
<1>1. about = "case" /\ CaseTypes /\ StageRight /\ (Fair => CaseRight)
  BY DEF CaseInv, AnyStep, allVars
<1>2. CASE UNCHANGED vars
  <2>1. UNCHANGED <<engine, budget, stage, at, rows, held, findings>>
    BY <1>2 DEF vars
  <2>2. (CaseTypes' <=> CaseTypes) /\ (Fair' <=> Fair) /\ Rows' = Rows
    BY <2>1, SameCase
  <2>3. StageRight'
    BY <1>1, <2>1, <2>2 DEF StageRight
  <2>4. CaseRight => CaseRight'
    BY <2>1 DEF CaseRight, RowsRight, HeldRight, NoneCapped, Capped, Trials, Trial, CreationLimits
  <2>5. QED BY <1>1, <2>2, <2>3, <2>4
<1>3. CASE CaseStep
  <2>1. Next
    BY <1>3 DEF CaseStep
  <2>2. UNCHANGED <<engine, budget>> /\ StageRight'
    BY <1>1, <2>1, StageKeeps
  <2>3. (CaseTypes' <=> CaseTypes) /\ (Fair' <=> Fair)
    BY <2>2, SameCase
  <2>4. QED BY <1>1, <2>1, <2>2, <2>3, CaseStepKeeps
<1>4. QED BY <1>1, <1>2, <1>3 DEF AnyStep, ReduceStep, PoolStep, LoopStep, allVars

LEMMA CaseInvHas == CaseInv => NoFalseAlarm
<1> SUFFICES ASSUME CaseInv, about = "case", Fair, NoneCapped PROVE findings = {}
  BY DEF NoFalseAlarm, Fair, NoneCapped
<1>1. QED BY DEF CaseInv, CaseRight

LEMMA AnyCaseInv == AnyCase => CaseInv
<1> SUFFICES ASSUME AnyCase PROVE CaseTypes /\ StageRight /\ CaseRight
  BY DEF CaseInv
<1>1. stage = "compile" /\ at = 1 /\ rows = <<>> /\ findings = {}
  BY DEF AnyCase, Begin
<1>2. QED BY <1>1 DEF AnyCase, CaseTypes, CaseRight, StageRight, RowsRight, HeldRight

(***************************************************************************)
(* run_case finds nothing in any engine nothing is wrong with, on any      *)
(* pattern with any number of trials, whatever each of them needs, however *)
(* many usages are edged, and under every budget whose memory is no        *)
(* smaller than its cost, unless the budget caps a lockstep run.           *)
(***************************************************************************)
THEOREM HonestIsClear ==
  AnyCase /\ [][AnyStep]_allVars => []NoFalseAlarm
<1>1. QED BY AnyCaseInv, CaseInvNext, CaseInvHas, PTL


-----------------------------------------------------------------------------
(* What is wrong with an engine is found.                                  *)

\* The matchers a case runs, and an engine whose limits are one off only where
\* there is room for the run either side of them.
Taken(path) == path = "match" \/ engine.pike

Roomy ==
  /\ engine.fault.what = "limit" =>
       /\ engine.fault.kind \in Kinds /\ engine.fault.by \in {-1, 1}
       /\ \A i \in Trials :
            /\ \A path \in Paths, k \in Kinds :
                 /\ Need(path, i)[k] < budget[k]
                 /\ BoundOf(path, i)[k] = None \/ Need(path, i)[k] < BoundOf(path, i)[k]
            /\ Trial(i).ctxneed["cost"] < budget["mem"] /\ Trial(i).ctxneed["stack"] < budget["stack"]
  /\ engine.fault.what = "reports" => \E i \in Trials : Trial(i).len <= engine.maxlen

\* What a trial shows, once it has its row.
Short(path, i) ==
  Taken(path) /\ Sufficient(BoundOf(path, i)) /\ \E k \in Kinds : Need(path, i)[k] > BoundOf(path, i)[k]

OneOff(path, i) ==
  /\ Taken(path) /\ engine.fault.what = "limit" /\ engine.fault.path = path
  /\ Need(path, i)[engine.fault.kind] > 0

TrialFound(i) ==
  /\ rows[i].outcome = Ran("match", i).outcome /\ rows[i].used = Ran("match", i).used
  /\ \A path \in Paths : /\ Short(path, i) => Reported("bound", i)
                         /\ OneOff(path, i) /\ rows[i].edges => Reported("edge", i)
  /\ rows[i].outcome # "resource" =>
       /\ engine.oracle /\ Trial(i).pcre2 # Trial(i).answer => Reported("match", i)
       /\ engine.pike /\ Trial(i).btanswer # Trial(i).answer /\ Ran("bt_match", i).outcome # "resource"
            => Reported("cross-matcher", i)

\* The usages that have been edged, and those the limit on them left out.
EdgedRight ==
  /\ IsFiniteSet(edged)
  /\ edged = {rows[i].used : i \in {j \in 1..Len(rows) : rows[j].edges}}
  /\ \A i \in 1..Len(rows) : rows[i].outcome # "resource" =>
       rows[i].used \in edged \/ Cardinality(edged) >= Edges

\* What a call on the context shows, and what its edges do.
CallFound(i) ==
  Trial(i).len <= engine.maxlen =>
    /\ rows[i].outcome # "resource" /\ Trial(i).ctxanswer # Trial(i).answer => Reported("context", i)
    /\ engine.fault.what = "reports" => Reported("context", i)

EdgeFound ==
  engine.fault.what = "limit" /\ engine.fault.path = "context" /\ engine.fault.kind # "mem" =>
    \A i \in Completed :
      (\A j \in Completed : i <= j) /\ Trial(i).ctxneed[engine.fault.kind] > 0 => Reported("context", i)

ContextFound ==
  /\ held.reserved \in Nat
  /\ held.reports = held.reserved + (IF engine.fault.what = "reports" THEN 1 ELSE 0)
  /\ held.cap = CreationLimits
  /\ engine.fault.what \in {"create", "reserves", "resident"} /\ held.reserved > 0 => Reported("context", 0)
  /\ \A i \in Trials : stage = "done" \/ i < at => CallFound(i)
  /\ stage = "done" => EdgeFound

HeldFound ==
  /\ stage \notin {"calls", "done"} => held.reserved = None
  /\ stage = "calls" => held.reserved # None
  /\ stage \in {"calls", "done"} /\ held.reserved # None => Len(rows) = Len(engine.trials) /\ ContextFound

FoundRight ==
  /\ stage = "done" => rows = <<>> \/ Len(rows) = Len(engine.trials)
  /\ \A i \in 1..Len(rows) : TrialFound(i)
  /\ EdgedRight \/ (stage = "done" /\ rows = <<>>)
  /\ HeldFound

FoundInv == about = "case" => CaseTypes /\ Roomy /\ StageRight /\ FoundRight

\* The runs of a case are what the engine and the budget make them.
LEMMA SameRuns ==
  ASSUME UNCHANGED <<engine, budget>>
  PROVE  /\ Roomy' <=> Roomy
         /\ \A i : Trial(i)' = Trial(i) /\ \A path : /\ Ran(path, i)' = Ran(path, i)
                                                     /\ Short(path, i)' <=> Short(path, i)
                                                     /\ OneOff(path, i)' <=> OneOff(path, i)
BY DEF Roomy, Trial, Trials, Paths, BoundOf, Need, Ran, Run, Says, Allows, LimitsFor, Short, OneOff, Taken,
       Sufficient

\* A finding is never taken back, nor what a row is about.
LEMMA TrialStays ==
  ASSUME UNCHANGED <<engine, budget>>, findings \subseteq findings', NEW i, rows'[i] = rows[i],
         TrialFound(i)
  PROVE  TrialFound(i)'
<1>1. /\ Trial(i)' = Trial(i)
      /\ \A path : /\ Ran(path, i)' = Ran(path, i)
                   /\ Short(path, i)' <=> Short(path, i)
                   /\ OneOff(path, i)' <=> OneOff(path, i)
  BY SameRuns
<1>2. \A kind : Reported(kind, i) => Reported(kind, i)'
  BY DEF Reported, Failure
<1>3. QED BY <1>1, <1>2 DEF TrialFound

\* A certificate that is short is seen where it is run at, whether the engine
\* refuses the run or lets it through.
LEMMA ShortSeen ==
  ASSUME CaseTypes, NEW i \in Trials, NEW path \in Paths, Short(path, i)
  PROVE  /\ Failure("bound", i) \in FailureIf(Sufficient(BoundOf(path, i)), "bound", i)
         /\ Ran(path, i).outcome # "resource"
              => Failure("bound", i) \in Fits(BoundOf(path, i), Ran(path, i).used, i)
<1> DEFINE bound == BoundOf(path, i)
<1>1. Sufficient(bound) /\ \E k \in Kinds : Need(path, i)[k] > bound[k]
  BY DEF Short
<1>2. Ran(path, i).outcome # "resource" => Ran(path, i).used = Need(path, i)
  BY RanTyped DEF Refusals
<1> HIDE DEF bound
<1>3. Ran(path, i).outcome # "resource" => \E k \in Kinds : bound[k] # None /\ Ran(path, i).used[k] > bound[k]
  BY <1>1, <1>2 DEF Sufficient
<1>4. QED BY <1>1, <1>3 DEF FailureIf, Fits, bound

\* Where there is room for it, a limit one off changes no run at a certificate.
LEMMA RoomyRuns ==
  ASSUME CaseTypes, Roomy, NEW i \in Trials, NEW path \in Paths, engine.fault.what = "limit"
  PROVE  /\ Ran(path, i) = [outcome |-> Says(path, i), used |-> Need(path, i)]
         /\ \A k \in Kinds : Need(path, i)[k] < LimitsFor(BoundOf(path, i))[k]
<1> DEFINE limits == LimitsFor(BoundOf(path, i))
           need   == Need(path, i)
<1>1. limits \in Amounts /\ need \in Amounts
  BY RanTyped
<1>2. \A k \in Kinds : need[k] < limits[k]
  <2>1. \A k \in Kinds : /\ need[k] < budget[k]
                         /\ BoundOf(path, i)[k] = None \/ need[k] < BoundOf(path, i)[k]
    BY DEF Roomy
  <2>2. QED BY <2>1 DEF LimitsFor, Lesser
<1>3. \A k \in Kinds : limits[k] \in Nat /\ need[k] \in Nat
  BY <1>1 DEF Amounts
<1>4. engine.fault.by \in {-1, 1}
  BY DEF Roomy
<1> HIDE DEF limits, need
<1>5. \A k \in Kinds : Allows(path, k, limits[k], need[k])
  BY <1>2, <1>3, <1>4 DEF Allows
<1>6. QED BY <1>1, <1>2, <1>5, RunEnds DEF Ran, limits, need

\* A limit one off is seen at the edges of a run that spends what it limits.
LEMMA OneOffSeen ==
  ASSUME CaseTypes, Roomy, NEW i \in Trials, NEW path \in Paths, OneOff(path, i)
  PROVE  /\ Ran(path, i) = [outcome |-> Says(path, i), used |-> Need(path, i)]
         /\ Says(path, i) # "resource"
         /\ Failure("edge", i) \in Edge(path, i, LimitsFor(BoundOf(path, i)), Ran(path, i))
<1> DEFINE limits == LimitsFor(BoundOf(path, i))
           need   == Need(path, i)
           kind   == engine.fault.kind
           by     == engine.fault.by
<1>1. /\ engine.fault.what = "limit" /\ engine.fault.path = path /\ need[kind] > 0
      /\ kind \in Kinds /\ by \in {-1, 1}
  BY DEF OneOff, Roomy
<1>2. limits \in Amounts /\ need \in Amounts /\ Says(path, i) # "resource"
  BY RanTyped DEF Refusals
<1>3. Ran(path, i) = [outcome |-> Says(path, i), used |-> need] /\ \A k \in Kinds : need[k] < limits[k]
  BY <1>1, RoomyRuns
<1>4. \A k \in Kinds : limits[k] \in Nat /\ need[k] \in Nat
  BY <1>2 DEF Amounts
<1> HIDE DEF limits, need, kind, by
<1>5. \A k \in Kinds : \A limit :
        Allows(path, k, limit, need[k]) <=> limit + (IF k = kind THEN by ELSE 0) >= need[k]
  BY <1>1 DEF Allows, kind, by
<1>6. CASE by = -1
  <2> DEFINE exact == [limits EXCEPT ![kind] = need[kind]]
  <2>1. exact \in Amounts /\ exact[kind] = need[kind]
    BY <1>1, <1>2, <1>4 DEF Amounts
  <2> HIDE DEF exact
  <2>2. ~ Allows(path, kind, exact[kind], need[kind])
    BY <1>1, <1>4, <1>5, <1>6, <2>1
  <2>3. Run(path, i, exact).outcome = "resource"
    BY <1>1, <1>2, <2>1, <2>2, RunEnds DEF need
  <2>4. Run(path, i, [limits EXCEPT ![kind] = Ran(path, i).used[kind]]).outcome # Ran(path, i).outcome
    BY <1>2, <1>3, <2>3 DEF exact
  <2>5. QED BY <1>1, <1>2, <1>3, <2>4 DEF Edge, FailureIf, limits, need
<1>7. CASE by = 1
  <2> DEFINE below == [limits EXCEPT ![kind] = need[kind] - 1]
  <2>1. /\ below \in Amounts /\ below[kind] = need[kind] - 1
        /\ \A k \in Kinds \ {kind} : below[k] = limits[k]
    BY <1>1, <1>2, <1>4 DEF Amounts
  <2> HIDE DEF below
  <2>2. \A k \in Kinds : Allows(path, k, below[k], need[k])
    <3>1. Allows(path, kind, below[kind], need[kind])
      BY <1>1, <1>4, <1>5, <1>7, <2>1
    <3>2. \A k \in Kinds \ {kind} : Allows(path, k, below[k], need[k])
      BY <1>3, <1>4, <1>5, <2>1
    <3>3. QED BY <3>1, <3>2
  <2>3. Run(path, i, below).outcome # "resource"
    BY <1>2, <2>1, <2>2, RunEnds DEF need
  <2>4. /\ Ran(path, i).used[kind] # 0
        /\ Run(path, i, [limits EXCEPT ![kind] = Ran(path, i).used[kind] - 1]).outcome # "resource"
    BY <1>1, <1>3, <1>4, <2>3 DEF below
  <2>5. QED BY <1>1, <1>2, <1>3, <2>4 DEF Edge, FailureIf, limits, need
<1>8. QED BY <1>1, <1>6, <1>7

\* What a trial's step finds, adds to the edged usages, and writes in the row.
LEMMA OneTrialFinds ==
  ASSUME CaseTypes, Roomy, OneTrial, at \in Trials
  PROVE  /\ findings \subseteq findings'
         /\ \E wanted \in BOOLEAN :
              /\ rows' = Append(rows, [outcome |-> Ran("match", at).outcome,
                                       used |-> Ran("match", at).used, edges |-> wanted])
              /\ wanted <=> Ran("match", at).outcome # "resource" /\ Wanted(Ran("match", at).used)
              /\ edged' = IF wanted THEN edged \cup {Ran("match", at).used} ELSE edged
              /\ \A path \in Paths :
                   /\ Short(path, at) => Failure("bound", at) \in findings'
                   /\ OneOff(path, at) /\ wanted => Failure("edge", at) \in findings'
              /\ Ran("match", at).outcome # "resource" =>
                   /\ engine.oracle /\ Trial(at).pcre2 # Trial(at).answer
                        => Failure("match", at) \in findings'
                   /\ engine.pike /\ Trial(at).btanswer # Trial(at).answer
                        /\ Ran("bt_match", at).outcome # "resource"
                        => Failure("cross-matcher", at) \in findings'
<1> DEFINE bound   == BoundOf("match", at)
           limits  == LimitsFor(bound)
           got     == Ran("match", at)
           btbound == BoundOf("bt_match", at)
           btlimits == LimitsFor(btbound)
           again   == Ran("bt_match", at)
           ended   == got.outcome # "resource"
           wanted  == ended /\ Wanted(got.used)
           other   == IF engine.pike THEN Cross(at, got, wanted) ELSE {}
           fits    == Fits(bound, got.used, at)
           edge    == Edge("match", at, limits, got)
           own     == IF ended
                      THEN FailureIf(engine.oracle /\ got.outcome # Trial(at).pcre2, "match", at)
                             \cup fits \cup (IF wanted THEN edge ELSE {})
                      ELSE FailureIf(Sufficient(bound), "bound", at)
           btfits  == Fits(btbound, again.used, at)
           btedge  == Edge("bt_match", at, btlimits, again)
<1>1. /\ findings' = findings \cup own \cup other
      /\ edged' = IF wanted THEN edged \cup {got.used} ELSE edged
      /\ rows' = Append(rows, [outcome |-> got.outcome, used |-> got.used, edges |-> wanted])
  BY ZenonT(40) DEF OneTrial, Ran, BoundOf
<1>2. engine.pike => other =
        IF again.outcome = "resource"
        THEN FailureIf(Sufficient(btbound), "bound", at)
        ELSE btfits \cup (IF wanted THEN btedge ELSE {})
                    \cup FailureIf(again.outcome # got.outcome, "cross-matcher", at)
  BY DEF Cross, Ran, BoundOf
<1>3. wanted \in BOOLEAN
  OBVIOUS
<1>4. /\ got.outcome = "resource" \/ got.outcome = Trial(at).answer
      /\ again.outcome = "resource" \/ again.outcome = Trial(at).btanswer
  BY RanTyped DEF Refusals, Paths, Says
<1>5. Short("match", at) => /\ Failure("bound", at) \in FailureIf(Sufficient(bound), "bound", at)
                            /\ ended => Failure("bound", at) \in fits
  BY ShortSeen DEF Paths
<1>6. Short("bt_match", at) => /\ engine.pike
                               /\ Failure("bound", at) \in FailureIf(Sufficient(btbound), "bound", at)
                               /\ again.outcome # "resource" => Failure("bound", at) \in btfits
  BY ShortSeen DEF Paths, Short, Taken
<1>7. OneOff("match", at) => ended /\ Failure("edge", at) \in edge
  BY OneOffSeen DEF Paths
<1>8. OneOff("bt_match", at) => engine.pike /\ again.outcome # "resource" /\ Failure("edge", at) \in btedge
  BY OneOffSeen DEF Paths, OneOff, Taken
<1> HIDE DEF other, fits, edge, btfits, btedge, again, bound, btbound, limits, btlimits
<1>9. Short("match", at) => Failure("bound", at) \in own
  BY <1>5
<1>10. OneOff("match", at) /\ wanted => Failure("edge", at) \in own
  BY <1>7
<1>11. Short("bt_match", at) => Failure("bound", at) \in other
  BY <1>2, <1>6
<1>12. OneOff("bt_match", at) /\ wanted => Failure("edge", at) \in other
  BY <1>2, <1>8
<1>13. ended /\ engine.oracle /\ Trial(at).pcre2 # Trial(at).answer => Failure("match", at) \in own
  BY <1>4 DEF FailureIf
<1>14. ended /\ engine.pike /\ Trial(at).btanswer # Trial(at).answer /\ again.outcome # "resource"
         => Failure("cross-matcher", at) \in other
  BY <1>2, <1>4 DEF FailureIf
<1> HIDE DEF own
<1>15. \A path \in Paths :
          /\ Short(path, at) => Failure("bound", at) \in findings'
          /\ OneOff(path, at) /\ wanted => Failure("edge", at) \in findings'
  BY <1>1, <1>9, <1>10, <1>11, <1>12 DEF Paths
<1>16. findings \subseteq findings'
  BY <1>1
<1>17. ended =>
          /\ engine.oracle /\ Trial(at).pcre2 # Trial(at).answer => Failure("match", at) \in findings'
          /\ engine.pike /\ Trial(at).btanswer # Trial(at).answer /\ again.outcome # "resource"
               => Failure("cross-matcher", at) \in findings'
  BY <1>1, <1>13, <1>14
<1>18. wanted <=> got.outcome # "resource" /\ Wanted(got.used)
  OBVIOUS
<1> HIDE DEF wanted, got
<1>19. QED BY <1>1, <1>3, <1>15, <1>16, <1>17, <1>18 DEF again, got

\* Which usages have been edged.
LEMMA EdgedGrows ==
  ASSUME EdgedRight, rows \in Seq(Rows), NEW row, NEW wanted \in BOOLEAN, rows' = Append(rows, row),
         row.edges = wanted, edged' = IF wanted THEN edged \cup {row.used} ELSE edged,
         wanted <=> row.outcome # "resource" /\ Wanted(row.used)
  PROVE  EdgedRight'
<1> DEFINE n == Len(rows)
<1>1. n \in Nat /\ Len(rows') = n + 1 /\ rows'[n + 1] = row /\ \A i \in 1..n : rows'[i] = rows[i]
  OBVIOUS
<1>2. IsFiniteSet(edged) /\ Cardinality(edged) \in Nat /\ Edges \in Nat
  BY FS_CardinalityType, SweepAssumption DEF EdgedRight
<1>3. edged \subseteq edged' /\ IsFiniteSet(edged')
  BY <1>2, FS_AddElement
<1>4. Cardinality(edged') \in Nat /\ Cardinality(edged) <= Cardinality(edged')
  BY <1>3, FS_CardinalityType, FS_Subset
<1>5. \A u : u \in edged <=> \E i \in 1..n : rows[i].edges /\ rows[i].used = u
  BY DEF EdgedRight
<1>6. \A u : u \in edged' <=> \E i \in 1..(n + 1) : rows'[i].edges /\ rows'[i].used = u
  <2> SUFFICES ASSUME NEW u
               PROVE  u \in edged' <=> \E i \in 1..(n + 1) : rows'[i].edges /\ rows'[i].used = u
    OBVIOUS
  <2>1. (\E i \in 1..(n + 1) : rows'[i].edges /\ rows'[i].used = u)
          <=> (\E i \in 1..n : rows[i].edges /\ rows[i].used = u) \/ (wanted /\ row.used = u)
    <3> HIDE DEF n
    <3>1. \A i : i \in 1..(n + 1) <=> i \in 1..n \/ i = n + 1
      BY <1>1
    <3>2. QED BY <1>1, <3>1
  <2>2. u \in edged' <=> u \in edged \/ (wanted /\ row.used = u)
    OBVIOUS
  <2>3. QED BY <1>5, <2>1, <2>2
<1>7. edged' = {rows'[i].used : i \in {j \in 1..Len(rows') : rows'[j].edges}}
  BY <1>1, <1>6
<1>8. ASSUME NEW i \in 1..Len(rows'), rows'[i].outcome # "resource"
      PROVE  rows'[i].used \in edged' \/ Cardinality(edged') >= Edges
  <2>1. CASE i = n + 1
    <3>1. rows'[i] = row
      BY <1>1, <2>1
    <3>2. wanted \/ row.used \in edged \/ ~(Cardinality(edged) < Edges)
      BY <1>8, <3>1 DEF Wanted
    <3>3. QED BY <1>2, <1>3, <1>4, <3>1, <3>2
  <2>2. CASE i # n + 1
    <3>1. i \in 1..n
      BY <1>1, <2>2
    <3>2. rows[i].used \in edged \/ Cardinality(edged) >= Edges
      BY <1>1, <1>8, <3>1 DEF EdgedRight
    <3>3. QED BY <1>1, <1>2, <1>3, <1>4, <3>1, <3>2
  <2>3. QED BY <2>1, <2>2
<1>9. QED BY <1>3, <1>7, <1>8 DEF EdgedRight

LEMMA OneTrialFound ==
  ASSUME CaseTypes, Roomy, StageRight, FoundRight, OneTrial
  PROVE  FoundRight'
<1>1. /\ stage = "trials" /\ at <= Len(engine.trials) /\ at' = at + 1
      /\ UNCHANGED <<engine, budget, stage, held>>
  BY DEF OneTrial
<1>2. /\ Len(engine.trials) \in Nat /\ at \in Nat \ {0} /\ rows \in Seq(Rows)
      /\ Len(rows) = at - 1
  BY <1>1 DEF CaseTypes, EngineRight, StageRight
<1>3. PICK i \in Trials : i = at
  BY <1>1, <1>2 DEF Trials
<1> DEFINE got == Ran("match", i)
           Row(wanted) == [outcome |-> got.outcome, used |-> got.used, edges |-> wanted]
<1>4. findings \subseteq findings'
  BY <1>3, OneTrialFinds
<1>5. PICK wanted \in BOOLEAN :
         /\ rows' = Append(rows, Row(wanted))
         /\ wanted <=> got.outcome # "resource" /\ Wanted(got.used)
         /\ edged' = IF wanted THEN edged \cup {got.used} ELSE edged
         /\ \A path \in Paths :
              /\ Short(path, i) => Failure("bound", i) \in findings'
              /\ OneOff(path, i) /\ wanted => Failure("edge", i) \in findings'
         /\ got.outcome # "resource" =>
              /\ engine.oracle /\ Trial(i).pcre2 # Trial(i).answer => Failure("match", i) \in findings'
              /\ engine.pike /\ Trial(i).btanswer # Trial(i).answer
                   /\ Ran("bt_match", i).outcome # "resource"
                   => Failure("cross-matcher", i) \in findings'
  BY <1>3, OneTrialFinds
<1> DEFINE row == Row(wanted)
<1>6. row.outcome = got.outcome /\ row.used = got.used /\ row.edges = wanted
  OBVIOUS
<1> HIDE DEF got, row
<1>7. /\ Len(rows') = i /\ rows'[i] = row /\ \A j \in 1..(i - 1) : rows'[j] = rows[j]
  BY <1>2, <1>3, <1>5 DEF row
<1>8. /\ Trial(i)' = Trial(i)
      /\ \A path : /\ Ran(path, i)' = Ran(path, i)
                   /\ Short(path, i)' <=> Short(path, i)
                   /\ OneOff(path, i)' <=> OneOff(path, i)
  BY <1>1, SameRuns
<1>9. TrialFound(i)'
  <2>1. rows'[i].outcome = got.outcome /\ rows'[i].used = got.used /\ rows'[i].edges = wanted
    BY <1>6, <1>7
  <2>2. \A kind : Reported(kind, i)' <=> Failure(kind, i) \in findings'
    BY DEF Reported, Failure
  <2>3. engine' = engine
    BY <1>1
  <2>4. \A path \in Paths :
          /\ Short(path, i)' => Reported("bound", i)'
          /\ OneOff(path, i)' /\ rows'[i].edges => Reported("edge", i)'
    BY <1>5, <1>8, <2>1, <2>2
  <2>5. rows'[i].outcome # "resource" =>
          /\ engine'.oracle /\ Trial(i)'.pcre2 # Trial(i)'.answer => Reported("match", i)'
          /\ engine'.pike /\ Trial(i)'.btanswer # Trial(i)'.answer
               /\ Ran("bt_match", i)'.outcome # "resource" => Reported("cross-matcher", i)'
    BY <1>5, <1>8, <2>1, <2>2, <2>3
  <2>6. rows'[i].outcome = Ran("match", i)'.outcome /\ rows'[i].used = Ran("match", i)'.used
    BY <1>8, <2>1 DEF got
  <2>7. QED BY <2>4, <2>5, <2>6 DEF TrialFound
<1>10. \A j \in 1..Len(rows') : TrialFound(j)'
  <2>1. ASSUME NEW j \in 1..(i - 1) PROVE TrialFound(j)'
    <3>1. TrialFound(j)
      BY <1>2, <1>3 DEF FoundRight
    <3>2. QED BY <1>1, <1>4, <1>7, <3>1, TrialStays
  <2>2. \A j \in 1..Len(rows') : j = i \/ j \in 1..(i - 1)
    BY <1>2, <1>3, <1>7
  <2>3. QED BY <1>9, <2>1, <2>2
<1>11. EdgedRight'
  <2>1. EdgedRight
    BY <1>1 DEF FoundRight
  <2>2. /\ rows' = Append(rows, row) /\ row.edges = wanted
        /\ edged' = IF wanted THEN edged \cup {row.used} ELSE edged
        /\ wanted <=> row.outcome # "resource" /\ Wanted(row.used)
    BY <1>5, <1>6 DEF row
  <2>3. QED BY <1>2, <2>1, <2>2, EdgedGrows
<1>12. HeldFound'
  BY <1>1 DEF HeldFound, FoundRight
<1>13. QED BY <1>1, <1>10, <1>11, <1>12 DEF FoundRight

\* A step that leaves the rows alone leaves what they are about.
LEMMA RowsStay ==
  ASSUME FoundRight, UNCHANGED <<engine, budget, rows, edged>>, findings \subseteq findings'
  PROVE  (\A i \in 1..Len(rows') : TrialFound(i)') /\ (EdgedRight => EdgedRight')
<1>1. ASSUME NEW i \in 1..Len(rows) PROVE TrialFound(i)'
  <2>1. TrialFound(i)
    BY DEF FoundRight
  <2>2. QED BY <2>1, TrialStays
<1>2. QED BY <1>1 DEF EdgedRight

\* The questions about the program, and a crash, come before there is a row or
\* a context to lose.
LEMMA EarlyFound ==
  ASSUME CaseTypes, StageRight, FoundRight, Compile \/ Believes \/ Class
  PROVE  FoundRight'
<1>1. /\ rows = <<>> /\ stage \in {"compile", "believes", "class"}
      /\ stage' \in {"believes", "class", "trials", "done"}
      /\ UNCHANGED <<rows, edged, held>>
  BY DEF Compile, Believes, Class, StageRight
<1>2. Len(rows') = 0
  BY <1>1
<1>3. EdgedRight'
  BY <1>1 DEF FoundRight, EdgedRight
<1>4. HeldFound'
  BY <1>1 DEF FoundRight, HeldFound
<1>5. QED BY <1>1, <1>2, <1>3, <1>4 DEF FoundRight

LEMMA CrashFound ==
  ASSUME FoundRight, Crashes("believes") \/ Crashes("bounds"), stage \in {"believes", "trials"}
  PROVE  FoundRight'
<1>1. rows' = <<>> /\ stage' = "done" /\ UNCHANGED held /\ Len(rows') = 0
  BY DEF Crashes
<1>2. HeldFound'
  BY <1>1 DEF FoundRight, HeldFound
<1>3. QED BY <1>1, <1>2 DEF FoundRight

LEMMA TrialsDoneFound ==
  ASSUME CaseTypes, FoundRight, TrialsDone
  PROVE  FoundRight'
<1>1. /\ stage = "trials" /\ stage' = "context"
      /\ UNCHANGED <<engine, budget, rows, edged, held, findings>>
  BY DEF TrialsDone
<1>2. (\A i \in 1..Len(rows') : TrialFound(i)') /\ EdgedRight'
  BY <1>1, RowsStay DEF FoundRight
<1>3. HeldFound'
  BY <1>1 DEF FoundRight, HeldFound
<1>4. QED BY <1>1, <1>2, <1>3 DEF FoundRight

\* A context that is not what its accessor says is seen when it is made.
LEMMA ContextFinds ==
  ASSUME CaseTypes, FoundRight, StageRight, Context
  PROVE  FoundRight'
<1>1. /\ stage = "context" /\ UNCHANGED <<engine, budget, at, rows, edged>>
      /\ stage' \in {"calls", "done"}
  BY DEF Context
<1>2. /\ Len(rows) = Len(engine.trials) /\ Len(rows') = Len(engine'.trials) /\ held.reserved = None
  BY <1>1 DEF StageRight, FoundRight, HeldFound
<1>3. findings \subseteq findings'
  BY DEF Context
<1>4. (\A i \in 1..Len(rows') : TrialFound(i)') /\ EdgedRight'
  BY <1>1, <1>3, RowsStay DEF FoundRight
<1>5. CASE Creation(CreationLimits) # "ok"
  <2>1. stage' = "done" /\ UNCHANGED held
    BY <1>5 DEF Context
  <2>2. HeldFound'
    BY <1>2, <2>1 DEF HeldFound
  <2>3. QED BY <1>2, <1>4, <2>2 DEF FoundRight
<1>6. CASE Creation(CreationLimits) = "ok"
  <2> DEFINE asked    == engine.bound[engine.maxlen]["mem"]
             what     == engine.fault.what
             reserved == asked + (IF what = "reserves" THEN 1 ELSE 0)
             resident == reserved + (IF what = "resident" THEN 1 ELSE 0)
             most     == budget["mem"]
             below    == [CreationLimits EXCEPT !["mem"] = reserved - 1]
  <2>1. asked \in {None} \cup Nat /\ most \in Nat
    BY DEF CaseTypes, EngineRight, Amounts, Kinds
  <2>2. CreationLimits["mem"] = most /\ CreationLimits["cost"] = most
    BY DEF CreationLimits, CaseTypes, Amounts, Kinds
  <2>3. below["mem"] = reserved - 1 /\ below["cost"] = most
    BY DEF CreationLimits, CaseTypes, Amounts, Kinds
  <2>4. asked # None /\ asked <= most
    <3>1. asked # None /\ ~(asked > most)
      BY <1>6, <2>2 DEF Creation
    <3>2. QED BY <2>1, <3>1 DEF None
  <2>5. /\ stage' = "calls"
        /\ held' = [reserved |-> reserved, reports |-> reserved + (IF what = "reports" THEN 1 ELSE 0),
                    cap |-> CreationLimits]
        /\ findings' = findings \cup FailureIf(asked # reserved \/ resident # reserved, "context", 0)
                                \cup CreationEdge(reserved)
    BY <1>6 DEF Context
  <2>6. ASSUME what = "create", reserved > 0 PROVE Failure("context", 0) \in CreationEdge(reserved)
    <3>1. reserved = asked
      BY <2>1, <2>6 DEF None
    <3>2. Creation(below) # "resource"
      <4>1. ~(asked > below["mem"] + 1) /\ ~(asked > below["cost"])
        BY <2>1, <2>3, <2>4, <3>1 DEF None
      <4>2. QED BY <2>4, <2>6, <4>1 DEF Creation
    <3> HIDE DEF asked, reserved
    <3>3. QED BY <2>6, <3>2 DEF CreationEdge, FailureIf
  <2>7. ASSUME what = "reserves" \/ what = "resident"
        PROVE  Failure("context", 0) \in FailureIf(asked # reserved \/ resident # reserved, "context", 0)
    <3>1. asked # reserved \/ resident # reserved
      BY <2>1, <2>7 DEF None
    <3>2. QED BY <3>1 DEF FailureIf
  <2>8. reserved \in Nat
    BY <2>1, <2>4 DEF None
  <2> HIDE DEF asked, reserved, resident, below
  <2>9. what \in {"create", "reserves", "resident"} /\ reserved > 0 => Failure("context", 0) \in findings'
    BY <2>5, <2>6, <2>7
  <2>10. /\ CreationLimits' = CreationLimits /\ at' = 1
         /\ Reported("context", 0)' <=> Failure("context", 0) \in findings'
    BY <1>1 DEF CreationLimits, StageRight, Reported, Failure
  <2>11. ContextFound'
    <3>1. /\ held'.reserved = reserved /\ held'.cap = CreationLimits
          /\ held'.reports = reserved + (IF what = "reports" THEN 1 ELSE 0)
      BY <2>5
    <3>2. engine'.fault.what = what
      BY <1>1
    <3>3. ~ \E i \in Trials' : stage' = "done" \/ i < at'
      BY <2>5, <2>10 DEF Trials
    <3> HIDE DEF what
    <3>4. QED BY <2>5, <2>8, <2>9, <2>10, <3>1, <3>2, <3>3 DEF ContextFound
  <2>12. held'.reserved # None
    BY <2>5, <2>8 DEF None
  <2>13. HeldFound'
    BY <1>2, <2>5, <2>11, <2>12 DEF HeldFound
  <2>14. QED BY <1>4, <2>5, <2>13 DEF FoundRight
<1>7. QED BY <1>5, <1>6

LEMMA ContextCallFound ==
  ASSUME CaseTypes, FoundRight, StageRight, ContextCall
  PROVE  FoundRight'
<1>1. /\ stage = "calls" /\ at <= Len(engine.trials) /\ at' = at + 1
      /\ UNCHANGED <<engine, budget, stage, rows, edged, held>>
  BY DEF ContextCall
<1>2. /\ Len(rows) = Len(engine.trials) /\ Len(rows) \in Nat /\ at \in Nat \ {0}
      /\ held.reserved # None /\ ContextFound
  BY <1>1 DEF StageRight, FoundRight, HeldFound
<1>3. PICK i \in Trials : i = at
  BY <1>1, <1>2 DEF Trials
<1>4. findings \subseteq findings'
  BY DEF ContextCall
<1>5. (\A j \in 1..Len(rows') : TrialFound(j)') /\ EdgedRight'
  BY <1>1, <1>4, RowsStay DEF FoundRight
<1> DEFINE got  == ContextRun(i, held.cap)
           what == engine.fault.what
<1>6. findings' = findings \cup
          FailureIf(\/ got.used["mem"] # (IF got.outcome = "badinput" THEN 0 ELSE held.reserved)
                    \/ IF Trial(i).len > engine.maxlen
                       THEN got.outcome # "badinput"
                       ELSE /\ rows[i].outcome # "resource"
                            /\ got.outcome # rows[i].outcome, "context", i)
  BY <1>3 DEF ContextCall
<1>7. ASSUME Trial(i).len <= engine.maxlen
      PROVE  /\ got.used["mem"] = held.reports
             /\ got.outcome \in {Trial(i).ctxanswer, "resource"}
             /\ ~(Trial(i).len > engine.maxlen)
  <2>1. held.cap = CreationLimits
    BY <1>2 DEF ContextFound
  <2>2. held.cap \in Amounts /\ Trial(i).ctxneed \in Amounts
    BY <2>1 DEF CreationLimits, CaseTypes, EngineRight, Amounts, Kinds
  <2>3. \A k \in {"cost", "stack"} : held.cap[k] <= held.cap[k]
    BY <2>2 DEF Amounts, Kinds
  <2>4. ~(Trial(i).len > engine.maxlen)
    BY <1>7 DEF CaseTypes, EngineRight
  <2>5. QED BY <2>2, <2>3, <2>4, CallEnds
<1> HIDE DEF got
<1>8. /\ rows[i].outcome # "resource" => rows[i].outcome = Trial(i).answer
      /\ Trial(i).answer # "resource"
  <2>1. TrialFound(i)
    BY <1>2, <1>3 DEF FoundRight, Trials
  <2>2. Ran("match", i).outcome \in {"resource", Trial(i).answer} /\ Trial(i).answer # "resource"
    BY RanTyped DEF Refusals, Paths, Says
  <2>3. QED BY <2>1, <2>2 DEF TrialFound
<1>9. ASSUME Trial(i).len <= engine.maxlen
      PROVE  /\ rows[i].outcome # "resource" /\ Trial(i).ctxanswer # Trial(i).answer
                  => Failure("context", i) \in findings'
             /\ what = "reports" => Failure("context", i) \in findings'
  <2>1. rows[i].outcome # "resource" /\ Trial(i).ctxanswer # Trial(i).answer => got.outcome # rows[i].outcome
    BY <1>7, <1>8, <1>9
  <2>2. what = "reports" => /\ got.used["mem"] = held.reserved + 1 /\ held.reserved \in Nat
    BY <1>2, <1>7, <1>9 DEF ContextFound
  <2>3. what = "reports" => got.used["mem"] # (IF got.outcome = "badinput" THEN 0 ELSE held.reserved)
    BY <2>2
  <2>4. QED BY <1>6, <1>7, <1>9, <2>1, <2>3 DEF FailureIf
<1>10. /\ CreationLimits' = CreationLimits /\ Trials' = Trials /\ engine' = engine
       /\ \A j : Trial(j)' = Trial(j)
       /\ \A j : Reported("context", j)' <=> Failure("context", j) \in findings'
       /\ \A j : Reported("context", j) <=> Failure("context", j) \in findings
  BY <1>1, SameRuns, SameCase DEF CreationLimits, Reported, Failure
<1>11. \A j \in Trials : j < at' => CallFound(j)'
  <2> SUFFICES ASSUME NEW j \in Trials, j < at' PROVE CallFound(j)'
    OBVIOUS
  <2>1. CASE j = i
    BY <1>1, <1>9, <1>10, <2>1 DEF CallFound
  <2>2. CASE j # i
    <3>1. j < at
      BY <1>1, <1>2, <1>3, <2>2 DEF Trials
    <3>2. CallFound(j)
      BY <1>2, <3>1 DEF ContextFound
    <3>3. QED BY <1>1, <1>4, <1>10, <3>2 DEF CallFound
  <2>3. QED BY <2>1, <2>2
<1>12. ContextFound'
  BY <1>1, <1>2, <1>4, <1>10, <1>11 DEF ContextFound
<1>13. HeldFound'
  BY <1>1, <1>2, <1>12 DEF HeldFound
<1>14. QED BY <1>1, <1>5, <1>13 DEF FoundRight

\* A limit one off on the context is seen at the edges of the call that ended.
LEMMA CallOneOffSeen ==
  ASSUME CaseTypes, Roomy, ContextFound, NEW i \in Trials, Trial(i).len <= engine.maxlen,
         engine.fault.what = "limit", engine.fault.path = "context", engine.fault.kind # "mem",
         Trial(i).ctxneed[engine.fault.kind] > 0
  PROVE  Failure("context", i) \in CallEdge(i)
<1> DEFINE cap  == held.cap
           need == Trial(i).ctxneed
           kind == engine.fault.kind
           by   == engine.fault.by
           got  == ContextRun(i, cap)
           Two  == {"cost", "stack"}
<1>1. /\ kind \in Two /\ by \in {-1, 1} /\ need[kind] > 0
      /\ need["cost"] < budget["mem"] /\ need["stack"] < budget["stack"]
  BY DEF Roomy, Kinds
<1>2. cap = CreationLimits /\ cap \in Amounts /\ need \in Amounts
  BY DEF ContextFound, CreationLimits, CaseTypes, EngineRight, Amounts, Kinds
<1>3. cap["cost"] = budget["mem"] /\ cap["stack"] = budget["stack"]
  BY <1>2 DEF CreationLimits, CaseTypes, Amounts, Kinds
<1>4. \A k \in Two : cap[k] \in Nat /\ need[k] \in Nat /\ need[k] < cap[k]
  BY <1>1, <1>2, <1>3 DEF Amounts, Kinds
<1>5. ~(Trial(i).len > engine.maxlen) /\ Trial(i).ctxanswer # "resource"
  BY DEF CaseTypes, EngineRight, Refusals
<1> HIDE DEF need, kind, by, cap
<1>6. \A k \in Two : \A limit :
        Allows("context", k, limit, need[k]) <=> limit + (IF k = kind THEN by ELSE 0) >= need[k]
  BY DEF Allows, kind, by
<1>7. got.outcome = Trial(i).ctxanswer /\ \A k \in Two : got.used[k] = need[k]
  <2>1. \A k \in Two : cap[k] <= cap[k] /\ Allows("context", k, cap[k], need[k])
    BY <1>1, <1>4, <1>6
  <2>2. QED BY <1>2, <1>5, <2>1, CallEnds DEF cap, need
<1>8. ASSUME NEW limit \in Nat, limit <= need[kind]
      PROVE  LET at_ == [cap EXCEPT ![kind] = limit]
             IN /\ at_ \in Amounts /\ at_[kind] = limit
                /\ \A k \in Two : at_[k] <= cap[k] /\ (k # kind => at_[k] = cap[k])
  BY <1>1, <1>2, <1>4, <1>8 DEF Amounts, Kinds
<1> HIDE DEF got
<1>9. CASE by = -1
  <2> DEFINE exact == [cap EXCEPT ![kind] = need[kind]]
  <2>1. /\ exact \in Amounts /\ exact[kind] = need[kind]
        /\ \A k \in Two : exact[k] <= cap[k]
    BY <1>1, <1>4, <1>8
  <2> HIDE DEF exact
  <2>2. ~ Allows("context", kind, exact[kind], need[kind])
    BY <1>1, <1>4, <1>6, <1>9, <2>1
  <2>3. ContextRun(i, exact).outcome = "resource"
    BY <1>1, <1>2, <1>5, <2>1, <2>2, CallEnds DEF cap, need
  <2>4. ContextRun(i, [held.cap EXCEPT ![kind] = got.used[kind]]).outcome # got.outcome
    BY <1>1, <1>5, <1>7, <2>3 DEF exact, cap
  <2>5. QED BY <1>1, <2>4 DEF CallEdge, FailureIf, got, cap
<1>10. CASE by = 1
  <2> DEFINE below == [cap EXCEPT ![kind] = need[kind] - 1]
  <2>1. /\ below \in Amounts /\ below[kind] = need[kind] - 1
        /\ \A k \in Two : below[k] <= cap[k] /\ (k # kind => below[k] = cap[k])
    <3>1. need[kind] - 1 \in Nat /\ need[kind] - 1 <= need[kind]
      BY <1>1, <1>4
    <3>2. QED BY <1>8, <3>1
  <2> HIDE DEF below
  <2>2. \A k \in Two : Allows("context", k, below[k], need[k])
    <3>1. Allows("context", kind, below[kind], need[kind])
      BY <1>1, <1>4, <1>6, <1>10, <2>1
    <3>2. \A k \in Two \ {kind} : Allows("context", k, below[k], need[k])
      BY <1>4, <1>6, <2>1
    <3>3. QED BY <3>1, <3>2
  <2>3. ContextRun(i, below).outcome # "resource"
    BY <1>2, <1>5, <2>1, <2>2, CallEnds DEF cap, need
  <2>4. /\ got.used[kind] > 0
        /\ ContextRun(i, [held.cap EXCEPT ![kind] = got.used[kind] - 1]).outcome # "resource"
    BY <1>1, <1>7, <2>3 DEF below, cap
  <2>5. QED BY <1>1, <2>4 DEF CallEdge, FailureIf, got, cap
<1>11. QED BY <1>1, <1>9, <1>10

LEMMA CallEdgesFound ==
  ASSUME CaseTypes, Roomy, FoundRight, StageRight, CallEdges
  PROVE  FoundRight'
<1>1. /\ stage = "calls" /\ stage' = "done" /\ at > Len(engine.trials)
      /\ UNCHANGED <<engine, budget, at, rows, edged, held>>
  BY DEF CallEdges
<1>2. /\ Len(rows) = Len(engine.trials) /\ Len(rows) \in Nat /\ at \in Nat
      /\ held.reserved # None /\ ContextFound
  BY <1>1 DEF StageRight, FoundRight, HeldFound
<1>3. findings \subseteq findings'
  BY DEF CallEdges
<1>4. (\A j \in 1..Len(rows') : TrialFound(j)') /\ EdgedRight'
  BY <1>1, <1>3, RowsStay DEF FoundRight
<1>5. /\ CreationLimits' = CreationLimits /\ Trials' = Trials /\ engine' = engine
      /\ Completed' = Completed /\ Completed \subseteq 1..Len(rows)
      /\ \A j : Trial(j)' = Trial(j)
      /\ \A j : Reported("context", j)' <=> Failure("context", j) \in findings'
      /\ \A j : Reported("context", j) <=> Failure("context", j) \in findings
  BY <1>1, SameRuns, SameCase DEF CreationLimits, Reported, Failure, Completed, Trial
<1>6. EdgeFound'
  <2> SUFFICES ASSUME engine.fault.what = "limit", engine.fault.path = "context", engine.fault.kind # "mem",
                      NEW i \in Completed, \A j \in Completed : i <= j,
                      Trial(i).ctxneed[engine.fault.kind] > 0
               PROVE  Failure("context", i) \in findings'
    BY <1>5 DEF EdgeFound
  <2> DEFINE least == CHOOSE j \in Completed : \A l \in Completed : j <= l
  <2>1. least \in Completed /\ \A l \in Completed : least <= l
    OBVIOUS
  <2>2. \A j \in Completed : j \in Nat
    BY <1>2, <1>5
  <2>3. i = least
    <3> HIDE DEF least
    <3>1. i <= least /\ least <= i /\ i \in Nat /\ least \in Nat
      BY <2>1, <2>2
    <3>2. QED BY <3>1
  <2>4. findings' = findings \cup CallEdge(least)
    BY DEF CallEdges
  <2> HIDE DEF least
  <2>5. i \in Trials /\ Trial(i).len <= engine.maxlen
    BY <1>2, <1>5 DEF Completed, Trials
  <2>6. Failure("context", i) \in CallEdge(i)
    BY <1>2, <2>5, CallOneOffSeen
  <2>7. QED BY <2>3, <2>4, <2>6
<1>7. \A i \in Trials : CallFound(i)'
  <2> SUFFICES ASSUME NEW i \in Trials PROVE CallFound(i)'
    OBVIOUS
  <2>1. i < at
    BY <1>1, <1>2 DEF Trials
  <2>2. CallFound(i)
    BY <1>2, <2>1 DEF ContextFound
  <2>3. QED BY <1>1, <1>3, <1>5, <2>2 DEF CallFound
<1>8. ContextFound'
  BY <1>1, <1>2, <1>3, <1>5, <1>6, <1>7 DEF ContextFound
<1>9. HeldFound'
  BY <1>1, <1>2, <1>8 DEF HeldFound
<1>10. QED BY <1>1, <1>2, <1>4, <1>9 DEF FoundRight

LEMMA FoundStepKeeps ==
  ASSUME CaseTypes, Roomy, StageRight, FoundRight, Next
  PROVE  FoundRight'
<1>1. CASE Compile \/ Believes \/ Class
  BY <1>1, EarlyFound
<1>2. CASE (stage = "believes" /\ Crashes("believes")) \/ (stage = "trials" /\ Crashes("bounds"))
  BY <1>2, CrashFound
<1>3. QED
  BY <1>1, <1>2, OneTrialFound, TrialsDoneFound, ContextFinds, ContextCallFound, CallEdgesFound DEF Next

LEMMA FoundInvNext == FoundInv /\ [AnyStep]_allVars => FoundInv'
<1> SUFFICES ASSUME FoundInv, about' = "case", [AnyStep]_allVars
             PROVE  (CaseTypes /\ Roomy /\ StageRight /\ FoundRight)'
  BY DEF FoundInv
<1>1. about = "case" /\ CaseTypes /\ Roomy /\ StageRight /\ FoundRight
  BY DEF FoundInv, AnyStep, allVars
<1>2. CASE UNCHANGED vars
  <2>1. UNCHANGED <<engine, budget, stage, at, rows, edged, held, findings>>
    BY <1>2 DEF vars
  <2>2. (CaseTypes' <=> CaseTypes) /\ (Roomy' <=> Roomy) /\ Rows' = Rows /\ Trials' = Trials
    BY <2>1, SameCase, SameRuns
  <2>3. StageRight'
    BY <1>1, <2>1, <2>2 DEF StageRight
  <2>4. (\A i \in 1..Len(rows') : TrialFound(i)') /\ (EdgedRight => EdgedRight')
    BY <1>1, <2>1, RowsStay
  <2>5. /\ CreationLimits' = CreationLimits /\ Completed' = Completed
        /\ \A i : Trial(i)' = Trial(i) /\ \A kind : Reported(kind, i)' <=> Reported(kind, i)
    BY <2>1 DEF CreationLimits, Completed, Trial, Reported, Failure
  <2>6. (EdgeFound' <=> EdgeFound) /\ \A i : CallFound(i)' <=> CallFound(i)
    BY <2>1, <2>5 DEF EdgeFound, CallFound
  <2>7. ContextFound => ContextFound'
    BY <2>1, <2>2, <2>5, <2>6 DEF ContextFound
  <2>8. HeldFound'
    BY <1>1, <2>1, <2>7 DEF FoundRight, HeldFound
  <2>9. QED BY <1>1, <2>1, <2>2, <2>3, <2>4, <2>8 DEF FoundRight
<1>3. CASE CaseStep
  <2>1. Next
    BY <1>3 DEF CaseStep
  <2>2. UNCHANGED <<engine, budget>> /\ StageRight'
    BY <1>1, <2>1, StageKeeps
  <2>3. (CaseTypes' <=> CaseTypes) /\ (Roomy' <=> Roomy)
    BY <2>2, SameCase, SameRuns
  <2>4. QED BY <1>1, <2>1, <2>2, <2>3, FoundStepKeeps
<1>4. QED BY <1>1, <1>2, <1>3 DEF AnyStep, ReduceStep, PoolStep, LoopStep, allVars

\* What has been found when the case is over.
LEMMA FoundInvHas == FoundInv => FaultsReported
<1> SUFFICES ASSUME FoundInv, about = "case"
             PROVE  ShortBoundReported /\ BoundaryReported /\ DisagreementReported /\ ReservationReported
  BY DEF FaultsReported
<1>1. CaseTypes /\ Roomy /\ StageRight /\ FoundRight
  BY DEF FoundInv
<1>2. ASSUME Done, rows # <<>>
      PROVE  /\ EdgedRight /\ \A i \in Trials : TrialFound(i)
             /\ \A i : Capped(i) => rows[i].outcome = "resource"
             /\ \A i \in Trials : ~ Capped(i) => rows[i].outcome # "resource"
             /\ 1..Len(rows) = Trials
  BY <1>1, <1>2 DEF Done, FoundRight, Trials, Capped
<1>3. ASSUME Done, held.reserved # None
      PROVE  /\ ContextFound /\ EdgeFound /\ \A i \in Trials : CallFound(i)
             /\ Len(rows) = Len(engine.trials)
  BY <1>1, <1>3 DEF Done, FoundRight, HeldFound, ContextFound
<1>4. ShortBoundReported
  <2> SUFFICES ASSUME Done, rows # <<>>, NEW i \in Trials, NEW path \in Paths,
                      path = "bt_match" => engine.pike,
                      \A k \in Kinds : BoundOf(path, i)[k] # None /\ BoundOf(path, i)[k] <= budget[k],
                      \E k \in Kinds : Need(path, i)[k] > BoundOf(path, i)[k]
               PROVE  Reported("bound", i)
    BY DEF ShortBoundReported, Paths, BoundOf
  <2>1. Short(path, i)
    BY DEF Short, Taken, Sufficient, Paths
  <2>2. TrialFound(i)
    BY <1>2
  <2>3. QED BY <2>1, <2>2 DEF TrialFound
<1>5. BoundaryReported
  <2> SUFFICES ASSUME Done, rows # <<>>, engine.fault.what = "limit"
               PROVE  /\ /\ engine.fault.path = "match"
                         /\ Cardinality({rows[i].used : i \in Trials}) <= Edges
                         /\ \E i \in Trials : Need("match", i)[engine.fault.kind] > 0
                         => \E i \in Trials : Reported("edge", i)
                      /\ engine.fault.path = "bt_match" /\ engine.pike =>
                           \A i \in Trials : rows[i].edges /\ Need("bt_match", i)[engine.fault.kind] > 0
                                               => Reported("edge", i)
                      /\ engine.fault.path = "context" /\ engine.fault.kind # "mem" /\ held.reserved # None =>
                           \A i \in Completed :
                              (\A j \in Completed : i <= j) /\ Trial(i).ctxneed[engine.fault.kind] > 0
                                => Reported("context", i)
    BY DEF BoundaryReported
  <2>1. ASSUME engine.fault.path = "match", Cardinality({rows[i].used : i \in Trials}) <= Edges,
               NEW i \in Trials, Need("match", i)[engine.fault.kind] > 0
        PROVE  \E j \in Trials : Reported("edge", j)
    <3> DEFINE All == {rows[j].used : j \in Trials}
    <3>1. ASSUME NEW j \in Trials
          PROVE  rows[j].used = Need("match", j) /\ rows[j].outcome # "resource"
      <4>1. Ran("match", j) = [outcome |-> Says("match", j), used |-> Need("match", j)]
        BY <1>1, RoomyRuns DEF Paths
      <4>2. Says("match", j) # "resource"
        BY <1>1, RanTyped DEF Paths, Refusals
      <4>3. TrialFound(j)
        BY <1>2
      <4>4. QED BY <4>1, <4>2, <4>3 DEF TrialFound
    <3>2. EdgedRight /\ i \in 1..Len(rows)
      BY <1>2
    <3>3. edged \subseteq All
      BY <1>2 DEF EdgedRight
    <3>4. IsFiniteSet(All)
      <4> DEFINE n == Len(engine.trials)
                 used == [j \in Trials |-> rows[j].used]
      <4>1. n \in Int /\ 1 \in Int
        BY <1>1 DEF CaseTypes, EngineRight
      <4> HIDE DEF n
      <4>2. IsFiniteSet(1..n)
        BY <4>1, FS_Interval
      <4>3. IsFiniteSet(Trials)
        BY <4>2 DEF n, Trials
      <4>4. used \in Surjection(Trials, All)
        BY DEF Surjection
      <4> HIDE DEF used, All
      <4>5. QED BY <4>3, <4>4, FS_Surjection
    <3>5. rows[i].used \in edged
      <4> SUFFICES ASSUME rows[i].used \notin edged PROVE FALSE
        OBVIOUS
      <4>1. Cardinality(edged) >= Edges /\ rows[i].used \in All
        BY <2>1, <3>1, <3>2 DEF EdgedRight
      <4> HIDE DEF All
      <4>2. edged # All /\ edged \subseteq All
        BY <3>3, <4>1
      <4>3. Cardinality(edged) < Cardinality(All) /\ Cardinality(edged) \in Nat /\ Cardinality(All) \in Nat
        BY <3>4, <4>2, FS_Subset, FS_CardinalityType
      <4>4. QED BY <2>1, <4>1, <4>3, SweepAssumption DEF All
    <3>6. PICK j \in 1..Len(rows) : rows[j].edges /\ rows[j].used = rows[i].used
      BY <3>2, <3>5 DEF EdgedRight
    <3>7. j \in Trials /\ TrialFound(j)
      BY <1>2
    <3>8. OneOff("match", j)
      <4>1. Need("match", j) = Need("match", i)
        BY <3>1, <3>6, <3>7
      <4>2. QED BY <2>1, <4>1 DEF OneOff, Taken
    <3>9. QED BY <3>6, <3>7, <3>8 DEF TrialFound, Paths
  <2>2. ASSUME engine.fault.path = "bt_match", engine.pike, NEW i \in Trials, rows[i].edges,
               Need("bt_match", i)[engine.fault.kind] > 0
        PROVE  Reported("edge", i)
    <3>1. OneOff("bt_match", i)
      BY <2>2 DEF OneOff, Taken
    <3>2. TrialFound(i)
      BY <1>2
    <3>3. QED BY <2>2, <3>1, <3>2 DEF TrialFound, Paths
  <2>3. ASSUME engine.fault.path = "context", engine.fault.kind # "mem", held.reserved # None
        PROVE  EdgeFound
    BY <1>3, <2>3
  <2>4. QED BY <2>1, <2>2, <2>3 DEF EdgeFound
<1>6. DisagreementReported
  <2> SUFFICES ASSUME Done, rows # <<>>, NEW i \in Trials, ~ Capped(i)
               PROVE  /\ engine.oracle /\ Trial(i).pcre2 # Trial(i).answer => Reported("match", i)
                      /\ engine.pike /\ Trial(i).btanswer # Trial(i).answer
                           /\ Run("bt_match", i, LimitsFor(engine.btbound[Trial(i).len])).outcome # "resource"
                           => Reported("cross-matcher", i)
                      /\ held.reserved # None /\ Trial(i).len <= engine.maxlen
                           /\ Trial(i).ctxanswer # Trial(i).answer => Reported("context", i)
    BY DEF DisagreementReported
  <2>1. TrialFound(i) /\ rows[i].outcome # "resource"
    BY <1>2
  <2>2. Ran("bt_match", i) = Run("bt_match", i, LimitsFor(engine.btbound[Trial(i).len]))
    BY DEF Ran, BoundOf
  <2>3. held.reserved # None => CallFound(i)
    BY <1>3
  <2>4. QED BY <2>1, <2>2, <2>3 DEF TrialFound, CallFound
<1>7. ReservationReported
  <2> SUFFICES ASSUME Done, held.reserved > 0,
                      engine.fault.what \in {"create", "reserves", "resident", "reports"}
               PROVE  \E i \in 0..Len(engine.trials) : Reported("context", i)
    BY DEF ReservationReported
  <2>1. held.reserved # None /\ Len(engine.trials) \in Nat
    BY <1>1 DEF CaseTypes, EngineRight, None
  <2>2. CASE engine.fault.what = "reports"
    <3>1. PICK i \in Trials : Trial(i).len <= engine.maxlen
      BY <1>1, <2>2 DEF Roomy
    <3>2. CallFound(i)
      BY <1>3, <2>1
    <3>3. Reported("context", i) /\ i \in 0..Len(engine.trials)
      BY <2>1, <2>2, <3>1, <3>2 DEF CallFound, Trials
    <3>4. QED BY <3>3
  <2>3. CASE engine.fault.what # "reports"
    <3>1. Reported("context", 0)
      BY <1>3, <2>1, <2>3 DEF ContextFound
    <3>2. QED BY <2>1, <3>1
  <2>4. QED BY <2>2, <2>3
<1>8. QED BY <1>4, <1>5, <1>6, <1>7

LEMMA AnyFoundInv == AnyCase /\ Roomy => FoundInv
<1> SUFFICES ASSUME AnyCase, Roomy PROVE CaseTypes /\ StageRight /\ FoundRight
  BY DEF FoundInv
<1>1. /\ stage = "compile" /\ at = 1 /\ rows = <<>> /\ findings = {} /\ edged = {}
      /\ held.reserved = None /\ Len(rows) = 0
  BY DEF AnyCase, Begin
<1>2. CaseTypes /\ StageRight
  BY <1>1 DEF AnyCase, CaseTypes, StageRight
<1>3. EdgedRight
  BY <1>1, FS_EmptySet DEF EdgedRight
<1>4. HeldFound
  BY <1>1 DEF HeldFound
<1>5. QED BY <1>1, <1>2, <1>3, <1>4 DEF FoundRight

(***************************************************************************)
(* Whatever is wrong with an engine run_case finds: on any pattern with    *)
(* any number of trials, whatever they need and are certified for, however *)
(* many usages are edged and under every budget, a bound too short, an     *)
(* answer somebody else gives differently, a reservation that is not the   *)
(* accessor's, and a limit one off that has room for the run either side.  *)
(***************************************************************************)
THEOREM FaultsAreFound ==
  AnyCase /\ Roomy /\ [][AnyStep]_allVars => []FaultsReported
<1>1. QED BY AnyFoundInv, FoundInvNext, FoundInvHas, PTL

-----------------------------------------------------------------------------
(* The cases the sweep is run on.                                          *)

\* The trials and the bounds of an engine of the sweep.
SomeTrial == [len : {1}, need : Amounts, btneed : Amounts, ctxneed : Amounts,
              answer : {"a"}, btanswer : {"a", "b"}, ctxanswer : {"a", "b"}, pcre2 : {"a", "b"}]
SomeBound == [0..2 -> [Kinds -> {None} \cup Nat]]

\* The parts of a usage, and of a bound that is the same for every length.
LEMMA UsageIs ==
  ASSUME NEW c \in {None} \cup Nat, NEW s \in {None} \cup Nat, NEW m \in {None} \cup Nat
  PROVE  /\ Always(Usage(c, s, m)) \in SomeBound
         /\ c \in Nat /\ s \in Nat /\ m \in Nat => Usage(c, s, m) \in Amounts
<1>1. Usage(c, s, m) \in [Kinds -> {c, s, m}]
  BY DEF Usage, Kinds
<1>2. QED BY <1>1 DEF Always, SomeBound, Amounts

LEMMA EngineIs ==
  ASSUME NEW n \in Nat, engine.trials \in [1..n -> SomeTrial], engine.maxlen \in 0..2,
         engine.bound \in SomeBound, engine.btbound \in SomeBound
  PROVE  EngineRight
<1>1. engine.trials \in Seq(SomeTrial)
  BY SeqDef
<1>2. Len(engine.trials) \in Nat /\ \A i \in Trials : Trial(i) \in SomeTrial
  BY <1>1 DEF Trials, Trial
<1>3. engine.bound[engine.maxlen]["mem"] \in {None} \cup Nat
  <2>1. engine.bound[engine.maxlen] \in [Kinds -> {None} \cup Nat]
    BY DEF SomeBound
  <2>2. QED BY <2>1 DEF Kinds
<1>4. ASSUME NEW i \in Trials
      PROVE  /\ Trial(i).len = 1
             /\ Trial(i).need \in Amounts /\ Trial(i).btneed \in Amounts /\ Trial(i).ctxneed \in Amounts
             /\ Trial(i).answer \notin Refusals /\ Trial(i).btanswer \notin Refusals
             /\ Trial(i).ctxanswer \notin Refusals
  BY <1>2 DEF SomeTrial, Refusals
<1>5. ASSUME NEW k \in Kinds
      PROVE  engine.bound[1][k] \in {None} \cup Nat /\ engine.btbound[1][k] \in {None} \cup Nat
  BY DEF SomeBound
<1>6. \A i \in Trials, k \in Kinds :
        /\ engine.bound[Trial(i).len][k] \in {None} \cup Nat
        /\ engine.btbound[Trial(i).len][k] \in {None} \cup Nat
  BY <1>4, <1>5
<1>7. \A i \in Trials : Trial(i).len \in Nat
  BY <1>4
<1>8. engine.maxlen \in Nat
  OBVIOUS
<1>9. QED BY <1>2, <1>3, <1>4, <1>6, <1>7, <1>8 DEF EngineRight

\* The engines of the sweep are such engines.
LEMMA EnginesAre ==
  ASSUME NEW e \in AnyNeeds \cup AnyAnswers \cup Faulty \cup Contradictory
  PROVE  /\ \E n \in Nat : e.trials \in [1..n -> SomeTrial]
         /\ e.maxlen \in 0..2 /\ e.bound \in SomeBound /\ e.btbound \in SomeBound
<1> DEFINE One == Usage(1, 1, 1)
<1>1. One \in Amounts /\ Ample \in Amounts /\ Always(Ample) \in SomeBound
  BY UsageIs DEF Ample
<1>2. ATrial \in SomeTrial
  BY <1>1 DEF ATrial, SomeTrial
<1> HIDE DEF One
<1>3. \A t \in SomeTrial : <<t>> \in [1..1 -> SomeTrial]
  OBVIOUS
<1>4. /\ AnEngine.trials = <<ATrial>> /\ AnEngine.maxlen = 1
      /\ AnEngine.bound = Always(Ample) /\ AnEngine.btbound = Always(Ample)
  BY DEF AnEngine
<1>5. CASE e \in AnyNeeds
  <2> DEFINE made(pike, c, s, m, b, need, deep, btneed) ==
               Needing(pike, Usage(c, s, m), Usage(b, 1, 1),
                       Usage(need, deep, 1), Usage(btneed, 1, 1), Usage(need, 0, 1))
             some == {None, 1, 2}
             flat == {None, 0, 1}
  <2>1. /\ AnyNeeds = {made(pike, c, s, m, b, need, deep, btneed) :
                          pike \in BOOLEAN, c \in some, s \in flat, m \in some, b \in some,
                          need \in 0..2, deep \in 0..1, btneed \in 1..2}
        /\ \A c \in some, s \in flat, m \in some, b \in some :
             c \in {None, 1, 2} /\ s \in {None, 0, 1} /\ m \in {None, 1, 2} /\ b \in {None, 1, 2}
    BY DEF AnyNeeds
  <2> HIDE DEF made, some, flat
  <2>2. PICK pike \in BOOLEAN, c \in some, s \in flat, m \in some, b \in some,
             need \in 0..2, deep \in 0..1, btneed \in 1..2 :
           e = made(pike, c, s, m, b, need, deep, btneed)
    BY SMTT(60), <1>5, <2>1
  <2> DEFINE t == [ATrial EXCEPT !.need = Usage(need, deep, 1), !.btneed = Usage(btneed, 1, 1),
                                 !.ctxneed = Usage(need, 0, 1)]
  <2>3. c \in {None, 1, 2} /\ s \in {None, 0, 1} /\ m \in {None, 1, 2} /\ b \in {None, 1, 2}
    BY <2>1
  <2>4. Always(Usage(c, s, m)) \in SomeBound /\ Always(Usage(b, 1, 1)) \in SomeBound
    BY <2>3, UsageIs
  <2>5. Usage(need, deep, 1) \in Amounts /\ Usage(btneed, 1, 1) \in Amounts /\ Usage(need, 0, 1) \in Amounts
    BY UsageIs
  <2>6. t \in SomeTrial
    BY <1>2, <2>5 DEF SomeTrial
  <2>7. /\ e.trials = <<t>> /\ e.maxlen = 1
        /\ e.bound = Always(Usage(c, s, m)) /\ e.btbound = Always(Usage(b, 1, 1))
    BY <2>2 DEF made, Needing, AnEngine
  <2> HIDE DEF t
  <2>8. QED BY <1>3, <2>4, <2>6, <2>7
<1>6. CASE e \in AnyAnswers
  <2>1. PICK oracle \in BOOLEAN, s \in {None, 3}, n \in 0..2, b \in {"a", "b"}, c \in {"a", "b"},
             p \in {"a", "b"} :
           e = Answering(oracle, n, Usage(s, 3, 3), b, c, p)
    BY <1>6 DEF AnyAnswers
  <2> DEFINE t == [ATrial EXCEPT !.btanswer = b, !.ctxanswer = c, !.pcre2 = p]
  <2>2. Always(Usage(s, 3, 3)) \in SomeBound
    BY UsageIs
  <2>3. t \in SomeTrial
    BY <1>2 DEF SomeTrial
  <2>4. /\ e.trials = <<t>> /\ e.maxlen = n
        /\ e.bound = Always(Ample) /\ e.btbound = Always(Usage(s, 3, 3))
    BY <2>1 DEF Answering, AnEngine
  <2> HIDE DEF t
  <2>5. QED BY <1>1, <1>3, <2>2, <2>3, <2>4
<1>7. CASE e \in Faulty
  <2>1. PICK f \in Faults, pike \in BOOLEAN, needs \in [1..3 -> Needs],
             btneed \in {Usage(0, 0, 1), Usage(2, 1, 1)} :
           e = FaultyAt(f, pike, needs, btneed)
    BY <1>7 DEF Faulty
  <2> DEFINE t(i) == [ATrial EXCEPT !.need = needs[i], !.btneed = btneed, !.ctxneed = needs[i]]
             ts   == [i \in 1..3 |-> t(i)]
  <2>2. btneed \in Amounts /\ Needs \subseteq Amounts
    BY UsageIs DEF Needs
  <2>3. \A i \in 1..3 : t(i) \in SomeTrial
    BY <1>2, <2>2 DEF SomeTrial
  <2>4. e.trials = ts /\ e.maxlen = 1 /\ e.bound = Always(Ample) /\ e.btbound = Always(Ample)
    BY <2>1 DEF FaultyAt, AnEngine
  <2> HIDE DEF t
  <2>5. ts \in [1..3 -> SomeTrial]
    BY <2>3
  <2>6. QED BY <1>1, <2>4, <2>5
<1>8. CASE e \in Contradictory
  <2>1. \/ \E c, alike, r : e = Refusing(c, alike, r)
        \/ \E known, c : e = Claiming(known, c)
    BY <1>8 DEF Contradictory
  <2>2. /\ e.trials = <<ATrial>> /\ e.maxlen = 1
        /\ e.bound = Always(Ample) /\ e.btbound = Always(Ample)
    BY <1>4, <2>1 DEF Refusing, Claiming, AnEngine
  <2>3. QED BY <1>1, <1>2, <1>3, <2>2
<1>9. QED BY <1>5, <1>6, <1>7, <1>8

\* There is room around everything the engines at fault need.
LEMMA FaultyIsRoomy ==
  ASSUME NEW f \in Faults, NEW pike \in BOOLEAN, NEW needs \in [1..3 -> Needs],
         NEW btneed \in {Usage(0, 0, 1), Usage(2, 1, 1)},
         engine = FaultyAt(f, pike, needs, btneed), budget = Ample
  PROVE  Roomy
<1> DEFINE Small == {u \in Amounts : \A k \in Kinds : u[k] < 3}
           t(i) == [ATrial EXCEPT !.need = needs[i], !.btneed = btneed, !.ctxneed = needs[i]]
           ts   == [i \in 1..3 |-> t(i)]
<1>1. /\ engine.trials = ts /\ engine.maxlen = 1 /\ engine.fault = f
      /\ engine.bound = Always(Ample) /\ engine.btbound = Always(Ample)
  BY DEF FaultyAt, AnEngine
<1>2. \A i \in 1..3 : t(i).len = 1 /\ t(i).need = needs[i] /\ t(i).btneed = btneed /\ t(i).ctxneed = needs[i]
  BY DEF ATrial
<1>3. Trials = 1..3 /\ \A i \in 1..3 : Trial(i) = t(i)
  <2> HIDE DEF t
  <2>1. ts \in [1..3 -> {t(1), t(2), t(3)}]
    OBVIOUS
  <2>2. ts \in Seq({t(1), t(2), t(3)}) /\ Len(ts) = 3
    BY <2>1, SeqDef, LenProperties
  <2>3. QED BY <1>1, <2>2 DEF Trials, Trial
<1>4. Needs \cup {btneed} \subseteq Small
  <2>1. ASSUME NEW c \in 0..2, NEW s \in 0..2, NEW m \in 0..2 PROVE Usage(c, s, m) \in Small
    <3>1. Usage(c, s, m) \in [Kinds -> 0..2]
      BY DEF Usage, Kinds
    <3>2. QED BY <3>1 DEF Amounts
  <2> HIDE DEF Small
  <2>2. QED BY <2>1 DEF Needs
<1>5. \A k \in Kinds : Ample[k] = 3
  BY DEF Ample, Usage, Kinds
<1> HIDE DEF t, ts
<1>6. \A i \in Trials, path \in Paths :
        /\ Need(path, i) \in Small /\ Trial(i).ctxneed \in Small
        /\ BoundOf(path, i) = Ample
  BY <1>1, <1>2, <1>3, <1>4 DEF Need, Paths, BoundOf, Always
<1>7. f.what = "limit" => f.kind \in Kinds /\ f.by \in {-1, 1}
  BY DEF Faults, NoFault
<1>8. Trial(1).len <= engine.maxlen /\ 1 \in Trials
  BY <1>1, <1>2, <1>3
<1>9. \A i \in Trials, path \in Paths, k \in Kinds :
        /\ Need(path, i)[k] < budget[k] /\ Need(path, i)[k] < BoundOf(path, i)[k]
        /\ Trial(i).ctxneed[k] < budget[k] /\ budget[k] = 3
  BY <1>5, <1>6
<1>10. \A i \in Trials : Trial(i).ctxneed["cost"] < budget["mem"] /\ Trial(i).ctxneed["stack"] < budget["stack"]
  BY <1>9 DEF Kinds, Paths
<1>11. QED BY <1>1, <1>7, <1>8, <1>9, <1>10 DEF Roomy

LEMMA SweptCase == Init /\ about = "case" => AnyCase /\ Roomy
<1> SUFFICES ASSUME Init, about = "case" PROVE AnyCase /\ Roomy
  OBVIOUS
<1>1. PICK e, b :
        /\ Begin(e, b)
        /\ \/ e \in AnyNeeds \cup AnyAnswers \cup Contradictory /\ b \in AnyBudget \cup {Ample}
           \/ e \in Faulty /\ b = Ample
  BY DEF Init, ACase
<1>2. engine = e /\ budget = b /\ budget \in AnyBudget \cup {Ample} /\ Begin(engine, budget)
  BY <1>1 DEF Begin
<1>3. AnyBudget \cup {Ample} \subseteq Amounts
  <2>1. ASSUME NEW c \in 1..2, NEW s \in 0..1, NEW m \in 1..2 PROVE Usage(c, s, m) \in Amounts
    <3>1. c \in Nat /\ s \in Nat /\ m \in Nat
      OBVIOUS
    <3>2. QED BY <3>1, UsageIs
  <2>2. Usage(3, 3, 3) \in Amounts
    BY UsageIs
  <2>3. QED BY <2>1, <2>2 DEF AnyBudget, Ample
<1>4. EngineRight
  BY <1>1, <1>2, EnginesAre, EngineIs
<1>5. AnyCase
  BY <1>2, <1>3, <1>4 DEF AnyCase
<1>6. Roomy
  <2>1. CASE e \in AnyNeeds \cup AnyAnswers \cup Contradictory
    <3>1. e.fault = NoFault
      <4>1. CASE e \in AnyNeeds
        <5>1. \E pike, bound, btbound, need, btneed, ctxneed :
                 e = Needing(pike, bound, btbound, need, btneed, ctxneed)
          BY <4>1 DEF AnyNeeds
        <5>2. QED BY <5>1 DEF Needing, AnEngine
      <4>2. CASE e \in AnyAnswers
        <5>1. \E oracle, n, btbound, bt, ctx, pcre2 : e = Answering(oracle, n, btbound, bt, ctx, pcre2)
          BY <4>2 DEF AnyAnswers
        <5>2. QED BY <5>1 DEF Answering, AnEngine
      <4>3. CASE e \in Contradictory
        <5>1. \/ \E c, alike, r : e = Refusing(c, alike, r)
              \/ \E known, c : e = Claiming(known, c)
          BY <4>3 DEF Contradictory
        <5>2. QED BY <5>1 DEF Refusing, Claiming, AnEngine
      <4>4. QED BY <2>1, <4>1, <4>2, <4>3
    <3>2. QED BY <1>2, <3>1 DEF Roomy, NoFault
  <2>2. CASE e \in Faulty /\ b = Ample
    BY <1>2, <2>2, FaultyIsRoomy DEF Faulty
  <2>3. QED BY <1>1, <2>1, <2>2
<1>7. QED BY <1>5, <1>6

LEMMA SweptInv == Init => CaseInv /\ FoundInv
<1>1. about # "case" => CaseInv /\ FoundInv
  BY DEF CaseInv, FoundInv
<1>2. QED BY <1>1, SweptCase, AnyCaseInv, AnyFoundInv DEF Init

(***************************************************************************)
(* No engine the sweep is run on with nothing wrong with it gets a finding.*)
(***************************************************************************)
THEOREM NoFalseAlarmHolds == Spec => []NoFalseAlarm
<1>1. QED BY SweptInv, CaseInvNext, CaseInvHas, PTL DEF Spec, AnyStep

(***************************************************************************)
(* Whatever is wrong with an engine the sweep is run on is reported.       *)
(***************************************************************************)
THEOREM FaultsReportedHolds == Spec => []FaultsReported
<1>1. QED BY SweptInv, FoundInvNext, FoundInvHas, PTL DEF Spec, AnyStep
=============================================================================
