------------------------------ MODULE SweepCase ------------------------------
(***************************************************************************)
(* sweep/checks.py, one case of a sweep: what the harness asks of an       *)
(* engine about one pattern and its trials, and which findings it makes of *)
(* the answers.  The engine is any engine: what each of its calls needs,   *)
(* what it certifies, what it answers and where it is at fault are data,   *)
(* and the steps are the harness's, one per question it asks.  A finding   *)
(* keeps its class and its trial; its wording and the coverage counts are  *)
(* left out, except the edges a row is marked with.                        *)
(***************************************************************************)
EXTENDS Integers, Sequences, FiniteSets, SequencesExt

CONSTANT Edges      \* how many distinct usages of a case get the limit edges

VARIABLES engine,    \* the engine under test, on this case
          budget,    \* the most a run of the sweep may spend
          stage, at, \* the question to ask next, and the trial it is about
          rows,      \* the trials' rows of the record
          edged,     \* the usages the edges have been run at
          held,      \* the context, once it is made
          findings

vars == <<engine, budget, stage, at, rows, edged, held, findings>>

Kinds == {"cost", "stack", "mem"}
None  == -1                        \* the ExceedsBudget of a bound

Lesser(a, b) == IF a < b THEN a ELSE b

(***************************************************************************)
(* The engine, from how the harness uses it.  A run answers when every     *)
(* limit covers what it needs; a fault moves one comparison of one entry   *)
(* point by one.                                                           *)
(***************************************************************************)
NoFault == [what |-> "none", path |-> "match", kind |-> "cost", by |-> 0]

Allows(path, kind, limit, need) ==
    limit + (IF /\ engine.fault.what = "limit"
                /\ engine.fault.path = path /\ engine.fault.kind = kind
             THEN engine.fault.by ELSE 0) >= need

Trial(i) == engine.trials[i]
Need(path, i) == IF path = "match" THEN Trial(i).need ELSE Trial(i).btneed
Says(path, i) == IF path = "match" THEN Trial(i).answer ELSE Trial(i).btanswer

Run(path, i, limits) ==
    IF \E k \in Kinds : limits[k] < 0
    THEN [outcome |-> "badinput", used |-> [k \in Kinds |-> 0]]
    ELSE IF \A k \in Kinds : Allows(path, k, limits[k], Need(path, i)[k])
    THEN [outcome |-> Says(path, i), used |-> Need(path, i)]
    ELSE [outcome |-> "resource",
          used |-> [k \in Kinds |-> Lesser(limits[k], Need(path, i)[k])]]

\* Creation is charged the reservation, in bytes and in cost.
Creation(limits) ==
    LET reserved == engine.bound[engine.maxlen]["mem"]
        slack    == IF engine.fault.what = "create" THEN 1 ELSE 0
    IN IF reserved = None THEN "exceeds"
       ELSE IF reserved > limits["mem"] + slack \/ reserved > limits["cost"]
            THEN "resource" ELSE "ok"

ContextRun(i, limits) ==
    LET t == Trial(i)
    IN IF \/ t.len > engine.maxlen
          \/ \E k \in {"cost", "stack"} : limits[k] < 0 \/ limits[k] > held.cap[k]
       THEN [outcome |-> "badinput", used |-> [k \in Kinds |-> 0]]
       ELSE IF \A k \in {"cost", "stack"} : Allows("context", k, limits[k], t.ctxneed[k])
       THEN [outcome |-> t.ctxanswer,
             used |-> [t.ctxneed EXCEPT !["mem"] = held.reports]]
       ELSE [outcome |-> "resource",
             used |-> [k \in Kinds |-> IF k = "mem" THEN held.reports
                                       ELSE Lesser(limits[k], t.ctxneed[k])]]

(***************************************************************************)
(* What the harness runs at, and whether that is the certificate's own.    *)
(***************************************************************************)
LimitsFor(bound) ==
    [k \in Kinds |-> IF bound[k] = None THEN budget[k] ELSE Lesser(bound[k], budget[k])]

\* Mutation: a bound there is none of counts as one inside the budget.
SufficientUnpriced(bound) == \A k \in Kinds : bound[k] <= budget[k]

Sufficient(bound) == \A k \in Kinds : bound[k] # None /\ bound[k] <= budget[k]

Failure(kind, trial) == [kind |-> kind, trial |-> trial]

FailureIf(condition, kind, trial) == IF condition THEN {Failure(kind, trial)} ELSE {}

Begin(e, b) ==
    /\ engine = e /\ budget = b
    /\ stage = "compile" /\ at = 1
    /\ rows = <<>> /\ edged = {} /\ findings = {}
    /\ held = [reserved |-> None, reports |-> 0, cap |-> [k \in Kinds |-> 0]]

\* Anything that escapes is a crash, and what had been found goes with it.
Crashes(question) ==
    /\ engine.raises = question
    /\ findings' = {Failure("crash", 0)}
    /\ rows' = <<>>
    /\ stage' = "done"
    /\ UNCHANGED <<engine, budget, at, edged, held>>

(***************************************************************************)
(* Compilation: an internal error is ours, a decline is nobody's, and the  *)
(* rest is compared with pcre2.                                            *)
(***************************************************************************)
Compile ==
    /\ stage = "compile"
    /\ LET built == engine.compiles
       IN /\ findings' =
                 FailureIf(built = "internal", "internal", 0)
                   \cup FailureIf(/\ built \in {"syntax", "compiled"}
                                  /\ engine.oracle /\ ~ engine.compilesalike, "compile", 0)
          /\ stage' = IF built = "compiled" THEN "believes" ELSE "done"
    /\ UNCHANGED <<engine, budget, at, rows, edged, held>>

\* The analyzer, the checker and the slot have to agree about one program.
Believes ==
    /\ stage = "believes" /\ engine.raises # "believes"
    /\ LET c == engine.certificate
       IN findings' = findings \cup
              FailureIf(\/ c.analyzed = "shape"
                        \/ c.analyzed = "ok" /\ c.kept # "produced"
                        \/ c.analyzed # "ok" /\ c.kept # "nothing"
                        \/ ~ c.shapely
                        \/ c.kept # "nothing" /\ ~ c.checks, "internal", 0)
    /\ stage' = "class"
    /\ UNCHANGED <<engine, budget, at, rows, edged, held>>

\* The class accessor, and the refusal of a program compiled for one matcher only.
Class ==
    /\ stage = "class"
    /\ findings' = findings
           \cup FailureIf(~ engine.classified, "accessor", 0)
           \cup FailureIf(~ engine.pike /\ engine.fault.what = "ineligible", "cross-matcher", 0)
    /\ stage' = "trials"
    /\ UNCHANGED <<engine, budget, at, rows, edged, held>>

(***************************************************************************)
(* A trial: the plain call, its bound, its edges, and the other matcher.   *)
(***************************************************************************)
Wanted(used) == used \notin edged /\ Cardinality(edged) < Edges

Fits(bound, used, i) ==
    FailureIf(\E k \in Kinds : bound[k] # None /\ used[k] > bound[k], "bound", i)

\* Each limit at the observed value, and one below it where there is a below.
Edge(path, i, limits, got) ==
    FailureIf(\E k \in Kinds :
                 \/ Run(path, i, [limits EXCEPT ![k] = got.used[k]]).outcome # got.outcome
                 \/ /\ got.used[k] # 0
                    /\ Run(path, i, [limits EXCEPT ![k] = got.used[k] - 1]).outcome # "resource",
              "edge", i)

\* Mutation: answers are compared only where the bound is inside the budget.
CrossPriced(i, got, wanted) ==
    LET bound  == engine.btbound[Trial(i).len]
        limits == LimitsFor(bound)
        again  == Run("bt_match", i, limits)
    IN IF again.outcome = "resource"
       THEN FailureIf(Sufficient(bound), "bound", i)
       ELSE Fits(bound, again.used, i)
              \cup (IF wanted THEN Edge("bt_match", i, limits, again) ELSE {})
              \cup FailureIf(Sufficient(bound) /\ again.outcome # got.outcome, "cross-matcher", i)

\* The backtracking run of a program the lockstep matcher was chosen for.
Cross(i, got, wanted) ==
    LET bound  == engine.btbound[Trial(i).len]
        limits == LimitsFor(bound)
        again  == Run("bt_match", i, limits)
    IN IF again.outcome = "resource"
       THEN FailureIf(Sufficient(bound), "bound", i)
       ELSE Fits(bound, again.used, i)
              \cup (IF wanted THEN Edge("bt_match", i, limits, again) ELSE {})
              \cup FailureIf(again.outcome # got.outcome, "cross-matcher", i)

OneTrial ==
    /\ stage = "trials" /\ at <= Len(engine.trials) /\ engine.raises # "bounds"
    /\ \E limits \in {LimitsFor(engine.bound[Trial(at).len])} :
       \E got \in {Run("match", at, limits)} :
          LET bound  == engine.bound[Trial(at).len]
              ended  == got.outcome # "resource"
              wanted == ended /\ Wanted(got.used)
          IN /\ findings' = findings
                   \cup (IF ended
                         THEN FailureIf(engine.oracle /\ got.outcome # Trial(at).pcre2, "match", at)
                                \cup Fits(bound, got.used, at)
                                \cup (IF wanted THEN Edge("match", at, limits, got) ELSE {})
                         ELSE FailureIf(Sufficient(bound), "bound", at))
                   \cup (IF engine.pike THEN Cross(at, got, wanted) ELSE {})
             /\ edged' = IF wanted THEN edged \cup {got.used} ELSE edged
             /\ rows' = Append(rows, [outcome |-> got.outcome, used |-> got.used,
                                      edges |-> wanted])
    /\ at' = at + 1
    /\ UNCHANGED <<engine, budget, stage, held>>

TrialsDone ==
    /\ stage = "trials" /\ at > Len(engine.trials)
    /\ stage' = "context" /\ at' = 1
    /\ UNCHANGED <<engine, budget, rows, edged, held, findings>>

(***************************************************************************)
(* The preallocated context.                                               *)
(***************************************************************************)
CreationLimits == [budget EXCEPT !["cost"] = budget["mem"]]

\* Creation at exactly the reservation is allowed, and one byte below it is not.
CreationEdge(reserved) ==
    FailureIf(\/ Creation([CreationLimits EXCEPT !["mem"] = reserved]) # "ok"
              \/ /\ reserved > 0
                 /\ Creation([CreationLimits EXCEPT !["mem"] = reserved - 1]) # "resource",
              "context", 0)

Context ==
    /\ stage = "context"
    /\ IF Creation(CreationLimits) # "ok"
       THEN stage' = "done" /\ UNCHANGED <<held, findings>>
       ELSE LET asked    == engine.bound[engine.maxlen]["mem"]
                reserved == asked + (IF engine.fault.what = "reserves" THEN 1 ELSE 0)
                resident == reserved + (IF engine.fault.what = "resident" THEN 1 ELSE 0)
            IN /\ held' = [reserved |-> reserved,
                           reports  |-> reserved + (IF engine.fault.what = "reports" THEN 1 ELSE 0),
                           cap      |-> CreationLimits]
               /\ findings' = findings
                      \cup FailureIf(asked # reserved \/ resident # reserved, "context", 0)
                      \cup CreationEdge(reserved)
               /\ stage' = "calls"
    /\ UNCHANGED <<engine, budget, at, rows, edged>>

\* A call takes the context's own ceilings, having been given no limits.
ContextCall ==
    /\ stage = "calls" /\ at <= Len(engine.trials)
    /\ \E got \in {ContextRun(at, held.cap)} :
          findings' = findings \cup
              FailureIf(\/ got.used["mem"] # (IF got.outcome = "badinput" THEN 0 ELSE held.reserved)
                        \/ IF Trial(at).len > engine.maxlen
                           THEN got.outcome # "badinput"
                           ELSE /\ rows[at].outcome # "resource"
                                /\ got.outcome # rows[at].outcome, "context", at)
    /\ at' = at + 1
    /\ UNCHANGED <<engine, budget, stage, rows, edged, held>>

\* The cost and stack edges of the first trial that ended and fits the context.
Completed == {i \in 1..Len(rows) : rows[i].outcome # "resource" /\ Trial(i).len <= engine.maxlen}

CallEdge(i) ==
    LET got == ContextRun(i, held.cap)
        At(k, limit) == ContextRun(i, [held.cap EXCEPT ![k] = limit])
    IN FailureIf(\E k \in {"cost", "stack"} :
                    \/ At(k, got.used[k]).outcome # got.outcome
                    \/ got.used[k] > 0 /\ At(k, got.used[k] - 1).outcome # "resource",
                 "context", i)

CallEdges ==
    /\ stage = "calls" /\ at > Len(engine.trials)
    /\ findings' = findings \cup
           (IF Completed = {} THEN {}
            ELSE CallEdge(CHOOSE i \in Completed : \A j \in Completed : i <= j))
    /\ stage' = "done"
    /\ UNCHANGED <<engine, budget, at, rows, edged, held>>

Next ==
    \/ Compile \/ Believes \/ Class \/ OneTrial \/ TrialsDone
    \/ Context \/ ContextCall \/ CallEdges
    \/ stage = "believes" /\ Crashes("believes")
    \/ stage = "trials" /\ at <= Len(engine.trials) /\ Crashes("bounds")
=============================================================================
