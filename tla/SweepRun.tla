------------------------------ MODULE SweepRun ------------------------------
(***************************************************************************)
(* The sweep, part by part: one case against engines that need and certify *)
(* anything under any budget, engines whose comparisons are at fault       *)
(* somewhere, and engines that stop, refuse or contradict themselves       *)
(* before a trial is run (SweepCase); the reduction of a failing case      *)
(* (Reduce); the pool of a campaign (Campaign); and the way of a failure   *)
(* into the corpora (Promotion).  A state is about one of the four, and    *)
(* leaves the others' variables at rest.                                   *)
(***************************************************************************)
EXTENDS SweepCase, Bags

CONSTANTS
    Abouts,                          \* the parts to run
    Length,                          \* of the pattern to reduce
    Manifest, Workers, ChunkSize,    \* of a campaign
    Failing, Semantic, Invariants, Declined, MaxRuns, MaxKills  \* of the failure loop

ASSUME SweepAssumption ==
    /\ {Edges, MaxRuns, MaxKills} \subseteq Nat
    /\ {Length, Manifest, ChunkSize} \subseteq Nat \ {0}
    /\ Semantic \cap Invariants = {}
    /\ IsFiniteSet(Failing) /\ IsFiniteSet(Semantic) /\ IsFiniteSet(Invariants)

VARIABLES
    about,
    case, failing, before, pass, reached, grain, left,
    outcome, todo, holding, report, ordered,
    broken, failures, wave1, kept, writing, runs, killed, batches

Reduction == INSTANCE Reduce WITH stage <- pass, at <- reached
Pool      == INSTANCE Campaign WITH Cases <- Manifest
Loop      == INSTANCE Promotion WITH Cases <- Failing

reduceVars == <<case, failing, before, pass, reached, grain, left>>
poolVars   == <<outcome, todo, holding, report, ordered>>
loopVars   == <<broken, failures, wave1, kept, writing, runs, killed, batches>>
allVars    == <<vars, reduceVars, poolVars, loopVars, about>>

Usage(c, s, m) == [k \in Kinds |-> CASE k = "cost" -> c [] k = "stack" -> s [] OTHER -> m]

Ample  == Usage(3, 3, 3)
Always(bound) == [n \in 0..2 |-> bound]

Sound == [analyzed |-> "ok", kept |-> "produced", shapely |-> TRUE, checks |-> TRUE]

ATrial == [len |-> 1, need |-> Usage(1, 1, 1), btneed |-> Usage(1, 1, 1),
           ctxneed |-> Usage(1, 1, 1), answer |-> "a", btanswer |-> "a",
           ctxanswer |-> "a", pcre2 |-> "a"]

AnEngine == [compiles |-> "compiled", oracle |-> TRUE, compilesalike |-> TRUE,
             certificate |-> Sound, classified |-> TRUE, pike |-> TRUE,
             fault |-> NoFault, raises |-> "nothing", maxlen |-> 1,
             bound |-> Always(Ample), btbound |-> Always(Ample), trials |-> <<ATrial>>]

\* One trial, whatever it needs, is certified for and answers, on any budget.
Needing(pike, bound, btbound, need, btneed, ctxneed) ==
    [AnEngine EXCEPT !.pike = pike, !.bound = Always(bound), !.btbound = Always(btbound),
        !.trials = <<[ATrial EXCEPT !.need = need, !.btneed = btneed, !.ctxneed = ctxneed]>>]

AnyNeeds ==
    {Needing(pike, Usage(c, s, m), Usage(b, 1, 1),
             Usage(need, deep, 1), Usage(btneed, 1, 1), Usage(need, 0, 1)) :
       pike \in BOOLEAN, c \in {None, 1, 2}, s \in {None, 0, 1}, m \in {None, 1, 2},
       b \in {None, 1, 2}, need \in 0..2, deep \in 0..1, btneed \in 1..2}

AnyBudget == {Usage(c, s, m) : c \in 1..2, s \in 0..1, m \in 1..2}

\* Every answer, and a subject the context is not declared for.
Answering(oracle, maxlen, btbound, bt, ctx, pcre2) ==
    [AnEngine EXCEPT !.oracle = oracle, !.maxlen = maxlen, !.btbound = Always(btbound),
        !.trials = <<[ATrial EXCEPT !.btanswer = bt, !.ctxanswer = ctx, !.pcre2 = pcre2]>>]

AnyAnswers ==
    {Answering(oracle, n, Usage(s, 3, 3), b, c, p) :
       oracle \in BOOLEAN, s \in {None, 3}, n \in 0..2, b \in {"a", "b"}, c \in {"a", "b"}, p \in {"a", "b"}}

\* Three trials of different needs, and one comparison at fault.
Faults ==
    {[what |-> "limit", path |-> p, kind |-> k, by |-> b] :
       p \in {"match", "bt_match", "context"}, k \in Kinds, b \in {-1, 1}}
      \cup {[NoFault EXCEPT !.what = w] :
              w \in {"none", "create", "reserves", "resident", "reports", "ineligible"}}

Needs == {Usage(1, 0, 0), Usage(1, 2, 1), Usage(2, 0, 2), Usage(0, 0, 1)}

FaultyAt(fault, pike, needs, btneed) ==
    [AnEngine EXCEPT !.fault = fault, !.pike = pike,
        !.trials = [i \in 1..3 |-> [ATrial EXCEPT !.need = needs[i], !.btneed = btneed,
                                                  !.ctxneed = needs[i]]]]

Faulty ==
    {FaultyAt(f, pike, needs, btneed) :
       f \in Faults, pike \in BOOLEAN, needs \in [1..3 -> Needs],
       btneed \in {Usage(0, 0, 1), Usage(2, 1, 1)}}

\* The engines that give the harness something to say before any trial.
Refusing(compiles, alike, raises) ==
    [AnEngine EXCEPT !.compiles = compiles, !.compilesalike = alike, !.raises = raises]

Claiming(classified, certificate) ==
    [AnEngine EXCEPT !.classified = classified, !.certificate = certificate]

Contradictory ==
    {Refusing(c, alike, r) :
       c \in {"internal", "declined", "syntax", "compiled"}, alike \in BOOLEAN,
       r \in {"nothing", "believes", "bounds"}}
      \cup {Claiming(known, c) :
              known \in BOOLEAN,
              c \in [analyzed : {"shape", "ok", "other"}, kept : {"nothing", "produced", "another"},
                     shapely : BOOLEAN, checks : BOOLEAN]}

NoCase ==
    /\ engine = AnEngine /\ budget = Ample /\ stage = "idle" /\ at = 1
    /\ rows = <<>> /\ edged = {} /\ findings = {}
    /\ held = [reserved |-> None, reports |-> 0, cap |-> [k \in Kinds |-> 0]]
NoReduction ==
    /\ case = <<>> /\ failing = {} /\ before = <<>> /\ pass = "idle" /\ reached = 1
    /\ grain = 2 /\ left = {}
NoPool == outcome = <<>> /\ todo = {} /\ holding = <<>> /\ report = <<>> /\ ordered = FALSE
NoLoop ==
    /\ broken = {} /\ failures = <<>> /\ wave1 = <<>> /\ kept = <<>>
    /\ writing = Loop!Nothing /\ runs = 0 /\ killed = 0 /\ batches = {}

ACase ==
    \/ \E e \in AnyNeeds, b \in AnyBudget : Begin(e, b)
    \/ \E e \in AnyAnswers \cup Faulty \cup Contradictory : Begin(e, Ample)

Init ==
    /\ about \in Abouts
    /\ \/ about = "case" /\ ACase /\ NoReduction /\ NoPool /\ NoLoop
       \/ about = "reduction" /\ NoCase /\ Reduction!Init /\ NoPool /\ NoLoop
       \/ about = "pool" /\ NoCase /\ NoReduction /\ Pool!Init /\ NoLoop
       \/ about = "loop" /\ NoCase /\ NoReduction /\ NoPool /\ Loop!Init

CaseStep   == about = "case" /\ Next /\ UNCHANGED <<reduceVars, poolVars, loopVars>>
ReduceStep == about = "reduction" /\ Reduction!Next /\ UNCHANGED <<vars, poolVars, loopVars>>
PoolStep   == about = "pool" /\ Pool!Next /\ UNCHANGED <<vars, reduceVars, loopVars>>
LoopStep   == about = "loop" /\ Loop!Next /\ UNCHANGED <<vars, reduceVars, poolVars>>

Spec == Init /\ [][(CaseStep \/ ReduceStep \/ PoolStep \/ LoopStep) /\ UNCHANGED about]_allVars

Done == stage = "done"

Reported(kind, i) == Failure(kind, i) \in findings

Trials == 1..Len(engine.trials)

Covers(bound, need) == bound = None \/ need <= bound

\* Nothing about this engine is wrong, and its context calls need no more.
Honest ==
    /\ engine.compiles # "internal" /\ engine.compilesalike /\ engine.classified
    /\ engine.certificate = Sound /\ engine.fault = NoFault /\ engine.raises = "nothing"
    /\ \A i \in Trials :
          /\ Trial(i).btanswer = Trial(i).answer /\ Trial(i).ctxanswer = Trial(i).answer
          /\ Trial(i).pcre2 = Trial(i).answer
          /\ \A k \in {"cost", "stack"} : Trial(i).ctxneed[k] <= Trial(i).need[k]
          /\ \A k \in Kinds :
                /\ Covers(engine.bound[Trial(i).len][k], Trial(i).need[k])
                /\ Covers(engine.btbound[Trial(i).len][k], Trial(i).btneed[k])

\* The selected run of trial i was stopped by the budget, not by its certificate.
Capped(i) == i <= Len(rows) /\ rows[i].outcome = "resource"

(***************************************************************************)
(* An engine nothing is wrong with gets no finding, whatever is priced and *)
(* whatever the budget caps, provided the memory budget is no smaller than *)
(* the cost one and no lockstep run was capped: DeclinesAreNoFindings says *)
(* what the second proviso is worth.                                       *)
(***************************************************************************)
NoFalseAlarm ==
    about = "case" /\ Honest /\ budget["mem"] >= budget["cost"]
           /\ (engine.pike => \A i \in Trials : ~ Capped(i)) => findings = {}

(***************************************************************************)
(* A run that needs more than the certificate gives it is reported on      *)
(* either matcher whenever the budget covers all three bounds, whether the *)
(* engine refuses it or lets it through.                                   *)
(***************************************************************************)
ShortBoundReported ==
    Done /\ rows # <<>> => \A i \in Trials : \A path \in {"match", "bt_match"} :
        LET bound == (IF path = "match" THEN engine.bound ELSE engine.btbound)[Trial(i).len]
        IN /\ path = "bt_match" => engine.pike
           /\ \A k \in Kinds : bound[k] # None /\ bound[k] <= budget[k]
           /\ \E k \in Kinds : Need(path, i)[k] > bound[k]
           => Reported("bound", i)

(***************************************************************************)
(* A limit compared one off on the selected path is an edge finding as     *)
(* soon as some trial spends anything of that kind and the case has no     *)
(* more distinct usages than are edged; on the other matcher, as soon as   *)
(* a trial that spends some was edged; and on the context, as soon as the  *)
(* first call that ended spends some.                                      *)
(***************************************************************************)
BoundaryReported ==
    LET f == engine.fault
        Spends(path, i) == Need(path, i)[f.kind] > 0
    IN Done /\ rows # <<>> /\ f.what = "limit" =>
         /\ /\ f.path = "match"
            /\ Cardinality({rows[i].used : i \in Trials}) <= Edges
            /\ \E i \in Trials : Spends("match", i)
            => \E i \in Trials : Reported("edge", i)
         /\ f.path = "bt_match" /\ engine.pike =>
              \A i \in Trials : rows[i].edges /\ Spends("bt_match", i) => Reported("edge", i)
         /\ f.path = "context" /\ f.kind # "mem" /\ held.reserved # None =>
              \A i \in Completed :
                 (\A j \in Completed : i <= j) /\ Trial(i).ctxneed[f.kind] > 0 => Reported("context", i)

(***************************************************************************)
(* Every answer somebody else gives differently is reported for its trial: *)
(* pcre2's, the other matcher's, and the context's, on subjects the        *)
(* context was declared for.                                               *)
(***************************************************************************)
DisagreementReported ==
    Done /\ rows # <<>> => \A i \in Trials : ~ Capped(i) =>
        /\ engine.oracle /\ Trial(i).pcre2 # Trial(i).answer => Reported("match", i)
        /\ engine.pike /\ Trial(i).btanswer # Trial(i).answer
             /\ Run("bt_match", i, LimitsFor(engine.btbound[Trial(i).len])).outcome # "resource"
             => Reported("cross-matcher", i)
        /\ held.reserved # None /\ Trial(i).len <= engine.maxlen
             /\ Trial(i).ctxanswer # Trial(i).answer => Reported("context", i)

(***************************************************************************)
(* A context that reserves, holds, reports or is created with anything but *)
(* the accessor's number is reported.                                      *)
(***************************************************************************)
ReservationReported ==
    Done /\ held.reserved > 0 /\ engine.fault.what \in {"create", "reserves", "resident", "reports"}
      => \E i \in 0..Len(engine.trials) : Reported("context", i)

(***************************************************************************)
(* "A decline is not a finding: ... a run over a capped budget" is none    *)
(* (sweep/checks.py, the module's own words): a trial whose selected run   *)
(* the budget stopped gives no cross-matcher finding.                      *)
(***************************************************************************)
DeclinesAreNoFindings ==
    Honest => \A i \in Trials : Capped(i) => ~ Reported("cross-matcher", i)

(***************************************************************************)
(* Whatever is wrong with an engine is found: a bound too short, a limit   *)
(* one off, an answer somebody else gives differently, a reservation that  *)
(* is not the accessor's.                                                  *)
(***************************************************************************)
FaultsReported ==
    about = "case" => /\ ShortBoundReported /\ BoundaryReported
                      /\ DisagreementReported /\ ReservationReported

(***************************************************************************)
(* A reduction never loses the failure or the size of the context, shrinks *)
(* with every sweep, and ends where nothing can be taken away on its own.  *)
(***************************************************************************)
ReductionSound ==
    about = "reduction" =>
        /\ Reduction!StillFails /\ Reduction!StillSized
        /\ Reduction!SweepsShrink /\ Reduction!LocallyMinimal

(***************************************************************************)
(* The report is one process's, whatever order the chunks come back in.    *)
(***************************************************************************)
SameReport == about = "pool" => Pool!SameReport

(***************************************************************************)
(* The corpora gain whole promotions of cases that are fixed, each under a *)
(* name of its own, whatever is run again and whatever is killed.          *)
(***************************************************************************)
PromotionSound ==
    about = "loop" => Loop!NamesUnique /\ Loop!NoHalfPromotion /\ Loop!GainsAreFixed
=============================================================================
