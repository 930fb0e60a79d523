----------------------------- MODULE Promotion -----------------------------
(***************************************************************************)
(* The failure loop of sweep/__main__.py, failures.py and promote.py: a    *)
(* run writes its failures down, a reducer shrinks each of them while it   *)
(* still fails, somebody fixes the bug, and the shrunk cases are moved     *)
(* into one of two corpora, both written only once everything has been     *)
(* checked.  The commands are separate processes over files, run in any    *)
(* order, and one may be killed between its two writes.                    *)
(***************************************************************************)
EXTENDS Integers, Sequences, FiniteSets, SequencesExt

CONSTANTS Cases,      \* the cases of the population
          Semantic,   \* the classes that are about the answer
          Invariants, \* the classes that are about anything else
          Declined,   \* the cases whose right answer is a documented decline
          MaxRuns,    \* how many sweeps are run
          MaxKills    \* how many promotions are killed

Kinds == Semantic \cup Invariants

VARIABLES broken,     \* the cases that fail, each in a class, as the code stands
          failures,   \* failures.json
          wave1,      \* the names in oracle/corpus/wave1.json
          kept,       \* the names in oracle/corpus/sweep-regressions.json
          writing,    \* what a promotion has checked and not yet written
          runs, killed, batches   \* sweeps so far; kills so far; promotions begun

vars == <<broken, failures, wave1, kept, writing, runs, killed, batches>>

Nothing == [wave1 |-> <<>>, kept |-> <<>>, stage |-> "idle"]

Idle == writing.stage = "idle"

\* A second failure of the same case in the same class gets a number.
Named(entries) ==
    [i \in 1..Len(entries) |->
        [case |-> entries[i].case, kind |-> entries[i].kind,
         number |-> Cardinality({j \in 1..i : /\ entries[j].case = entries[i].case
                                              /\ entries[j].kind = entries[i].kind})]]

\* The entries that are in S, in their order.
Chosen(entries, S) ==
    LET from[n \in 0..Len(entries)] ==
            IF n = 0 THEN <<>>
            ELSE IF entries[n] \in S THEN Append(from[n - 1], entries[n]) ELSE from[n - 1]
    IN from[Len(entries)]

Reduced == Chosen(failures, {one \in ToSet(failures) : one.minimized})

\* The whole battery is run, so any class of failure stops a promotion.
Fixed(case) == \A kind \in Kinds : <<case, kind>> \notin broken

\* A case with an answer to record has to agree with pcre2, which a decline cannot.
Confirmed(one) == Fixed(one.case) /\ (one.kind \in Semantic => one.case \notin Declined)

Init ==
    /\ broken \in SUBSET (Cases \X Kinds)
    /\ failures = <<>> /\ wave1 = <<>> /\ kept = <<>>
    /\ writing = Nothing /\ runs = 0 /\ killed = 0 /\ batches = {}

\* A sweep that finds nothing writes no failures, and leaves the last ones be.
RunSweep ==
    /\ Idle /\ runs < MaxRuns
    /\ runs' = runs + 1
    /\ \E twice \in SUBSET broken : \E order \in {SetToSeq(broken)} :
          failures' = IF broken = {} THEN failures
                      ELSE FlattenSeq([i \in 1..Len(order) |->
                               LET one == [case |-> order[i][1], kind |-> order[i][2],
                                           minimized |-> FALSE]
                               IN IF order[i] \in twice THEN <<one, one>> ELSE <<one>>])
    /\ UNCHANGED <<broken, wave1, kept, writing, killed, batches>>

\* minimize refuses a case that no longer fails, and the file is then not written.
Reduce ==
    /\ Idle /\ failures # <<>>
    /\ \A i \in 1..Len(failures) : <<failures[i].case, failures[i].kind>> \in broken
    /\ failures' = [i \in 1..Len(failures) |-> [failures[i] EXCEPT !.minimized = TRUE]]
    /\ UNCHANGED <<broken, wave1, kept, writing, runs, killed, batches>>

\* A change to the engine mends one failure, and may make another of its case.
Fix ==
    /\ Idle
    /\ \E one \in broken : \E made \in SUBSET ({one[1]} \X (Kinds \ {one[2]})) :
          broken' = (broken \ {one}) \cup made
    /\ UNCHANGED <<failures, wave1, kept, writing, runs, killed, batches>>

\* The names this promotion would add, and the corpus each belongs in.
Picked == Named(Reduced)
ForWave1 == Chosen(Picked, {one \in ToSet(Picked) : one.kind \in Semantic})
ForKept  == Chosen(Picked, {one \in ToSet(Picked) : one.kind \notin Semantic})

Fresh == /\ ToSet(ForWave1) \cap ToSet(wave1) = {}
         /\ ToSet(ForKept) \cap ToSet(kept) = {}

\* Mutation: the first corpus is written before the second one's cases are checked.
CheckAsItGoes ==
    /\ Idle /\ Picked # <<>> /\ Fresh
    /\ \A one \in ToSet(ForWave1) : Confirmed(one)
    /\ LET half == \E one \in ToSet(ForKept) : ~ Confirmed(one)
       IN /\ writing' = [wave1 |-> ForWave1, kept |-> IF half THEN <<>> ELSE ForKept,
                         stage |-> "wave1"]
          /\ batches' = batches \cup {<<ForWave1, ForKept>>}
    /\ UNCHANGED <<broken, failures, wave1, kept, runs, killed>>

\* A refusal of any case is a refusal of them all.
Check ==
    /\ Idle /\ Picked # <<>> /\ Fresh
    /\ \A one \in ToSet(Picked) : Confirmed(one)
    /\ writing' = [wave1 |-> ForWave1, kept |-> ForKept, stage |-> "wave1"]
    /\ batches' = batches \cup {<<ForWave1, ForKept>>}
    /\ UNCHANGED <<broken, failures, wave1, kept, runs, killed>>

\* Each file is spliced into or rewritten from what it held at the check.
WriteWave1 ==
    /\ writing.stage = "wave1"
    /\ wave1' = wave1 \o writing.wave1
    /\ writing' = [writing EXCEPT !.stage = "kept"]
    /\ UNCHANGED <<broken, failures, kept, runs, killed, batches>>

WriteKept ==
    /\ writing.stage = "kept"
    /\ kept' = kept \o writing.kept
    /\ writing' = Nothing
    /\ UNCHANGED <<broken, failures, wave1, runs, killed, batches>>

Kill ==
    /\ ~ Idle /\ killed < MaxKills
    /\ killed' = killed + 1
    /\ writing' = Nothing
    /\ UNCHANGED <<broken, failures, wave1, kept, runs, batches>>

Next == RunSweep \/ Reduce \/ Fix \/ Check \/ WriteWave1 \/ WriteKept \/ Kill

(***************************************************************************)
(* No corpus ever holds a name twice, whatever was run again and whatever  *)
(* was killed: the loader of either file refuses one that does.            *)
(***************************************************************************)
NamesUnique ==
    /\ Cardinality(ToSet(wave1)) = Len(wave1)
    /\ Cardinality(ToSet(kept)) = Len(kept)

(***************************************************************************)
(* Every promotion begun is wholly in the two corpora or, if something     *)
(* was refused, not there at all; half of one takes a kill between its two *)
(* writes.                                                                 *)
(***************************************************************************)
NoHalfPromotion ==
    Idle /\ killed = 0 => \A batch \in batches :
        ToSet(batch[1]) \subseteq ToSet(wave1) /\ ToSet(batch[2]) \subseteq ToSet(kept)

(***************************************************************************)
(* What the corpora are about to gain fails in no class any more, not only *)
(* in the one it was found in, whatever failures file an earlier sweep     *)
(* left behind and whichever of a case's failures has been fixed; and an   *)
(* answer is recorded only where pcre2's can be agreed with.               *)
(***************************************************************************)
GainsAreFixed ==
    /\ \A one \in ToSet(writing.wave1) : Fixed(one.case) /\ one.case \notin Declined
    /\ \A one \in ToSet(writing.kept) : Fixed(one.case)
=============================================================================
