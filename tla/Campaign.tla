------------------------------ MODULE Campaign ------------------------------
(***************************************************************************)
(* sweep/campaign.py: a manifest's cases run in this process, or handed in *)
(* chunks to a pool of workers whose results come back as they are ready.  *)
(* A case's outcome is fixed by the manifest: a record or none, findings   *)
(* each with a class and a trial, and what it covered.  The chunk is what  *)
(* a worker takes and gives back; what the report is made of is put in     *)
(* order once they are all in.                                             *)
(***************************************************************************)
EXTENDS Integers, Sequences, FiniteSets, Bags

CONSTANTS Cases,      \* how many cases the manifest has
          Workers,    \* the processes of the pool
          ChunkSize   \* the cases handed over at once

VARIABLES outcome,    \* case -> what it comes to
          todo,       \* the chunks nobody has taken, in order
          holding,    \* worker -> the chunk it runs, or none
          report,     \* the records, the findings and the coverage so far
          ordered     \* the report has been put in order

vars == <<outcome, todo, holding, report, ordered>>

Lesser(a, b) == IF a < b THEN a ELSE b

\* The manifest, cut into chunks of the size but for the last.
Chunks == [k \in 1..((Cases + ChunkSize - 1) \div ChunkSize) |->
              [n \in 1..Lesser(ChunkSize, Cases - (k - 1) * ChunkSize) |->
                  (k - 1) * ChunkSize + n]]

Empty == [records |-> <<>>, findings |-> <<>>, coverage |-> EmptyBag]

Finding(i, found) == [index |-> i, kind |-> found.kind, trial |-> found.trial]

\* A case without a record (an internal error, a crash) still has its findings.
Added(r, i) ==
    [records  |-> IF outcome[i].record THEN Append(r.records, i) ELSE r.records,
     findings |-> r.findings \o [k \in 1..Len(outcome[i].findings) |->
                                    Finding(i, outcome[i].findings[k])],
     coverage |-> r.coverage (+) outcome[i].coverage]

AddedAll(r, cases) ==
    LET sum[n \in 0..Len(cases)] == IF n = 0 THEN r ELSE Added(sum[n - 1], cases[n])
    IN sum[Len(cases)]

\* Trial 0 and no trial at all share a place: the code's `or`.
Place(trial) == IF trial = 0 THEN -1 ELSE trial

KindOrder == <<"bound", "context", "crash", "edge", "match">>
Rank(kind) == CHOOSE k \in 1..Len(KindOrder) : KindOrder[k] = kind

\* Mutation: the index is left out of the order.
BeforeByTrial(a, b) ==
    \/ Place(a.trial) < Place(b.trial)
    \/ Place(a.trial) = Place(b.trial) /\ Rank(a.kind) < Rank(b.kind)

Before(a, b) ==
    \/ a.index < b.index
    \/ a.index = b.index /\ Place(a.trial) < Place(b.trial)
    \/ a.index = b.index /\ Place(a.trial) = Place(b.trial) /\ Rank(a.kind) < Rank(b.kind)

\* A stable sort: the place of an element among those it is not after.
Sorted(seq, Less(_, _)) ==
    LET place(k) == Cardinality({j \in 1..Len(seq) :
                        \/ Less(seq[j], seq[k])
                        \/ ~ Less(seq[k], seq[j]) /\ j =< k})
    IN [n \in 1..Len(seq) |-> seq[CHOOSE k \in 1..Len(seq) : place(k) = n]]

Ordered(r) ==
    [r EXCEPT !.records = Sorted(@, LAMBDA a, b : a < b), !.findings = Sorted(@, Before)]

\* campaign.run: the manifest's own order.
Sequential == Ordered(AddedAll(Empty, [i \in 1..Cases |-> i]))

\* Every case clean, crashed, or failing more than once.
Found(kind, trial) == [kind |-> kind, trial |-> trial]

NoTrial == -1

Clean   == [record |-> TRUE, findings |-> <<>>, coverage |-> SetToBag({"match"})]
Crashed == [record |-> FALSE, findings |-> <<Found("crash", NoTrial)>>,
            coverage |-> EmptyBag]

\* Two findings one trial apart, and two that share a place.
Flawed == [record |-> TRUE, findings |-> <<Found("match", 2), Found("edge", 0),
                                            Found("context", NoTrial), Found("bound", 0)>>,
            coverage |-> SetToBag({"match"})]

SomeOutcomes == {Clean, Crashed, Flawed}

Begin ==
    /\ todo = 1..Len(Chunks)
    /\ holding = [w \in Workers |-> 0]
    /\ report = Empty /\ ordered = FALSE

Init == outcome \in [1..Cases -> SomeOutcomes] /\ Begin

\* The pool hands its chunks out in order, to whichever worker is free.
Take(w) ==
    /\ holding[w] = 0 /\ todo # {}
    /\ \E k \in todo :
          /\ \A j \in todo : k =< j
          /\ holding' = [holding EXCEPT ![w] = k]
          /\ todo' = todo \ {k}
    /\ UNCHANGED <<outcome, report, ordered>>

\* A worker gives a whole chunk back, its cases in order, and they are added.
Give(w) ==
    /\ holding[w] # 0
    /\ report' = AddedAll(report, Chunks[holding[w]])
    /\ holding' = [holding EXCEPT ![w] = 0]
    /\ UNCHANGED <<outcome, todo, ordered>>

AllIn == todo = {} /\ \A w \in Workers : holding[w] = 0

Order ==
    /\ AllIn /\ ~ ordered
    /\ report' = Ordered(report)
    /\ ordered' = TRUE
    /\ UNCHANGED <<outcome, todo, holding>>

Next == (\E w \in Workers : Take(w) \/ Give(w)) \/ Order

(***************************************************************************)
(* What a sweep says does not depend on how many workers it had or in      *)
(* which order their chunks came back: the ordered report is, field by     *)
(* field and in the same order, the one the run in a single process makes. *)
(***************************************************************************)
SameReport == ordered => report = Sequential

=============================================================================
