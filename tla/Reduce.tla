------------------------------- MODULE Reduce -------------------------------
(***************************************************************************)
(* sweep/reduce.py: a case that fails is shrunk, dimension by dimension,   *)
(* until nothing more can be taken away and the case still fail in the     *)
(* same class.  A pattern and a subject are sequences of bytes; whether a  *)
(* case fails is any predicate of what it carries: it fails through one of *)
(* its trials, or whatever its trials are (a disagreement of compilation). *)
(* One action is one of the reducer's passes over a dimension.             *)
(* The cases are small ones, with every failure predicate over what can be *)
(* left of them: a pattern of a few bytes alone; a pattern with an option  *)
(* and a newline convention; the pair of conventions with an option; and   *)
(* two trials.                                                             *)
(***************************************************************************)
EXTENDS Integers, Sequences, FiniteSetsExt, SequencesExt

CONSTANT Length     \* the bytes of the pattern in the first population

VARIABLES case,     \* the case in hand
          failing,  \* the shapes that fail in the class being preserved
          before,   \* the case as this sweep over the dimensions found it
          stage,    \* the pass under way
          at,       \* the trial it has reached
          grain,    \* the granularity of its delta debugging
          left      \* the options its loop has not come to

vars == <<case, failing, before, stage, at, grain, left>>

NoTrial == [subject |-> <<>>, match_options |-> {}, start |-> -1]

\* One way a case can fail: what it was compiled with, and one trial or none.
Shape(c, trial) ==
    [pattern |-> c.pattern, options |-> c.options, newline |-> c.newline,
     bsr |-> c.bsr, trial |-> trial]

Shapes(c) == {Shape(c, trial) : trial \in ToSet(c.trials) \cup {NoTrial}}

\* run_case is deterministic, so the predicate is a set.
Fails(c) == Shapes(c) \cap failing # {}

Lesser(a, b) == IF a < b THEN a ELSE b
Larger(a, b) == IF a < b THEN b ELSE a

(***************************************************************************)
(* The context's declared maximum moves with the subjects.                 *)
(***************************************************************************)
Longest(trials) == Max({Len(t.subject) : t \in ToSet(trials)} \cup {0})

Sized(c, trials) == [c EXCEPT !.trials = trials, !.maxlen = Longest(trials)]

With(c, i, trial) == Sized(c, [c.trials EXCEPT ![i] = trial])

\* A start offset moves with the subject it points into.
Cut(trial, subject) ==
    [trial EXCEPT !.subject = subject, !.start = Lesser(@, Len(subject))]

(***************************************************************************)
(* Delta debugging: chunks are dropped one at a time, ever finer.          *)
(***************************************************************************)
\* items without its chunk number k of the given size.
Dropped(items, size, k) ==
    SubSeq(items, 1, (k - 1) * size) \o SubSeq(items, k * size + 1, Len(items))

\* One round over the chunks; Put is the case with so much of items kept.  The
\* pass ends on the finest round that drops nothing, and the next one loops over
\* the options in todo.
Narrow(items, Put(_), next, todo) ==
    LET size == Larger(1, Len(items) \div grain)
        fit  == {k \in 1..((Len(items) + size - 1) \div size) :
                    Fails(Put(Dropped(items, size, k)))}
    IN \/ /\ Len(items) >= 2 /\ fit # {}
          /\ \E k \in fit : (\A j \in fit : k =< j) /\ case' = Put(Dropped(items, size, k))
          /\ grain' = Larger(2, grain - 1)
          /\ UNCHANGED <<stage, left>>
       \/ /\ Len(items) >= 2 /\ fit = {} /\ grain < Len(items)
          /\ grain' = Lesser(Len(items), 2 * grain)
          /\ UNCHANGED <<case, stage, left>>
       \/ /\ Len(items) < 2 \/ (fit = {} /\ grain >= Len(items))
          /\ case' = Put(items)
          /\ stage' = next /\ grain' = 2 /\ left' = todo

(***************************************************************************)
(* The reducer: minimize refuses a case that does not fail to begin with.  *)
(***************************************************************************)
Begin(c, family) ==
    /\ failing = family
    /\ case = c /\ before = c
    /\ Fails(c)
    /\ stage = "no trials" /\ at = 1 /\ grain = 2 /\ left = {}

Offer(candidate) == case' = IF Fails(candidate) THEN candidate ELSE case

(***************************************************************************)
(* The passes, in the order one sweep makes them.                          *)
(***************************************************************************)
\* No trials at all first: delta debugging alone never offers it, and what it
\* does offer always holds one.
NoTrials ==
    /\ stage = "no trials"
    /\ IF case.trials # <<>> /\ Fails(Sized(case, <<>>))
       THEN case' = Sized(case, <<>>) /\ stage' = "pattern"
       ELSE stage' = "trials" /\ UNCHANGED case
    /\ UNCHANGED <<failing, before, at, grain, left>>

FewerTrials ==
    /\ stage = "trials"
    /\ Narrow(case.trials, LAMBDA kept : Sized(case, kept), "pattern", {})
    /\ UNCHANGED <<failing, before, at>>

ShorterPattern ==
    /\ stage = "pattern"
    /\ Narrow(case.pattern, LAMBDA kept : [case EXCEPT !.pattern = kept],
              "options", case.options)
    /\ UNCHANGED <<failing, before, at>>

\* The two option sets are sets: the order the loops take them in is any order.
FewerOptions ==
    /\ stage = "options"
    /\ \E name \in left : /\ Offer([case EXCEPT !.options = @ \ {name}])
                          /\ left' = left \ {name}
    /\ UNCHANGED <<failing, before, stage, at, grain>>

OptionsDone ==
    /\ stage = "options" /\ left = {}
    /\ stage' = "subject" /\ at' = 1
    /\ UNCHANGED <<case, failing, before, grain, left>>

\* One trial: its subject, then each match option, then its start offset.
One == case.trials[at]

ShorterSubject ==
    /\ stage = "subject" /\ at =< Len(case.trials)
    /\ Narrow(One.subject, LAMBDA kept : With(case, at, Cut(One, kept)),
              "match options", One.match_options)
    /\ UNCHANGED <<failing, before, at>>

FewerMatchOptions ==
    /\ stage = "match options"
    /\ \E name \in left :
          /\ Offer(With(case, at, [One EXCEPT !.match_options = @ \ {name}]))
          /\ left' = left \ {name}
    /\ UNCHANGED <<failing, before, stage, at, grain>>

EarlierStart ==
    /\ stage = "match options" /\ left = {}
    /\ Offer(With(case, at, [One EXCEPT !.start = 0]))
    /\ stage' = "subject" /\ at' = at + 1
    /\ UNCHANGED <<failing, before, grain, left>>

TrialsDone ==
    /\ stage = "subject" /\ at > Len(case.trials)
    /\ stage' = "conventions"
    /\ UNCHANGED <<case, failing, before, at, grain, left>>

\* Both conventions at once, then each on its own; the first that fails is kept.
Conventions ==
    /\ stage = "conventions"
    /\ LET tries == <<[case EXCEPT !.newline = "LF", !.bsr = "UNICODE"],
                      [case EXCEPT !.newline = "LF"], [case EXCEPT !.bsr = "UNICODE"]>>
           fit == {k \in 1..3 : tries[k] # case /\ Fails(tries[k])}
       IN \/ fit = {} /\ UNCHANGED case
          \/ \E k \in fit : (\A j \in fit : k =< j) /\ case' = tries[k]
    /\ stage' = "again"
    /\ UNCHANGED <<failing, before, at, grain, left>>

\* Mutation: one sweep is taken to be enough.
OnceOnly ==
    /\ stage = "again"
    /\ stage' = "done"
    /\ UNCHANGED <<case, failing, before, at, grain, left>>

\* Another sweep as long as the last one changed the case.
Again ==
    /\ stage = "again"
    /\ stage' = IF case = before THEN "done" ELSE "no trials"
    /\ before' = case
    /\ UNCHANGED <<case, failing, at, grain, left>>

Next ==
    \/ NoTrials \/ FewerTrials \/ ShorterPattern \/ FewerOptions \/ OptionsDone
    \/ ShorterSubject \/ FewerMatchOptions \/ EarlierStart \/ TrialsDone
    \/ Conventions \/ Again

(***************************************************************************)
(* The cases reduced.                                                      *)
(***************************************************************************)
MatchOptions == {"NOTBOL", "NOTEOL", "NOTEMPTY", "NOTEMPTY_ATSTART", "ANCHORED"}

TrialOf(subject, options, start) ==
    [subject |-> subject, match_options |-> options, start |-> start]

\* A case, its context sized for its trials.
Whole(pattern, options, newline, bsr, trials) ==
    [pattern |-> pattern, options |-> options, newline |-> newline, bsr |-> bsr,
     trials |-> trials, maxlen |-> Longest(trials)]

Subsequences(seq) == {[i \in 1..Cardinality(kept) |->
                          seq[CHOOSE k \in kept :
                                 Cardinality({j \in kept : j =< k}) = i]] :
                        kept \in SUBSET (1..Len(seq))}

Nonempty(seq) == Subsequences(seq) \ {<<>>}

\* A case and the shapes among which the failing ones are drawn.
Population(c, patterns, options, newlines, bsrs, trials) ==
    [case |-> c,
     shapes |-> {[pattern |-> p, options |-> o, newline |-> n, bsr |-> b, trial |-> t] :
                   p \in patterns, o \in options, n \in newlines, b \in bsrs, t \in trials}]

Bytes == [i \in 1..Length |-> i]

JustPattern ==
    Population(Whole(Bytes, {}, "LF", "UNICODE", <<>>),
               Nonempty(Bytes), {{}}, {"LF"}, {"UNICODE"}, {NoTrial})

PatternAndOptions ==
    Population(Whole(<<1, 2>>, {"CASELESS"}, "CR", "UNICODE", <<>>),
               Nonempty(<<1, 2>>), {{}, {"CASELESS"}}, {"LF", "CR"}, {"UNICODE"}, {NoTrial})

JustConventions ==
    Population(Whole(<<1>>, {"CASELESS"}, "CR", "ANYCRLF", <<>>),
               {<<1>>}, {{}, {"CASELESS"}}, {"LF", "CR"}, {"UNICODE", "ANYCRLF"}, {NoTrial})

\* Two bytes and a start past them; one byte with a match option and a start.
FirstTrials == {TrialOf(s, {}, k) : s \in {<<1, 2>>}, k \in {0, 2}}
                 \cup {TrialOf(s, {}, k) : s \in {<<1>>, <<2>>}, k \in {0, 1}}

SecondTrials == {TrialOf(<<3>>, o, k) : o \in {{}, {"NOTBOL"}}, k \in {0, 1}}

TwoTrials ==
    Population(Whole(<<1>>, {}, "LF", "UNICODE",
                     <<TrialOf(<<1, 2>>, {}, 2), TrialOf(<<3>>, {"NOTBOL"}, 1)>>),
               {<<1>>}, {{}}, {"LF"}, {"UNICODE"},
               FirstTrials \cup SecondTrials \cup {NoTrial})

Init == \E population \in {JustPattern, PatternAndOptions, JustConventions, TwoTrials} :
           \E family \in SUBSET population.shapes : Begin(population.case, family)

(***************************************************************************)
(* Whatever the predicate, the case in hand fails in the class it was      *)
(* given with at every moment of the reduction: a pass that guessed, or    *)
(* that tested one candidate and kept another, would hand the corpus a     *)
(* case that shows nothing.                                                *)
(***************************************************************************)
StillFails == Fails(case)

(***************************************************************************)
(* Every trial's offset lies inside its subject and the context is sized   *)
(* for exactly the longest of them, however the trials were cut.           *)
(***************************************************************************)
StillSized ==
    /\ case.maxlen = Longest(case.trials)
    /\ \A t \in ToSet(case.trials) : t.start =< Len(t.subject)

(***************************************************************************)
(* When the reducer stops nothing it could take away on its own is left:   *)
(* no byte of the pattern or of a subject (the last one is never offered), *)
(* no trial, option, match option or offset, and no convention.            *)
(***************************************************************************)
Smaller(c) ==
    {[c EXCEPT !.pattern = p] : p \in {Dropped(c.pattern, 1, k) : k \in
                                         IF Len(c.pattern) > 1 THEN 1..Len(c.pattern) ELSE {}}}
      \cup {Sized(c, Dropped(c.trials, 1, k)) : k \in 1..Len(c.trials)}
      \cup {[c EXCEPT !.options = @ \ {o}] : o \in c.options}
      \cup {[c EXCEPT !.newline = "LF"], [c EXCEPT !.bsr = "UNICODE"]}
      \cup UNION {{With(c, i, smaller) : smaller \in
                     LET t == c.trials[i] IN
                       {[t EXCEPT !.start = 0]}
                         \cup {Cut(t, Dropped(t.subject, 1, k)) :
                                 k \in IF Len(t.subject) > 1 THEN 1..Len(t.subject) ELSE {}}
                         \cup {[t EXCEPT !.match_options = @ \ {o}] :
                                 o \in t.match_options}} : i \in 1..Len(c.trials)}

LocallyMinimal ==
    stage = "done" => \A smaller \in Smaller(case) \ {case} : ~ Fails(smaller)

(***************************************************************************)
(* No pass makes a case larger in any respect, whatever it offers: fewer   *)
(* trials, or as many and none of them longer, later or with an option     *)
(* more; a shorter pattern or the same; no new option, no new convention.  *)
(* A sweep that changes the case therefore leaves less of it, and the      *)
(* sweeps come to an end.                                                  *)
(***************************************************************************)
Fewer(a, b) == Len(a) < Len(b) \/ a = b

TrialShrunk(a, b) ==
    /\ Fewer(a.subject, b.subject)
    /\ a.match_options \subseteq b.match_options /\ a.start =< b.start

Shrunk(a, b) ==
    /\ Fewer(a.pattern, b.pattern) /\ a.options \subseteq b.options
    /\ a.newline \in {b.newline, "LF"} /\ a.bsr \in {b.bsr, "UNICODE"}
    /\ \/ Len(a.trials) < Len(b.trials)
       \/ /\ Len(a.trials) = Len(b.trials)
          /\ \A i \in 1..Len(a.trials) : TrialShrunk(a.trials[i], b.trials[i])

SweepsShrink == Shrunk(case, before)
=============================================================================
