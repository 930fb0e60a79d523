# A TLA+ model of pcre-vera

pcre-vera generates a PCRE matching engine. The engine is written once, in a
Python DSL that builds a small intermediate language (TIR), and translated to
Go, JavaScript and Lean. What makes the engine unusual is its resource
contract: every call is given a cost, a stack and a memory limit, the engine
never exceeds one, and a compiled pattern can say in advance (a *certificate*)
what a call on a subject of a given length may need. This directory models
the engine from pattern bytes to answers, the intermediate language it is
written in, the oracle it is tested against and the sweep that does the
testing; it checks the models with TLC and proves, with TLAPS, the safety of
both matchers, of the oracle client, of the validator's walk and of the sweep's
cases, its reports, its reductions and its promotions, and that the backtracking
matcher implements an abstract one.

Paths below are relative to the repository; `engine/` is `src/pcrevera/engine/`.

## 1. Inventory

| Part | State | Operations | What is hard | What makes it correct |
|---|---|---|---|---|
| Backtracking matcher, `engine/vm.py` | program counter, position, register file, backtrack stack, undo trail, capacities, cost/memory/peak counters | `bt_run`: one step per opcode, fail, undo, bumpalong, deliver; `bt_match` on fresh scratch | a register is journalled only if a choice point could see the write; two arrays double against three limits; a refusal can strike at any push | the answer preference defines; accounts exact; limits never passed; undo equal to copying the registers |
| Lockstep matcher, `engine/pike.py` | two thread lists, closure stack, visited marks, a pool of capture blocks with reference counts and a free list, the recorded match | `pike_run`: seed, clear, step, accept, swap, deliver; `pike_add`: the closure; `pike_take/drop/write`; `pike_ok`, `pike_room`, `pike_price` | copy-on-write between threads; six arrays growing; an accept kills only the threads below it | the same answer as the backtracking one; counts exact; price and room sufficient; ineligible programs refused |
| Match context, `engine/context.py` | the reserved arrays, the limits it was created with, slack, readiness | `ctx_create`, `ctx_match` | the scratch outlives calls and is re-created over itself; memory is computed twice | creation decided by the accessors' answer alone; no growth in a call; a call sees nothing of the one before |
| Bound accessors and arithmetic, `engine/accessors.py`, `bounds.py`, `certificate.py` (`cert_bound`) | none | `re_cost`, `re_stack`, `re_mem`; evaluation of a bound | saturation at 2^53-1; precedence of refusals | never smaller than what a run uses |
| Parser, `engine/parser.py` | the arena of nodes, open frames, classes, names, references, options in force | `parse`: a turn of the main loop per item; `parse_class`; the checks at the end | slots rewritten in place while frames hold indices; option scoping; what the lexer makes invisible; references judged late | the tree the pattern's text says; the first error pcre2 would report; no item its auto-possessification would answer otherwise |
| Compiler, `engine/compiler.py` | jobs, code, regions, patches, the dry run's sizes | `plan_lowering`, the emitter, `scan_first` | two walks that must agree to the entry, at seven caps | the program matches what the tree matches; the dry run is exact |
| Analyzer and checker, `engine/analyzer.py`, `certificate.py` | prices of regions | `cert_build`, `cert_shape`, `cert_check`, `cert_install` | saturation, degrees, rules stated twice | what is accepted bounds every run; the two never contradict |
| TIR, `src/pcrevera/tir` | program under validation; the interpreter's storage and frames | validate, interpret | linearity, aliasing, moves through nested places | what is accepted never goes wrong: no shared mutable object, no frozen value changed |
| DSL, back ends, Lean export | program text | print | agreement of four implementations | not modelled |
| pcre2 oracle client, `src/pcrevera/oracle/client.py`, and shim, `oracle/pcre2shim/shim.c` | the process held, its pipes, a watchdog thread per request | `start`, `close`, requests | a process that stalls, dies, answers late; the watchdog racing the answer | every call returns; an answer is the one asked for; nothing is left running |
| Sweep, `src/pcrevera/sweep` | one case under checks; the case being reduced; results of a pool; the two corpora | `run_case`, `minimize`, `campaign.run`, `promote` | which difference is a failure and which a decline; results out of order; a reducer that must keep the failure; two files written one after the other | no false alarm, no missed fault; the same report whatever the workers; only fixed cases are kept |
| Capsule, corpora, conformance, oracle build | files | pack, hash, fetch | file input and output | not modelled |

How they meet: the parser's tree is priced by the compiler's dry run, which
decides whether quantifiers are expanded; the emitted program and its region
tree go to the analyzer, and the certificate it builds is kept only if the
checker accepts it. Compilation stores in the pattern a program, a flag saying
whether the lockstep matcher may run it, and a certificate; the accessors read
the certificate of the matcher the flag picks; a context asks the accessors,
reserves, and calls that matcher on its own scratch. All of this is TIR, run by the interpreter of `tir` or
translated. Nothing in the engine runs
concurrently: its hazards are long sequences of legal steps and limits that
strike in the middle of them. The oracle is concurrent: a client thread, a timer
thread per request and a child process; so is the sweep: a pool of workers, and
commands run one after another over the same files.

The hazards are listed one by one, at their lines, in `PROJECT.json`.

## 2. Modules

| Module | What it models |
|---|---|
| `Program` | compiled patterns, calls, newline conventions, what an instruction asks of a subject, the growth schedule, evaluation of a bound; the order in which a program prefers its alternatives (`Arms`) |
| `BtVM` | `bt_run`/`bt_match`, one action per opcode group and per phase of the failure path |
| `Expected` | the answer of a call computed from `Arms` (recursive; TLC only) |
| `Snapshot` | the abstract backtracker: whole configurations on a stack, registers copied, nothing charged |
| `BtRefinement` | the mapping under which `BtVM` implements `Snapshot`: each choice point is given the registers that replaying the trail down to its mark would restore |
| `PikePrice` | `pike_ok`/`pike_hollow`, `pike_room`, `pike_price` |
| `PikeVM` | `pike_run`, `pike_add` and the capture pool |
| `Certificate` | the accessors |
| `Context` | the match context, composed of `BtVM` and `PikeVM` instantiated on shared scratch |
| `ContextPromise` | what a context promises, without scratch or matchers |
| `Oracle` | the client, its watchdogs and the shim processes |
| `Patterns`, `BtSemantics`, `PikeAnswers`, `ContextRun` | the compiled patterns and calls of the runs, and the properties that compare a run with `Expected` or `ContextPromise` |
| `Lexis` | what the parser reads at one place: tokens, escapes, numbers, gaps |
| `Parser` | the turns of the main loop over `Work`, and of the loop over a class; the whole pass |
| `ParserRun` | the patterns tried, read a second time off their tokens; a second pass (`Filled`) over the same pattern with a filling between two tokens |
| `Tree` | the syntax tree, the dry run, the lowering decision, the pre-check |
| `Emit` | the emitter: jobs, code, regions, patches, caps, the first-byte scan |
| `TreeMeaning` | what a tree matches, defined on the tree |
| `Checker`, `Install` | the algebra of growth polynomials, the price of an instruction and the judge of a certificate; the search for one, and the phase that runs both |
| `Compile`, `CompileRun` | tree to program to certificate to match; the trees and caps tried, and the tables and claims disturbed on the way |
| `TirTypes`, `TirHeap` | types and linearity, arithmetic; values, slots, places and expressions |
| `TirRules`, `TirEndings`, `TirGraph` | the validator's rules on a statement, on how bodies end, on chains of declarations |
| `TirMachine`, `TirRun` | the interpreter running what the rules accept; the programs tried |
| `TirChecks` | expressions, each in a machine; the run of what is judged without running: expressions, bodies (`TirEndings`) and declarations (`TirGraph`) |
| `SweepCase` | one case of a sweep |
| `Reduce` | the reducer, and the failures it is tried on |
| `Campaign`, `Promotion` | the pool and its report; the failure loop over two corpora |
| `SweepRun` | the run of the four, side by side, and the engines a case is tried on |
| `ProgramProofs` | lemmas about numbers, sequences and the operators of `Program` |
| `BtVMProofs` | theorems about `BtVM`, and that it implements `Snapshot` |
| `PikeVMProofs`, `PikePriceProofs` | theorems about `PikeVM`: pool, captures, refusals and ledger; room and price |
| `OracleProofs` | theorems about `Oracle` |
| `TirGraphProofs` | theorems about `TirGraph` |
| `SweepCaseProofs`, `SweepProofs` | theorems about a case of `SweepRun`; about the failure loop, a reduction and a campaign |

### How state and actions correspond to the code

`BtVM`. The variables are `bt_run`'s locals and scratch arrays: `regs`, `bt`,
`trail` with capacities `btcap` and `trailcap`, `cost`, `mem`, `peak`,
`stackpeak`. Addresses and slots are 0-based as in the code (`At`). `phase` is
the place in the function: `attempt` (registers being reset), `run` (the
dispatch), `fail`, `undo` (one trail entry at a time), `next` (bumpalong),
`stop` (delivery). A step of the code that charges and may be refused is one
action with both outcomes (`Fork`, `WriteReg`, `Charge`, `Refuse`). `OutOfCost`
is the refusal at the head of the dispatch.

`PikeVM`. The arrays, counts and ledger that the code passes to every helper
are one record, `heap`, so that a helper (`Take`, `Drop`, `Write`, `Push`) is an
operator on heaps; `heap.ok` turns false where a helper returns false, and the
action that called it stops the run. `into` says which list the closure is
filling, `next` is the loop index over the current list, `mh` the block of the
recorded match.

`Context`. `Bt!Enter` and `Pike!Enter` are the entries of the two matchers,
taken with the capacities the context already has and the memory limit
`ctx_match` gives them. `ctx` holds the scalar fields.

`Oracle`. `held` is `Oracle._process`; `shim` the processes and their pipes;
`dog` the watchdogs, each with its timer and its two flags; `at` is where the
client is in `_exchange`. `Stop` and `GiveUp` are the two critical sections.

`Parser`. `w` is the source's `Work`, field by field; one action is a turn of
`parse`'s loop or of `parse_class`'s. `Lexis` holds what is read without being
changed.

`Emit`. One action takes a job off the explicit stack, as `emit`'s loop does;
`Tree` computes what the dry run folds. `Compile` runs the phases in the order
of `program.py` and then the matcher on the result; a phase with no loop of its
own (`cert_build`, `cert_check`) is an operator over recursive functions.

`TirMachine`. A frame has locals, aliases and types as the interpreter's does;
places resolve as `_place` does, to an object and a slot. A body is not fixed
beforehand: each step runs any statement the validator's rules accept where
control stands, so that one run walks every accepted program over the
statements given. That is also how the validator is modelled: `TirRules` is the
guard.

`SweepCase`. The steps are `_Run`'s questions in order; the engine's answers
are data (`engine`), so that an honest engine and each way of being wrong are
initial states. `Reduce`: one action per pass of `once`, except that delta
debugging steps round by round (`Narrow`: the first chunk whose absence still
fails is dropped, or the `grain` doubles, or the pass ends) and a loop over an
option set takes one option at a time, in any order (`left` is what it has not
come to). `Campaign`: a worker takes a chunk, finishes it, and the parent merges it. `Promotion`: one action
per command, with the two writes of `promote` apart so that a kill fits between.

### What is abstracted

* Bytes are a small set: word bytes `a`..`d`, `CR`, `LF`, `VT` (any other
  one-byte newline) and `-`. A class, a literal and a case-insensitive literal
  are the set of bytes they accept; the class table's bits and the case table
  are left out.
* Integers are unbounded. The code's counters saturate or are tested before
  they are added to; the models keep the tests (`amount > limit - spent`) and
  `Accounts` (its part `WithinLimits`) shows the subtraction never goes below zero. The cap at
  2^53-1 is the constant `Cap` of `Certificate`.
* Zeroing loops (registers, marks, blocks) are one step; their charge is kept.
* A loop bound that TIR requires of each `while` (its fuel expression) is left
  out: it changes no answer.
* A pattern's bytes are the ones the parser tells apart; names and numbers are
  short and their bounds (`MaxQuant`, `MaxName`, `MaxDepth` and so on) small.
* TIR's integers have two and three bits and its counter a small cap, so that
  every pair of values is tried. Names, constants and enum payloads are left out.
* In the sweep a pattern is a sequence of abstract bytes, whether it fails is a
  predicate of its shape, one trial at a time (no failure needs two trials
  together), and a finding keeps its class and trial. Each `write_text` of a
  promotion is one step: a file cut short by a kill within it is left out.
* Lines on the oracle's pipes are `whole`, `odd` (a whole line of the wrong
  shape), `garbled` (does not decode) or `cut`. The field parsing behind them
  and the configuration request are left out.

`Patterns` holds twelve programs as the repository's own compiler emits them,
with the certificates its analyzer issued, and the models were compared with
the repository's interpreter on random calls of them: status, ovector, cost,
stack and memory agree.

## 3. Runs

| Run | Asks | Bounds |
|---|---|---|
| `bt_semantics` | Does the backtracking matcher answer what preference defines or stop cleanly at a limit, within its certificate, and implement the abstract backtracker? | twelve patterns (every opcode; greedy, lazy, counted, nested), subjects up to 3 bytes over the bytes the pattern tells apart, two starts, the options that matter to it; three patterns with each limit swept on its own from nothing to past the most these calls need; five on a longer subject; `MaxStack` 8 and `MaxTrail` 30, so that the portable bounds strike too |
| `pike_semantics` | The same of the lockstep matcher; are counts, room, price and refusal right? | the same patterns, subjects and swept limits, patterns it must refuse included |
| `context` | Is a context's reservation exact, does it stand, and does the caller see only what is promised? | three patterns (one lockstep, two backtracking) and an unpriced one, created over one another, limits exact and one short; 4 calls; `Cap` 30000, `Ceiling` 20000, `MaxLength` 4 so that a bound past each is among them |
| `oracle` | Does every call return with its own answer or an error, leaving nothing running? | 2 shims, 4 lines sent: a late answer, a restart and a request after it all fit |
| `oracle_diagnosis` | Is a shim diagnosed only once it has stopped, as `_diagnosis` says? No. | 1 shim, 2 lines |
| `parser` | Does a pass build the tree the bytes mean, and refuse only for a real fault? | strings of up to four bytes after openings that reach every escape, class and group form; sequences of up to five tokens for nesting and options, of references, of possessive repetitions; each of a family of patterns again with comments, quotes or blanks between two tokens; groups, depth and names capped at 2 or 3 |
| `compile` | Does a compiled tree match what the tree says, is the dry run exact, and does an accepted certificate bound every run? | about 800 trees: 10 quantifiers, greedy and lazy, over 16 bodies, alone and embedded; six trees with each of seven caps swept over their sizes; 4 trees with a field of a region changed, a region removed, or one or two numbers of the certificate off by one; subjects up to 3 bytes |
| `tir` | Can an accepted program go wrong? | three programs: moving sequences between a struct, variables and a frozen variable; a sequence of structs that hold frozen sequences; calls two levels deep, from a host whose arguments share objects in nine ways. Each runs every accepted order of its thirty to eighty statements; sequences of at most 2 elements, integers of 1 and 2 bits, one open block |
| `tir_checks` | Does what the validator says of an expression, a body or a set of declarations hold? | every operator over every pair of literals of every type (2 and 3 bits, counter cap 9), every form of place; bodies of two statements nested three deep; every graph of 4 nodes and out-degree 2 |
| `tir_depth` | Is a chain of declarations bounded, as TIR-SPEC says? No. | 4 nodes, bound 3 |
| `sweep` | No false alarm, no missed fault, a reduction that keeps its failure, a report that does not depend on the workers, sound promotions? | one trial with needs, claims and budgets up to 2, below, at and above one another; three trials of different needs with one comparison at fault; reductions of patterns of up to 4 bytes, two trials, options and conventions, over every set of failing shapes; 5 cases, 3 workers, chunks of 2; 2 failing cases, 2 reruns, 2 kills |
| `sweep_declines` | Is a run a budget stopped never a finding, as `checks.py` says? No. | the cases of `sweep` |

Why small is enough. Subjects of three bytes reach a second bumpalong, an
iteration that matches empty after one that did not, a CRLF split at either end
and a captured group that is overwritten and restored. Limits strike between
any two charges because they are swept in steps no larger than a charge (the
cost in fours, the size of a register; memory in eights, an undo entry). Two
shims are enough for the oracle, which holds one process at a time: what a
third could confuse, a second one can. The parser decides on at most four bytes
of look-ahead and on the frame it is in; the families are exhaustive over both.
A quantifier is lowered by its two numbers, of which the trees have every
class: none, one, exact, optional, unbounded. The validator compares two places
at a time and a struct of two fields, or a sequence of two elements, holds two
that are apart. Where a size must be bounded (objects on the heap, open blocks,
turns) the guard that bounds it is named after the constant: `MaxObjects`,
`MaxBlocks`, `Depth`, `MaxMade`, `MaxRuns`, `MaxKills`, `MaxAsks`, `MaxShims`.

The runs that set `CHECK_DEADLOCK FALSE` are of systems that stop: a program
that has returned, a value judged, a case done, a report written.

The properties, by what they say:

* *Answers.* `AnswersExpected`: the leftmost match, and there the preferred
  path, captures included, all or nothing; a refusal only if the certificate did
  not cover the limits. `Implements`: undoing is copying. `Kept`: a context
  promises the same, call after call. `MeaningKept`: the compiled program, lowered
  or not, prefers what its tree prefers.
* *Accounts.* `Accounts` (limits kept, ledger exact), `WithinCertificate`,
  `WithinPikePrice`, `ReservationExact`, `ReservationStands`; `ClaimsBound`: what
  the checker accepts, honest or disturbed, bounds every run, and the analyzer
  issues nothing looser than the rules need.
* *Discipline.* `AttemptsSound` (cursor inside, trail ordered, attempts apart, no
  start inside a CRLF); `PoolExact` (reference counts, free list, ledger, room);
  `CopyOnWrite`: no thread's captures change but those of the one at work,
  whether the thread waits in a list or lies under it on the closure's stack, and
  those of the recorded match never do; `RefusalExact`.
* *Compilation.* `ProgramSound`: regions nest as the tree does, control stays
  inside, the path chosen is the one the pre-check foresaw, and a scan told that
  no match begins with CR misses none. `NoContradiction`: dry run and emitter,
  analyzer and checker never disagree, at any cap.
* *The parser.* `ArenaIsTree`, `MeansWhatItSays`, `RefusesRightly`,
  `SameReading`.
* *TIR.* `RunsAsTyped`, `NoAliasing`, `FrozenStands`, `ExpressionsRight`,
  `EndingsRight`, `WalkRight`.
* *The oracle.* `StreamInStep`, `AnswerIsMine`, `NothingLeftRunning`,
  `KillStands`, `EveryCallReturns`.
* *The sweep.* `NoFalseAlarm`, `FaultsReported`, `ReductionSound`, `SameReport`,
  `PromotionSound`: no name twice in a corpus, and a promotion nobody kills whole
  in both; a killed one may leave its first half, as the code does. That a
  reduction ends is in `ReductionSound` as a variant:
  every sweep of the passes that changes the case leaves less of it, in an order
  (`Shrunk`) that has no infinite descent, so no fairness is needed to say it.

The matchers' `Termination` is about the loops that no limit ends, the replay of
the trail and the scan over the positions. A repetition that goes round without
eating would run into the cost limit and end; that it must not is in
`AnswersExpected`, `Implements` and `MeaningKept`. `PossessSound` says that what
is accepted is sound, not that nothing sound is refused.

A property with several parts is the conjunction of definitions with names of
their own, beside it in the module.

### Disagreements with a comment or a document

`oracle_diagnosis`. `_diagnosis` documents itself as "Called
only once it has stopped" (`src/pcrevera/oracle/client.py:292`), and the handler
before it says "the shim is gone" (`:262`). A whole line that does not decode as
ASCII raises `UnicodeDecodeError`, which is a `ValueError`, so that handler
catches it; the shim is then diagnosed while it runs, ten seconds pass, it is
killed, and the call reports that it "died mid-answer". Running the client on a
fake shim that answers one byte 0xFF shows the same. No other promise breaks:
the call returns an error and nothing is left running.

`tir_depth`. `TIR-SPEC.md:1349` says nothing nests more than 64 deep. The walk
counts depth along its own path and does not enter what it has settled
(`tir/validate.py:643`), so a chain declared from its far end is accepted
whatever its length.

`sweep_declines`. `sweep/checks.py:22` says a decline is not a finding. When the
selected matcher is stopped by a capped budget and the other completes, the two
answers are compared all the same (`:730`) and an honest engine gets a
cross-matcher finding. `NoFalseAlarm` therefore leaves that case out, as
it does the next one.

Two more, met while modelling and not given a run. `engine/layout.py:205` says
children always sit above their parent in the arena; `new_branch` and
`apply_quant` move a parent above its children, and nothing depends on it, since
the compiler orders the nodes itself. `sweep/checks.py:787` says the cost ceiling
of a context only ever caps; it is the memory budget, and a call on the context
passes no limit of its own, so that with a memory budget below the cost one
the ceiling is the limit.

### Fairness

The engine is a sequential function: until it returns it takes its next step,
which is weak fairness of `Next` (`FairSpec`). In `PikeVM` the formula is written
out (the matcher is done infinitely often, or steps infinitely often), because
evaluating `ENABLED` of that relation is slow; since the run also checks for
deadlock, the two say the same. In `Oracle` the client's thread and the timer
threads are weakly fair: the operating system schedules them, and a timer set
does ring. The shims are not fair, and neither is a write that only a reading
shim can unblock: those are what the watchdog is for. The other runs state
safety only.

## 4. Proofs

The theorems hold for every value of the constants: for every set of calls of
well-formed programs, any subjects, starts and limits; for any number of shims
and of requests; for every graph of declarations; for any population of failing
cases and any number of promotions and kills; for any manifest and any number of
workers. Each safety theorem is `Spec => []Property`, from an inductive
invariant that a lemma per action keeps; the lemmas before them say what the
model's operators do. Nothing is assumed but the named `ASSUME`s of the modules,
which TLC evaluates on the values of the runs, one hypothesis, of
`RefusalHolds`, one, `Roomy`, of `FaultsAreFound`, and the types of what
`ReducesRight` and `ReportsAlike` are about (`Fit`, `OutcomesRight`).

| Property | Theorem | Module |
|---|---|---|
| `TypeOK`, `Accounts`, `AttemptsSound` of `BtVM`, and their parts | `TypesHold`, `AccountsHold`, `AttemptsSoundHold`, ... | `BtVMProofs` |
| `Implements` | `RefinementHolds` | `BtVMProofs` |
| `PoolExact` and its parts `LedgerExact`; `CopyOnWrite`; `RefusalExact` | `PoolHolds`, `LedgerHolds`, `CopyOnWriteHolds`, `RefusalHolds` | `PikeVMProofs` |
| `WithinPikePrice` | `PriceHolds` | `PikePriceProofs` |
| `TypeOK`, `StreamInStep`, `AnswerIsMine`, `NothingLeftRunning`, `KillStands` of `Oracle` | `TypesHold`, `StreamHolds`, `AnswerHolds`, `NothingLeftHolds`, `KillHolds` | `OracleProofs` |
| `WalkRight` | `WalkHolds`, and `RecursionEnds` | `TirGraphProofs` |
| `NoFalseAlarm`, `FaultsReported` of one case | `NoFalseAlarmHolds`, `FaultsReportedHolds`; of any case `HonestIsClear`, `FaultsAreFound` | `SweepCaseProofs` |
| `ReductionSound` | `ReductionHolds`; of any case `ReducesRight` | `SweepProofs` |
| `SameReport` | `SameReportHolds`; of any outcomes `ReportsAlike` | `SweepProofs` |
| `PromotionSound` | `PromotionHolds` | `SweepProofs` |

### The assumptions

`CallsAssumption` and `PikeCallsAssumption`: the calls are of their type and
their programs are `WellFormed`: control stays inside the code, slots inside the
register file, and the code ends in an instruction that does not fall through,
as compilation guarantees (`ProgramSound` checks it of every program the
`compile` run emits). `BoundsAssumption`, `PikeBoundsAssumption`: the portable
bounds are natural numbers. `PikeSizesAssumption`: no program is longer, and no
ovector wider, than the bounds the arrays are declared by; the compiler stops at
either. `OracleAssumption`: the bounds of the model are natural numbers.
`NodesAssumption`: there is a declaration, and the depth allowed is not zero.
`SweepAssumption`: the failing cases and the classes of failure are finitely
many, and no class is in both corpora.
`RefusalHolds` supposes that the flag stored with a program is `Eligible` of it,
as `engine/program.py` computes it once, at compilation: a run tests the flag
and never looks at the code.

### The backtracking matcher

None of the three properties is inductive alone. `BtVMProofs.IInv` is their
conjunction: the limits need the ledger, since what a growth returns must have
been charged before; the ledger needs the types; the types need the cursor
inside a well-formed program, or a step reads nothing it can be typed by; the
cursor's positions after a resume are those of the choice points; and an undo
that restores a typed register needs the marks inside the trail.

`RefinementHolds` maps every step to a step of `Snapshot` or a stutter. The
heart of it is what `Unwound` does to a trail with one entry more (`OneMore`):
replaying the newest entry first changes nothing, so a write that is journalled
leaves every choice point its registers, and one undone entry brings the
register file one entry nearer to the top choice point's. A write that is *not*
journalled is right because no choice point exists that could see it. The
invariant used is `IInv`: without the trail discipline a mark might lie above
the trail, where `Unwound` says nothing.

### The lockstep matcher

`PikeVMProofs.IInv` is the books of the pool. Between two actions a block's
count is the number of its holders: the threads of the current list not stepped
yet, those of the next list, those the closure has deferred, and the recorded
match. Inside a handler the equation does not hold, so it is stated with one
term more, `hand`: what the handler has popped and not parked yet. Each helper
(`Take`, `Drop`, `Write`, `Push`) has a lemma that says how it moves a hold from
one term to another, and a handler is their composition, ending with an empty
hand. Sharing is why copy-on-write is right: a block with one count has one
holder, so the thread that writes it in place is the only one to see the write
(`CopyOnWriteHolds`, an action property, from the same books). The proof names
who must not see it: at a step every thread but the first not stepped yet, in a
closure every thread but the last deferred (`Waits`). Once that one is popped
and in hand, whoever else is counted for a block keeps it as it was (`Spared`,
of `Take` and `Write`), and so does everyone who waited before
(`SparedIsolated`). A heap that a
limit has refused (`heap.ok` false) is exempt, since the code frees nothing
then; its ledger is not, and `LedgerHolds` covers the refused runs too. Its
proof needs no books: growth is charged before it is made.

`PriceHolds` is the theorem behind the certificate of an eligible program: the
closed form of `pike_price` bounds the cost and memory of *every* run. The
argument is an amortised one, and `PriceInv` is the account it keeps.

* A position's list pays one per address seen (`seen` is what makes a list no
  longer than the code) and one block per capture saved; both lists, a step of
  every thread, the marks, the seed and the match come to `PerPos`. What a run
  may have spent at a place in the code is `Due`: the positions done, and the
  share of the present one.
* Growing an array pays for the new and the old capacity. With doubling, all
  that an array has ever paid is less than three times what it weighs now, so it
  is charged to the weight, and the weight is bounded by the room.
* The room of an array is the capacity doubling reaches at its longest (`Most`).
  The lists are bounded by the addresses, the stack by twice the addresses since
  each defers at most one thread more than it takes, and the pool by the blocks
  that can be held at once: one for each thread of the three lists, the match and
  the hand. A new block is only made when the free list is empty, that is when
  every block made has a holder: here the books of `IInv` come in, and
  `PikeSizesAssumption`, so that the portable bound never cuts a growth short of
  the room.

Neither half is inductive without the other: the cost needs the number of
blocks to be bounded, and that bound needs the places of the scan (`Placed`)
that also carry the cost.

### The oracle client

`OracleProofs.IInv` says who owns what. One question is in flight and its
watchdog guards the shim held (`InFlight`); only that watchdog may still shoot
(`OneWatchdog`); a shim that was shot is one the client is about to find out
about (`ShotIsKnown`); at most one shim runs (`OneRuns`); and what is in the
held shim's pipes is the question in flight, or the answer to it, or a piece of
it (`PipesInStep`). `StreamInStep` alone is not inductive: a step of the shim
keeps it only if what it answers is the question in flight, and a timer that
rings keeps it only if it is that of the question in flight.

### The validator's walk

`WalkInv` is the invariant of an iterative depth-first search: the path is a
chain of declarations, none of them twice and none settled (`PathRight`); each
successor of a node of the path is settled, still on the stack, or the next
node of the path (`StackRight`); what is settled names only what is settled, and
nothing settled can go on for ever (`SettledRight`); the declarations before the
root are settled (`RootRight`). A refusal then shows its own reason: the part of
the path from the node named again is a cycle, and a path that has outgrown
`MAX_DEPTH` is a chain deeper than it. Acceptance shows there is none: the last
node settled of a would-be cycle had a successor in it that was not settled
(`FoundedGrows`). That an accepted chain is no *deeper* than `MAX_DEPTH` is not
provable, because it is false (`tir_depth`). `RecursionEnds` is what `is_linear`,
`sizeof` and a chain of calls need of it.

### One case of a sweep

`Init` of `SweepRun` enumerates some engines. The two theorems on a case are
first proved of *any* (`AnyCase`: any number of trials, any needs, bounds and
answers of their types, any budget), and then of those, which are some of them
(`SweptCase`).

`HonestIsClear` is a walk through `run_case` with nothing wrong: every stage
keeps the findings empty, because every run of an honest engine ends inside the
limits `LimitsFor` gives it or is stopped by the budget (`RunIs`), an edge one
above the usage runs as before and one below is refused (`EdgeClear`), and the
context's cap covers what its calls need (`CapCovers`). `CaseInv` keeps with it
where the stages are (`StageRight`), that a row is its run's (`RowsRight`), and
what the context in hand reports (`HeldRight`).

`FaultsAreFound` goes the other way, and its `FoundInv` says when: a trial that
has its row has been compared with everybody it can be compared with
(`TrialFound`); a usage that some row has was edged by the first row that had
it, unless `Edges` others were before (`EdgedRight`); a context in hand has been
compared with the accessor, and a call before `at` with its trial
(`ContextFound`). The fault of a limit one off on the selected path is found on
the *first* trial that spends, not on each, so the last step picks a usage and
goes back to the row that edged it (`EdgedGrows`, `FoundInvHas`). `Roomy` says
that the limit which is one off has room for the run either side of it, in the
budget and under the bound: where there is none a limit one short stops the
plain run itself, and `checks.py` edges no run that the budget stopped. (A fault
of `reports` needs one subject the context is declared for.) The engines of the
run are `Roomy` (`FaultyIsRoomy`), so `FaultsReportedHolds` has no hypothesis.

### The reduction of a failing case

`Init` of `SweepRun` enumerates the failure predicates of some small cases.
`ReducesRight` is of any case and any set of failing shapes: patterns and
subjects of any length, any number of trials. Its hypothesis on the case, `Fit`,
says that it is one that can be written down: bytes are numbers, match options
are those of the specification, start offsets lie inside their subjects, and the
context is sized for the trials. `PopulationsFit` shows it of the cases run, so
`ReductionHolds` has no hypothesis.

That the case goes on failing and stays sized are invariants a pass keeps
because it tests the very case it keeps, context and offsets moved along. That
it is locally minimal at the end is not kept by any pass: an option that could
not go before the subject was cut may go after. `Tried` is what does hold, and
only of a sweep that changes nothing: while the case in hand is the one the sweep
began with, every pass gone by offered all it has to offer and was refused, and
the pass under way has been refused what its loop is past. At the end the case
*is* the one the sweep began with, so nothing is left to offer
(`MinimalAtLast`). Two things make it inductive. A case cannot change and come
back within a sweep: each step takes away (`ShrinkStep`), in an order that is
transitive and antisymmetric (`ShrunkOn`, `ShrunkIs`), so that a case equal to
the first one was never changed in between. And delta debugging ends only on a
round whose chunks are single elements (`FinestRound`), which is the round that
offers each element alone; except for a single trial, which it never offers to
drop, and which the pass `NoTrials` before it does (`OneOnly`).

### The report of a campaign

`ReportsAlike` is of a manifest of any length whose cases come to anything
(`OutcomesRight`: a record or none, any findings, any coverage). The lists of a
report are pieces, one per case, in the order the cases came. `MadeOf` says so
without naming that order: there is a one-to-one map between the entries of the
pieces and the places of the list that keeps each piece in its own order. Adding
a case extends the map (`MadeOfMore`). `SortedIs` is what makes the order
disappear. An entry goes to the place numbered by how many are not after it,
a stable sort leaving what it does not tell apart as it stands; here only two
findings of one case can be so (`FindingOrder` is an order on the *entries*,
whatever the list), and those stand in the same order in every list. So the
number of an entry depends on no list, and with every number taken once
(`OrderNumbers`) neither does the sorted one. It is the index in the key that
this rests on. Coverage is counted, one copy for each time a case covers a point
(`Copies`), so that a case adds the same whenever it comes (`CoveredMore`).
`PoolInv` is then short: a chunk is waiting, held by one worker or in the report,
each case is in one chunk and once in it (`ChunksAre`), and the report is that of
the chunks given back.

### The failure loop

`LoopInv` says what a promotion under way carries: its names are each its own
(`NamedIs`: the second failure of a case in a class gets a higher number), and
none is in the corpus it is for (`WritingRight`), which holds until the write
because nothing else runs between; every promotion begun is in the corpora or in
what is being written, unless one was killed (`BatchesRight`); what it carries
was confirmed, and the code does not change under it (`GainsAreFixed`).
`Chosen` and `FlattenSeq` are recursive functions, as `AddedAll` is, so
`ChosenSteps`, `FlattenIs` and `AddedSteps` first build the functions their
definitions choose.

### What stays with TLC, and why

* *Liveness.* `EveryCallReturns` and the termination of the matchers rest on
  fairness, hence on `ENABLED`, which the prover has no rules for.
* *What a recursive definition computes.* `AnswersExpected`,
  `WithinCertificate`, `Kept`, `MeaningKept`, `ClaimsBound`, `ProgramSound`,
  `NoContradiction` and the parser's properties compare a run with `Expected`,
  with a tree's meaning or with prices computed by recursion over the program;
  the installed provers cannot instantiate the induction this takes, and accept
  no proof in a module that reaches a `RECURSIVE` operator. The same goes for
  TIR's machine, and for the expressions and bodies of `tir_checks`. The induction over the natural numbers that
  the proofs do need (the doubling of a capacity) is derived in `ProgramProofs`
  from the well-foundedness of `<`, for a property given as a set (`NatInd`), and
  again in `SweepProofs` (`CountingUp`), which reads another part of the model.
* `ReservationExact` says that no array grows in a context call. For the
  backtracking matcher that is the soundness of the certificate stored in the
  program, which is data here: only the analyzer's rules make it true, and those
  are recursive. For the lockstep one it follows from `PriceHolds`; the theorem
  would have to be restated of the context's own instance of `PikeVM`.

## 5. Not modelled

Whole parts: the DSL, the back ends and the Lean export (text out, no behaviour
of their own); the second Python reading of the lowering decision and its
report (`lowered.py`, `migration.py`); the certificate corpus; TIR's text,
coverage and strata; the sweep's population, manifest, drawing, sharding and
gate (constants and pure functions); the capsule; the oracle's build, corpora
and conformance; generated code and the Lean development.

Of the modelled parts: the public router `match` of `vm.py` (an argument test,
then the choice `Context` also makes); the driver's conversions between Python
values and the interpreter's, and the range tests that precede a call;
`re_class`, which reads one field; in the parser the sizes of a pattern beyond
a handful of bytes; in TIR the rules on names, constants of enums with
payloads, fuel expressions and the step budget, whose only outcome is a stop;
in the sweep the text of documents, and a worker that dies inside the library's
pool, for which the campaign waits for ever; an interrupt raised inside the
oracle client's thread.

Two behaviours of the oracle client that the model has and no property forbids:
after "died mid-answer" the dead process stays held, so `start()` does nothing
and requests fail until `close()`; and a handshake that arrives whole after its
watchdog fired lets `start()` return with no process held. Both surface as an
error at the next request.

## 6. Plan

Modelled and checked: the matchers, the context, the accessors, the parser, the
compiler, the analyzer and checker, TIR's validator and interpreter, the oracle
client, the sweep. Proved: the safety of both matchers and of the oracle client,
the price of the lockstep one, the refinement of `Snapshot`, the validator's
walk, and the sweep: its cases, its reports, its reductions and its promotions.

What is left, in this order:

1. `ReservationStands` of `Context`, and the lockstep half of
   `ReservationExact`, from `PriceHolds`.
