-------------------------------- MODULE Emit --------------------------------
(***************************************************************************)
(* The code generator of engine/compiler.py: a walk over the syntax tree   *)
(* with an explicit stack of jobs, one visit of the topmost job a step.    *)
(* It writes the instructions, the table of repetitions, and the region    *)
(* table that says which construct each stretch of code came from; splits  *)
(* and jumps are written before their targets are known and patched when   *)
(* they are.  A walk that meets a cap ends with E_PATTERN_TOO_LARGE, and    *)
(* what it had written by then is not read by anyone: such a visit is      *)
(* taken whole here, and only `err` says that it was refused.              *)
(***************************************************************************)
EXTENDS Tree

\* What the generator is handed: a tree, whether ENDANCHORED is on, the caps.
IsInput(i) ==
  IsTree(i.tree) /\ i.endanchored \in BOOLEAN /\ i.caps \in [CapNames -> Nat]

VARIABLES
  tree, endanchored, caps,    \* the input, fixed at the start
  fit, lowdec,                \* the dry run's prediction and its decision
  code, reps, regions,        \* the output
  jobs, patches,              \* the job stack, and jumps waiting for a target
  peakjobs, peakpatch, used,  \* how high the stacks got, and the visits spent
  crfirst,                    \* may a match begin by eating a CR?
  stage,                      \* "plan", "walk" or "done"
  err                         \* "none", "E_PATTERN_TOO_LARGE" or "E_INTERNAL"

input == <<tree, endanchored, caps>>
plan == <<fit, lowdec>>
out == <<code, reps, regions>>
work == <<jobs, patches, peakjobs, peakpatch, used>>
vars == <<input, plan, out, work, crfirst, stage, err>>

Lowering == lowdec = "LOWERED"
\* Do the numbers of the dry run describe the program about to be written?
Predicted == Lowering \/ lowdec = "NOT_NEEDED"

Pc == Len(code)
Top == jobs[Len(jobs)]
Nd == tree[Top.node]

Inst(op, arg, alt) == [op |-> op, arg |-> arg, alt |-> alt, set |-> {}]

\* open_region and close_region: both ends are the code length of the moment.
Open(rs, kind, parent, pc) ==
  Append(rs, [kind |-> kind, parent |-> parent, lo |-> pc, hi |-> pc])
Close(rs, at, pc) == [rs EXCEPT ![at + 1].hi = pc]

NewJob(node, here) ==
  [node |-> node, phase |-> "start", cur |-> 0, mark |-> 0, base |-> 0,
   here |-> here, arm |-> NONE]

\* The topmost job becomes `job`, and perhaps a child is pushed above it.
Keep(job) == [jobs EXCEPT ![Len(jobs)] = job]
KeepAndPush(job, node, here) == Append(Keep(job), NewJob(node, here))
Pop == Front(jobs)

\* What every visit has in common: its fuel, the peaks, and the caps.
Account ==
  /\ used' = used + 1
  /\ peakjobs' = Larger(peakjobs, Len(jobs'))
  /\ peakpatch' = Larger(peakpatch, Len(patches'))
  /\ err' = IF /\ Len(code') <= caps.code /\ Len(regions') <= caps.regions
               /\ Len(reps') <= caps.reps /\ Len(jobs') <= caps.jobs
               /\ Len(patches') <= caps.patches
            THEN "none" ELSE "E_PATTERN_TOO_LARGE"
  /\ stage' = IF err' = "none" THEN stage ELSE "done"
  /\ UNCHANGED <<input, plan, crfirst>>

-----------------------------------------------------------------------------
(* Planning.                                                               *)

Handed(inputs) ==
  /\ \E i \in inputs : tree = i.tree /\ endanchored = i.endanchored /\ caps = i.caps
  /\ fit = [c \in CapNames |-> 0] /\ lowdec = "NOT_NEEDED"
  /\ code = <<>> /\ reps = <<>> /\ regions = <<>>
  /\ jobs = <<>> /\ patches = <<>>
  /\ peakjobs = 0 /\ peakpatch = 0 /\ used = 0
  /\ crfirst = FALSE /\ stage = "plan" /\ err = "none"

\* plan_lowering, then the root region and the root's job.
Plan ==
  /\ stage = "plan"
  /\ fit' = FitVector(tree, endanchored)
  /\ lowdec' = Decision(tree, fit', caps)
  /\ regions' = Open(regions, "RkRoot", NONE, 0)
  /\ jobs' = <<NewJob(1, 0)>>
  /\ peakjobs' = 1
  /\ err' = IF caps.regions = 0 \/ caps.jobs = 0 THEN "E_PATTERN_TOO_LARGE" ELSE "none"
  /\ stage' = IF err' = "none" THEN "walk" ELSE "done"
  /\ UNCHANGED <<input, code, reps, patches, peakpatch, used, crfirst>>

-----------------------------------------------------------------------------
(* Visits of the constructs that repeat nothing.                           *)

\* The stack is not empty and there is fuel to look at its top.
Visiting(kind, phases) ==
  /\ stage = "walk" /\ jobs # <<>> /\ used < caps.fuel
  /\ Nd.kind = kind /\ Top.phase \in phases

WalkNil ==
  /\ Visiting("Nil", {"start"})
  /\ jobs' = Pop /\ UNCHANGED <<out, patches>>

WalkLeaf ==
  /\ Visiting("Leaf", {"start"})
  /\ code' = Append(code, [Inst(Nd.op, 0, 0) EXCEPT !.set = Nd.set])
  /\ jobs' = Pop
  /\ UNCHANGED <<reps, regions, patches>>

WalkConcat ==
  /\ Visiting("Concat", {"start"})
  /\ jobs' = IF Top.cur = Len(Nd.kids) THEN Pop
             ELSE KeepAndPush([Top EXCEPT !.cur = @ + 1], Nd.kids[Top.cur + 1], Top.here)
  /\ UNCHANGED <<out, patches>>

OpenGroup ==
  LET mine == Len(regions)
      inside == [Top EXCEPT !.here = mine, !.phase = "body"]
  IN  /\ Visiting("Group", {"start"})
      /\ regions' = Open(regions, "RkGroup", Top.here, Pc)
      /\ code' = IF Nd.val = 0 THEN code ELSE Append(code, Inst("OpSave", 2 * Nd.val, 0))
      /\ jobs' = IF Nd.kids = <<>> THEN Keep(inside)
                 ELSE KeepAndPush(inside, Nd.kids[1], mine)
      /\ UNCHANGED <<reps, patches>>

\* A group that compiled to nothing takes its region, now the last, back off.
CloseGroup ==
  /\ Visiting("Group", {"body"})
  /\ code' = IF Nd.val = 0 THEN code ELSE Append(code, Inst("OpSave", 2 * Nd.val + 1, 0))
  /\ regions' = IF regions[Top.here + 1].lo = Len(code') THEN SubSeq(regions, 1, Top.here)
                ELSE Close(regions, Top.here, Len(code'))
  /\ jobs' = Pop
  /\ UNCHANGED <<reps, patches>>

-----------------------------------------------------------------------------
(* Alternations: a split before each branch but the last, a jump to the    *)
(* common end after it.                                                    *)

\* A single branch compiles to no split, and has no region of its own.
AltOnly ==
  /\ Visiting("Alt", {"start"}) /\ Len(Nd.kids) = 1
  /\ jobs' = KeepAndPush([Top EXCEPT !.base = Len(patches), !.phase = "only", !.cur = 1],
                         Nd.kids[1], Top.here)
  /\ UNCHANGED <<out, patches>>

AltOnlyDone ==
  /\ Visiting("Alt", {"only"})
  /\ jobs' = Pop /\ UNCHANGED <<out, patches>>

AltFirst ==
  LET inside == Len(regions)
  IN  /\ Visiting("Alt", {"start"}) /\ Len(Nd.kids) > 1
      /\ code' = Append(code, Inst("OpSplit", Pc + 1, 0))
      /\ regions' = Open(Open(regions, "RkAlt", Top.here, Pc), "RkBranch", inside, Pc + 1)
      /\ jobs' = KeepAndPush([Top EXCEPT !.base = Len(patches), !.phase = "arms", !.cur = 1,
                                         !.mark = Pc, !.here = inside, !.arm = inside + 1],
                             Nd.kids[1], inside + 1)
      /\ UNCHANGED <<reps, patches>>

\* The branch just written leaves by a jump, the split that guarded it learns
\* where the next one begins, and the next is guarded by a split unless last.
AltNext ==
  LET k == Top.cur + 1
      last == k = Len(Nd.kids)
      left == Append([code EXCEPT ![Top.mark + 1].alt = Pc + 1], Inst("OpJump", 0, 0))
      mine == Len(regions)
  IN  /\ Visiting("Alt", {"arms"})
      /\ code' = IF last THEN left ELSE Append(left, Inst("OpSplit", Pc + 2, 0))
      /\ patches' = Append(patches, Pc)
      /\ regions' = Open(Close(regions, Top.arm, Pc), "RkBranch", Top.here, Len(code'))
      /\ jobs' = KeepAndPush([Top EXCEPT !.cur = k, !.arm = mine,
                                         !.mark = IF last THEN @ ELSE Pc + 1,
                                         !.phase = IF last THEN "ended" ELSE "arms"],
                             Nd.kids[k], mine)
      /\ UNCHANGED reps

\* Every jump pushed since this alternation began lands here.
AltEnd ==
  /\ Visiting("Alt", {"ended"})
  /\ code' = [p \in DOMAIN code |->
                IF \E i \in (Top.base + 1) .. Len(patches) : patches[i] + 1 = p
                THEN [code[p] EXCEPT !.arg = Pc] ELSE code[p]]
  /\ patches' = SubSeq(patches, 1, Top.base)
  /\ regions' = Close(Close(regions, Top.arm, Pc), Top.here, Pc)
  /\ jobs' = Pop
  /\ UNCHANGED reps

-----------------------------------------------------------------------------
(* Repetitions.                                                            *)

\* Mutation: the body always comes first.
PatchedGreedy(cs, sp, greedy, stop) ==
  [cs EXCEPT ![sp + 1].arg = sp + 1, ![sp + 1].alt = stop]

\* The arms of the split at sp, the preferred first, once the exit is known.
Patched(cs, sp, greedy, stop) ==
  [cs EXCEPT ![sp + 1].arg = IF greedy THEN sp + 1 ELSE stop,
             ![sp + 1].alt = IF greedy THEN stop ELSE sp + 1]

RepeatNever ==
  /\ Visiting("Repeat", {"start"}) /\ Nd.hi = 0
  /\ jobs' = Pop /\ UNCHANGED <<out, patches>>

RepeatOnce ==
  /\ Visiting("Repeat", {"start"}) /\ IsOnce(Nd)
  /\ jobs' = KeepAndPush([Top EXCEPT !.phase = "once"], Nd.kids[1], Top.here)
  /\ UNCHANGED <<out, patches>>

RepeatOnceDone ==
  /\ Visiting("Repeat", {"once"})
  /\ jobs' = Pop /\ UNCHANGED <<out, patches>>

RepeatOption ==
  LET mine == Len(regions)
  IN  /\ Visiting("Repeat", {"start"}) /\ IsOption(Nd)
      /\ regions' = Open(regions, "RkRepeat", Top.here, Pc)
      /\ code' = Append(code, Inst("OpSplit", 0, 0))
      /\ jobs' = KeepAndPush([Top EXCEPT !.here = mine, !.mark = Pc, !.phase = "option"],
                             Nd.kids[1], mine)
      /\ UNCHANGED <<reps, patches>>

RepeatOptionDone ==
  /\ Visiting("Repeat", {"option"})
  /\ code' = Patched(code, Top.mark, Nd.greedy, Pc)
  /\ regions' = Close(regions, Top.here, Pc)
  /\ jobs' = Pop
  /\ UNCHANGED <<reps, patches>>

\* The counter form, also the native star that a lowered {m,} ends in.
OpenLoop(lo, hi) ==
  LET mine == Len(regions)
      r == Len(reps)
  IN  /\ regions' = Open(regions, "RkRepeat", Top.here, Pc)
      /\ reps' = Append(reps, [lo |-> lo, hi |-> hi, greedy |-> Nd.greedy,
                               head |-> Pc + 1, body |-> Pc + 2, after |-> 0])
      /\ code' = code \o <<Inst("OpRepZero", r, 0), Inst("OpRepLoop", r, 0),
                           Inst("OpRepEnter", r, 0)>>
      /\ jobs' = KeepAndPush([Top EXCEPT !.here = mine, !.mark = r, !.phase = "loop"],
                             Nd.kids[1], mine)
      /\ UNCHANGED patches

RepeatLoop ==
  /\ Visiting("Repeat", {"start"}) /\ Nd.hi # 0
  /\ IsStar(Nd) \/ (~Canonical(Nd) /\ ~Lowering)
  /\ OpenLoop(Nd.lo, Nd.hi)

RepeatLoopDone ==
  /\ Visiting("Repeat", {"loop"})
  /\ code' = Append(code, Inst("OpRepNext", Top.mark, 0))
  /\ reps' = [reps EXCEPT ![Top.mark + 1].after = Pc + 1]
  /\ regions' = Close(regions, Top.here, Pc + 1)
  /\ jobs' = Pop
  /\ UNCHANGED patches

\* The lowered form takes its first copy on the next visit.
RepeatLower ==
  /\ Visiting("Repeat", {"start"}) /\ Nd.hi # 0
  /\ ~Canonical(Nd) /\ Lowering
  /\ jobs' = Keep([Top EXCEPT !.cur = 0, !.phase = "lower"])
  /\ UNCHANGED <<out, patches>>

\* The copies the minimum demands, side by side in the parent's region.
LowerCopy ==
  /\ Visiting("Repeat", {"lower"}) /\ Top.cur < Nd.lo
  /\ jobs' = KeepAndPush([Top EXCEPT !.cur = @ + 1], Nd.kids[1], Top.here)
  /\ UNCHANGED <<out, patches>>

LowerStar ==
  /\ Visiting("Repeat", {"lower"}) /\ Top.cur >= Nd.lo /\ Nd.hi = NONE
  /\ OpenLoop(0, NONE)

\* One more optional copy, nested in the one before it.
LowerOption ==
  LET mine == Len(regions)
  IN  /\ Visiting("Repeat", {"lower"})
      /\ Top.cur >= Nd.lo /\ Nd.hi # NONE /\ Top.cur < Nd.hi
      /\ regions' = Open(regions, "RkRepeat", Top.here, Pc)
      /\ code' = Append(code, Inst("OpSplit", 0, 0))
      /\ jobs' = KeepAndPush([Top EXCEPT !.here = mine, !.cur = @ + 1], Nd.kids[1], mine)
      /\ UNCHANGED <<reps, patches>>

\* The region k levels above `at`, which is also the k-th open optional copy.
Above(at, k) ==
  LET up[i \in 0 .. k] == IF i = 0 THEN at ELSE regions[up[i - 1] + 1].parent
  IN  up[k]

\* All the optional copies end here: the parents of the innermost region are
\* the splits to patch and the regions to close.
LowerDone ==
  LET opened == {Above(Top.here, k) : k \in 0 .. (Nd.hi - Nd.lo - 1)}
      splits == {regions[at + 1].lo : at \in opened}
  IN  /\ Visiting("Repeat", {"lower"}) /\ Top.cur = Nd.hi
      /\ code' = [p \in DOMAIN code |->
                    IF p - 1 \in splits THEN Patched(code, p - 1, Nd.greedy, Pc)[p] ELSE code[p]]
      /\ regions' = [i \in DOMAIN regions |->
                       IF i - 1 \in opened THEN [regions[i] EXCEPT !.hi = Pc] ELSE regions[i]]
      /\ jobs' = Pop
      /\ UNCHANGED <<reps, patches>>

-----------------------------------------------------------------------------
(* The end of the walk.                                                    *)

OutOfFuel ==
  /\ stage = "walk" /\ jobs # <<>> /\ used >= caps.fuel
  /\ err' = "E_INTERNAL" /\ stage' = "done"
  /\ UNCHANGED <<input, plan, out, work, crfirst>>

\* The instructions reachable before any byte is eaten: mark_seen over a
\* worklist.  Unlike Successors, a loop is left only if it may be skipped.
Ahead(cs, rs, p) ==
  LET inst == cs[p + 1]
  IN  CASE inst.op \in EaterOps \cup {"OpAccept"} -> {}
        [] inst.op = "OpSplit" -> {inst.arg, inst.alt}
        [] inst.op = "OpJump" -> {inst.arg}
        [] inst.op = "OpRepLoop" ->
             {rs[inst.arg + 1].body}
               \cup (IF rs[inst.arg + 1].lo = 0 THEN {rs[inst.arg + 1].after} ELSE {})
        [] inst.op = "OpRepNext" -> {rs[inst.arg + 1].head, rs[inst.arg + 1].after}
        [] OTHER -> {p + 1}

Leading(cs, rs) ==
  LET seen[k \in 0 .. Len(cs)] ==
        IF k = 0 THEN {0}
        ELSE LET sofar == seen[k - 1]
             IN  sofar \cup UNION {Ahead(cs, rs, p) : p \in sofar}
  IN  seen[Len(cs)]

\* Mutation: a byte a class or a dot may eat is not looked at.
ScanFirstChars(cs, rs) ==
  \E p \in Leading(cs, rs) :
    cs[p + 1].op \in {"OpChar", "OpCharCI"} /\ "CR" \in cs[p + 1].set

\* scan_first: an unknown first byte counts as a CR.
ScanFirst(cs, rs) ==
  \E p \in Leading(cs, rs) :
    \/ cs[p + 1].op \in {"OpAny", "OpAnyNoNL", "OpBsr", "OpAccept"}
    \/ "CR" \in cs[p + 1].set

\* check_fit: the prediction and what was written, entry by entry.
FitExact ==
  fit = [code |-> Len(code'), regions |-> Len(regions'), reps |-> Len(reps),
         regs |-> CountRegs(Groups(tree), Len(reps)), jobs |-> peakjobs,
         patches |-> peakpatch, fuel |-> used]

Finish ==
  /\ stage = "walk" /\ jobs = <<>>
  /\ code' = code \o (IF endanchored THEN <<Inst("OpEod", 0, 0)>> ELSE <<>>)
                  \o <<Inst("OpAccept", 0, 0)>>
  /\ regions' = Close(regions, 0, Len(code'))
  /\ err' = CASE Len(code') > caps.code -> "E_PATTERN_TOO_LARGE"
              [] Len(code') <= caps.code /\ Predicted /\ ~FitExact -> "E_INTERNAL"
              [] OTHER -> "none"
  /\ crfirst' = IF err' = "none" THEN ScanFirst(code', reps) ELSE crfirst
  /\ stage' = "done"
  /\ UNCHANGED <<input, plan, reps, work>>

Walk ==
  /\ \/ WalkNil \/ WalkLeaf \/ WalkConcat \/ OpenGroup \/ CloseGroup
     \/ AltOnly \/ AltOnlyDone \/ AltFirst \/ AltNext \/ AltEnd
     \/ RepeatNever \/ RepeatOnce \/ RepeatOnceDone \/ RepeatOption \/ RepeatOptionDone
     \/ RepeatLoop \/ RepeatLoopDone
     \/ RepeatLower \/ LowerCopy \/ LowerStar \/ LowerOption \/ LowerDone
  /\ Account

\* Each visit spends fuel, so a walk that never gets stuck ends.
Generate == Plan \/ Walk \/ OutOfFuel \/ Finish
=============================================================================
