------------------------------- MODULE PikeVM -------------------------------
(***************************************************************************)
(* The lockstep matcher, engine/pike.py: one pass over the subject with    *)
(* two thread lists kept in order of preference.  Each position seeds a    *)
(* thread (unless a match or an anchor forbids it), closes it over the     *)
(* instructions that eat nothing, and steps the list into the next one.    *)
(* Captures live in a pool of reference-counted blocks that are copied     *)
(* when a shared one is written.                                           *)
(*                                                                         *)
(*   idle -> seed -> (closure ->) clear -> step <-> closure                *)
(*            ^                             |-> seed | stop -> done        *)
(***************************************************************************)
EXTENDS PikePrice

CONSTANTS
  Calls,
  MaxCode,    \* spec.MAX_CODE, the longest program
  MaxOvec     \* spec.MAX_OVEC, the longest ovector

ASSUME PikeCallsAssumption ==
  \A c \in Calls : c \in CallTypes /\ WellFormed(c.re)
ASSUME PikeBoundsAssumption == MaxCode \in Nat /\ MaxOvec \in Nat

\* Compilation stops at either size, and the arrays are declared by them.
ASSUME PikeSizesAssumption ==
  \A c \in Calls : Len(c.re.code) <= MaxCode /\ Novec(c.re) <= MaxOvec

VARIABLES
  call, phase, result,
  pos,        \* the subject position
  heap,       \* the arrays a run owns, their capacities, and what is charged
  seen,       \* addresses already in the list being built
  into,       \* the list a closure builds: "clist" at pos, "nlist" at pos + 1
  next,       \* the thread of clist to step
  mh,         \* the block of the best match so far
  seeding,
  ov, use

vars == <<call, phase, result, pos, heap, seen, into, next, mh, seeding, ov, use>>

Re == call.re
Width == Novec(Re)
NoUse == [cost |-> 0, stack |-> 0, mem |-> 0]
Block == Width * REG_SIZE

-----------------------------------------------------------------------------
(* Growth.  Every helper takes a heap and returns one; a refused heap keeps *)
(* `ok` false from then on.                                                *)

LiveBlocks == 4 * MaxCode + 4
Portable(a) ==
  CASE a \in {"clist", "nlist"} -> GrowthCap(MaxCode)
    [] a = "stk"  -> GrowthCap(2 * MaxCode)
    [] a = "pool" -> GrowthCap(LiveBlocks * MaxOvec)
    [] OTHER -> GrowthCap(LiveBlocks)

\* charge_grow: before the push, and refused if a limit does not reach.
Room(h, a) ==
  LET cap == h.cap[a]
      newcap == GrownCap(cap, Portable(a))
      taken == newcap * EntrySize(a)
      held == cap * EntrySize(a)
      total == h.mem + taken
  IN  IF ~h.ok \/ Len(h[a]) < cap THEN h
      ELSE IF \/ Len(h[a]) >= Portable(a)
              \/ taken > call.memlimit - h.mem
              \/ taken + held > call.costlimit - h.cost
           THEN [h EXCEPT !.ok = FALSE]
           ELSE [h EXCEPT !.cap[a] = newcap, !.cost = @ + taken + held,
                          !.mem = total - held,
                          !.peak = IF total > @ THEN total ELSE @]

Push(h, a, entry) ==
  LET r == Room(h, a)
  IN  IF r.ok THEN [r EXCEPT ![a] = Append(@, entry)] ELSE r

\* Any other piece of work.
Pay(h, work) ==
  IF ~h.ok \/ work > call.costlimit - h.cost THEN [h EXCEPT !.ok = FALSE]
  ELSE [h EXCEPT !.cost = @ + work]

Park(h, list, p, b) == Push(h, list, [pc |-> p, h |-> b])
Defer(h, p, b) == Push(h, "stk", [pc |-> p, h |-> b])

-----------------------------------------------------------------------------
(* The copy-on-write pool.  A handle indexes rc; its block is Width slots. *)

Slot(b, k) == b * Width + k + 1

\* Room in the pool for one more block, slot by slot.
Widened(h) ==
  LET filled[k \in 0 .. Width] ==
        IF k = 0 THEN h ELSE Push(filled[k - 1], "pool", UNSET)
  IN  filled[Width]

\* pike_take: a heap, and the handle taken in it.
Take(h) ==
  IF h.free # <<>>
  THEN LET b == h.free[Len(h.free)]
       IN  [heap |-> [h EXCEPT !.free = SubSeq(@, 1, Len(@) - 1),
                               !.rc[b + 1] = 1],
            block |-> b]
  ELSE [heap |-> Widened(Push(h, "rc", 1)), block |-> Len(h.rc)]

\* pike_drop: the last holder puts the block on the free list.
Drop(h, b) ==
  IF b = NONE \/ ~h.ok THEN h
  ELSE LET less == [h EXCEPT !.rc[b + 1] = @ - 1]
       IN  IF less.rc[b + 1] = 0 THEN Push(less, "free", b) ELSE less

Share(h, b) == IF h.ok THEN [h EXCEPT !.rc[b + 1] = @ + 1] ELSE h

\* Mutation: a shared block is written like any other.
WriteInPlace(h, b, k, value) ==
  [heap |-> IF h.ok THEN [h EXCEPT !.pool[Slot(b, k)] = value] ELSE h,
   block |-> b]

\* pike_write: through a shared handle, on a copy of its own.
Write(h, b, k, value) ==
  IF h.ok /\ h.rc[b + 1] > 1
  THEN LET paid == Pay(h, Block)
           took == Take(paid)
           fresh == took.block
           pool == [s \in DOMAIN took.heap.pool |->
                      IF s \in Slot(fresh, 0) .. Slot(fresh, Width - 1)
                      THEN took.heap.pool[s - Slot(fresh, 0) + Slot(b, 0)]
                      ELSE took.heap.pool[s]]
       IN  IF ~paid.ok THEN [heap |-> paid, block |-> b]
           ELSE IF ~took.heap.ok THEN [heap |-> took.heap, block |-> b]
           ELSE [heap |-> [took.heap EXCEPT
                             !.pool = [pool EXCEPT ![Slot(fresh, k)] = value],
                             !.rc[b + 1] = @ - 1],
                 block |-> fresh]
  ELSE [heap |-> IF h.ok THEN [h EXCEPT !.pool[Slot(b, k)] = value] ELSE h,
        block |-> b]

-----------------------------------------------------------------------------
(* Entering and leaving a call.                                            *)

Setup(c) == Novec(c.re) * REG_SIZE + Words(c.re)

Stale(caps) ==
  [clist |-> <<>>, nlist |-> <<>>, stk |-> <<>>, pool |-> <<>>, rc |-> <<>>,
   free |-> <<>>, cap |-> caps, cost |-> 0, mem |-> 0, peak |-> 0, ok |-> TRUE]

NoCaps == [a \in Arrays |-> 0]

\* pike_run's prologue on scratch of these capacities.  The arrays start over
\* after the refusals of a program or a start that cannot run here.
Enter(c, caps) ==
  LET early == IF ~c.re.pike \/ c.start > Size(c) THEN "BAD_INPUT"
               ELSE IF Setup(c) > c.memlimit \/ Setup(c) > c.costlimit
                    THEN "RESOURCE_EXCEEDED" ELSE "NO_MATCH"
  IN  /\ call' = c
      /\ result' = early
      /\ use' = NoUse
      /\ pos' = c.start
      /\ into' = "clist" /\ next' = 0
      /\ mh' = NONE /\ seeding' = TRUE
      /\ IF early = "NO_MATCH"
         THEN /\ phase' = "seed" /\ seen' = {}
              /\ heap' = [Stale(caps) EXCEPT !.cost = Setup(c), !.mem = Setup(c),
                                             !.peak = Setup(c)]
              /\ ov' = [k \in 0 .. (Novec(c.re) - 1) |-> UNSET]
         ELSE /\ phase' = "done"
              /\ heap' = IF early = "BAD_INPUT" THEN heap ELSE Stale(caps)
              /\ seen' = IF early = "BAD_INPUT" THEN seen ELSE {}
              /\ UNCHANGED ov

\* pike_match: the same matcher with the scratch declared fresh.
PikeMatch(c) == phase = "idle" /\ Enter(c, NoCaps)

\* Go on with this heap, or stop here if a limit refused it.
Continue(h, where) ==
  /\ heap' = h
  /\ phase' = IF heap'.ok THEN where ELSE "stop"
  /\ result' = IF heap'.ok THEN result ELSE "RESOURCE_EXCEEDED"

Finish ==
  LET affords == Block <= call.costlimit - heap.cost
      spent == IF result = "MATCHED" /\ affords THEN heap.cost + Block
               ELSE heap.cost
  IN  /\ phase = "stop"
      /\ phase' = "done"
      /\ result' = IF result = "MATCHED" /\ ~affords THEN "RESOURCE_EXCEEDED"
                   ELSE result
      /\ ov' = IF result = "MATCHED" /\ affords
               THEN [k \in 0 .. (Width - 1) |-> heap.pool[Slot(mh, k)]] ELSE ov
      /\ use' = [cost |-> spent, stack |-> 0, mem |-> heap.peak]
      /\ UNCHANGED <<call, pos, heap, seen, into, next, mh, seeding>>

-----------------------------------------------------------------------------
(* One position: seed, clear the marks, step the list.                     *)

\* Mutation: seeding goes on after a match.
SeedsForever ==
  /\ ~Anchored(call) \/ pos = call.start
  /\ ~(pos > call.start /\ SplitsCrlf(call, pos))

Seeds ==
  /\ seeding
  /\ ~Anchored(call) \/ pos = call.start
  /\ ~(pos > call.start /\ SplitsCrlf(call, pos))

\* The lowest-priority thread of this position, with every capture unset.
Seeded(h) ==
  LET took == Take(h)
      b == took.block
      paid == Pay(took.heap, Block)
      blank == [k \in DOMAIN paid.pool |->
                  IF k = Slot(b, 0) THEN pos
                  ELSE IF k \in Slot(b, 1) .. Slot(b, Width - 1) THEN UNSET
                       ELSE paid.pool[k]]
  IN  IF paid.ok THEN Defer([paid EXCEPT !.pool = blank], 0, b) ELSE paid

Seed ==
  /\ phase = "seed"
  /\ \/ Seeds /\ Continue(Seeded(heap), "closure")
     \/ ~Seeds /\ Continue(heap, "clear")
  /\ into' = "clist"
  /\ UNCHANGED <<call, pos, seen, next, mh, seeding, ov, use>>

\* The marks belong to the list just built; clearing them is charged.
Clear ==
  /\ phase = "clear"
  /\ Continue(Pay(heap, Words(Re)), "step")
  /\ seen' = IF heap'.ok THEN {} ELSE seen
  /\ next' = 0
  /\ UNCHANGED <<call, pos, into, mh, seeding, ov, use>>

Thread == At(heap.clist, next)
Instr(p) == At(Re.code, p)

\* A thread on a consuming instruction survives into the next list or dies.
StepEater ==
  LET eats == Eats(call, Instr(Thread.pc), pos) = 1
  IN  /\ phase = "step" /\ next < Len(heap.clist)
      /\ Instr(Thread.pc).op # "OpAccept"
      /\ \/ /\ eats
            /\ Continue(Defer(Pay(heap, 1), Thread.pc + 1, Thread.h), "closure")
            /\ into' = "nlist"
            /\ UNCHANGED next
         \/ /\ ~eats
            /\ Continue(Drop(Pay(heap, 1), Thread.h), "step")
            /\ next' = next + 1
            /\ UNCHANGED into
      /\ UNCHANGED <<call, pos, seen, mh, seeding, ov, use>>

\* Mutation: the last thread keeps its block.
KilledButLast(h) ==
  LET left[k \in next .. Len(heap.clist)] ==
        IF k <= next + 1 THEN h ELSE Drop(left[k - 1], heap.clist[k - 1].h)
  IN  left[Len(heap.clist)]

\* Drop every thread of clist after the one that matched.
Killed(h) ==
  LET left[k \in (next + 1) .. Len(heap.clist)] ==
        IF k = next + 1 THEN h ELSE Drop(left[k - 1], heap.clist[k].h)
  IN  left[Len(heap.clist)]

\* Accept records the match, replaces the one recorded before, and kills
\* everything below this thread; the threads above it have already run.
StepAccept ==
  LET began == heap.pool[Slot(Thread.h, 0)]
      wrote == Write(Pay(heap, 1), Thread.h, 1, pos)
  IN  /\ phase = "step" /\ next < Len(heap.clist)
      /\ Instr(Thread.pc).op = "OpAccept"
      /\ \/ /\ RefusesEmpty(call, began, pos)
            /\ Continue(Drop(Pay(heap, 1), Thread.h), "step")
            /\ next' = next + 1
            /\ UNCHANGED <<mh, seeding>>
         \/ /\ ~RefusesEmpty(call, began, pos)
            /\ heap' = Killed(Drop(wrote.heap, mh))
            /\ next' = Len(heap.clist)
            /\ IF heap'.ok
               THEN /\ mh' = wrote.block
                    /\ seeding' = FALSE
                    /\ phase' = "step"
                    /\ result' = "MATCHED"
               ELSE /\ phase' = "stop"
                    /\ result' = "RESOURCE_EXCEEDED"
                    /\ UNCHANGED <<mh, seeding>>
      /\ UNCHANGED <<call, pos, seen, into, ov, use>>

\* Mutation: with nothing alive the scan does not move on.
AdvanceOnlyAlive ==
  LET swapped == [heap EXCEPT !.clist = heap.nlist, !.nlist = <<>>,
                              !.cap["clist"] = heap.cap["nlist"],
                              !.cap["nlist"] = heap.cap["clist"]]
      over == \/ pos >= Size(call)
              \/ (heap.nlist = <<>> /\ (~seeding \/ Anchored(call)))
  IN  /\ phase = "step" /\ next >= Len(heap.clist)
      /\ heap' = swapped
      /\ phase' = IF over THEN "stop" ELSE IF heap.nlist = <<>> THEN "step" ELSE "seed"
      /\ pos' = IF heap.nlist = <<>> THEN pos ELSE pos + 1
      /\ next' = 0
      /\ UNCHANGED <<call, result, seen, into, mh, seeding, ov, use>>

\* The stepped list is emptied, the two lists swap, and the scan ends at the
\* end of the subject or when nothing is alive and nothing will be seeded.
Advance ==
  LET swapped == [heap EXCEPT !.clist = heap.nlist, !.nlist = <<>>,
                              !.cap["clist"] = heap.cap["nlist"],
                              !.cap["nlist"] = heap.cap["clist"]]
      over == \/ pos >= Size(call)
              \/ (heap.nlist = <<>> /\ (~seeding \/ Anchored(call)))
  IN  /\ phase = "step" /\ next >= Len(heap.clist)
      /\ heap' = swapped
      /\ phase' = IF over THEN "stop" ELSE "seed"
      /\ pos' = pos + 1
      /\ next' = 0
      /\ UNCHANGED <<call, result, seen, into, mh, seeding, ov, use>>

-----------------------------------------------------------------------------
(* The closure: depth first, each address once per list, the first thread  *)
(* to reach it keeping its captures.                                       *)

Closing == heap.stk[Len(heap.stk)]
Popped == [heap EXCEPT !.stk = SubSeq(@, 1, Len(@) - 1)]
ClosingPos == IF into = "clist" THEN pos ELSE pos + 1

\* The closure visits a new address holding one of these instructions.
Visits(ops) ==
  /\ phase = "closure" /\ heap.stk # <<>>
  /\ Closing.pc \notin seen
  /\ Instr(Closing.pc).op \in ops

\* Charge the visit, and go on with what `then` makes of the heap.
Visited(h) ==
  /\ Continue(h, "closure")
  /\ seen' = seen \cup {Closing.pc}
  /\ UNCHANGED <<call, pos, into, next, mh, seeding, ov, use>>

Paid == Pay(Popped, 1)

Forked(h, first, second, b) == Defer(Defer(Share(h, b), second, b), first, b)

\* The loser of a race hands its block back.
CloseSeen ==
  /\ phase = "closure" /\ heap.stk # <<>>
  /\ Closing.pc \in seen
  /\ Continue(Drop(Popped, Closing.h), "closure")
  /\ UNCHANGED <<call, pos, seen, into, next, mh, seeding, ov, use>>

ClosePark ==
  /\ Visits((EaterOps \ {"OpBsr"}) \cup {"OpAccept"})
  /\ Visited(Park(Paid, into, Closing.pc, Closing.h))

CloseSplit ==
  LET inst == Instr(Closing.pc)
  IN  /\ Visits({"OpSplit"})
      /\ Visited(Forked(Paid, inst.arg, inst.alt, Closing.h))

CloseJump ==
  /\ Visits({"OpJump"})
  /\ Visited(Defer(Paid, Instr(Closing.pc).arg, Closing.h))

\* The write may move the thread onto a block of its own.
Saved(h, b, slot) ==
  LET wrote == Write(h, b, slot, ClosingPos)
  IN  Defer(wrote.heap, Closing.pc + 1, wrote.block)

CloseSave ==
  /\ Visits({"OpSave"})
  /\ Visited(Saved(Paid, Closing.h, Instr(Closing.pc).arg))

CloseAssert ==
  /\ Visits(AssertOps)
  /\ Visited(IF Holds(call, Instr(Closing.pc).op, ClosingPos)
             THEN Defer(Paid, Closing.pc + 1, Closing.h)
             ELSE Drop(Paid, Closing.h))

CloseRepEpsilon ==
  /\ Visits({"OpRepZero", "OpRepEnter"})
  /\ Visited(Defer(Paid, Closing.pc + 1, Closing.h))

\* One more iteration first or the exit first, by greediness.
CloseRepFork ==
  LET rep == At(Re.reps, Instr(Closing.pc).arg)
      first == IF rep.greedy THEN rep.body ELSE rep.after
      second == IF rep.greedy THEN rep.after ELSE rep.body
  IN  /\ Visits({"OpRepLoop", "OpRepNext"})
      /\ Visited(Forked(Paid, first, second, Closing.h))

CloseDone ==
  /\ phase = "closure" /\ heap.stk = <<>>
  /\ phase' = IF into = "clist" THEN "clear" ELSE "step"
  /\ next' = IF into = "clist" THEN next ELSE next + 1
  /\ UNCHANGED <<call, result, pos, heap, seen, into, mh, seeding, ov, use>>

Closure ==
  \/ CloseSeen \/ ClosePark \/ CloseSplit \/ CloseJump \/ CloseSave
  \/ CloseAssert \/ CloseRepEpsilon \/ CloseRepFork \/ CloseDone

-----------------------------------------------------------------------------
Init ==
  /\ call \in Calls
  /\ phase = "idle"
  /\ result = "NO_MATCH"
  /\ pos = 0 /\ heap = Stale(NoCaps) /\ seen = {} /\ into = "clist"
  /\ next = 0 /\ mh = NONE /\ seeding = TRUE
  /\ ov = <<>> /\ use = NoUse

Run == Seed \/ Clear \/ StepEater \/ StepAccept \/ Advance \/ Closure \/ Finish

\* The caller has its answer.
Returned == phase = "done" /\ UNCHANGED vars

Next == PikeMatch(call) \/ Run \/ Returned

Spec == Init /\ [][Next]_vars

\* The engine is one sequential function: until it returns, it takes a step.
\* This is weak fairness of Next with its ENABLED written out.
FairSpec == Spec /\ ([]<>(phase = "done") \/ []<><<Next>>_vars)

-----------------------------------------------------------------------------
(* Properties.                                                             *)

Live == {"seed", "closure", "clear", "step", "stop"}
Running == phase \in Live /\ heap.ok

Threads(re) == [pc : 0 .. (Len(re.code) - 1), h : Nat]

\* The types of the matcher's state.
TypeOK ==
  /\ call \in CallTypes
  /\ phase \in Live \cup {"idle", "done"}
  /\ result \in Statuses
  /\ pos \in 0 .. (Size(call) + 2)
  /\ heap.cap \in [Arrays -> Nat]
  /\ heap.clist \in Seq(Threads(Re)) /\ heap.nlist \in Seq(Threads(Re))
  /\ heap.stk \in Seq(Threads(Re))
  /\ heap.pool \in Seq(Nat \cup {UNSET})
  /\ heap.rc \in Seq(Nat) /\ heap.free \in Seq(Nat)
  /\ heap.cost \in Nat /\ heap.mem \in Nat /\ heap.peak \in Nat
  /\ heap.ok \in BOOLEAN
  /\ seen \subseteq 0 .. (Len(Re.code) - 1)
  /\ into \in {"clist", "nlist"} /\ next \in Nat
  /\ mh \in Nat \cup {NONE} /\ seeding \in BOOLEAN

\* The first thread of clist that still holds its block.
Unstepped == IF phase = "closure" /\ into = "nlist" THEN next + 2 ELSE next + 1

\* Every place a block is held from.
HeldFrom(b) ==
  {<<"clist", k>> : k \in {j \in Unstepped .. Len(heap.clist) : heap.clist[j].h = b}}
  \cup {<<"nlist", k>> : k \in {j \in DOMAIN heap.nlist : heap.nlist[j].h = b}}
  \cup {<<"stk", k>> : k \in {j \in DOMAIN heap.stk : heap.stk[j].h = b}}
  \cup (IF mh = b THEN {<<"mh", 0>>} ELSE {})

\* A block's count is the number of threads, deferred threads and recorded
\* matches that hold it: none is leaked, none is freed under a holder.
RefcountsExact ==
  Running => \A b \in 0 .. (Len(heap.rc) - 1) : heap.rc[b + 1] = Cardinality(HeldFrom(b))

\* The free list holds each block nobody holds, once.
FreeListExact ==
  Running =>
    /\ \A b \in 0 .. (Len(heap.rc) - 1) :
         heap.rc[b + 1] = 0 <=> \E k \in DOMAIN heap.free : heap.free[k] = b
    /\ \A j, k \in DOMAIN heap.free : heap.free[j] = heap.free[k] => j = k

\* No limit of the caller is exceeded, and the memory charged is exactly what
\* the arrays' capacities weigh on top of the setup.
LedgerExact ==
  LET weight(a) == heap.cap[a] * EntrySize(a)
  IN  phase \in Live =>
        /\ heap.cost <= call.costlimit
        /\ heap.mem <= heap.peak /\ heap.peak <= call.memlimit
        /\ heap.mem = Setup(call) + weight("clist") + weight("nlist")
                        + weight("stk") + weight("pool") + weight("rc")
                        + weight("free")

\* The capacities pike_room reserves from counts of the program are enough for
\* any subject, so a context's arrays never grow in a run.
RoomSuffices ==
  phase \in Live => \A a \in Arrays : heap.cap[a] <= PikeRoom(Re)[a]

\* The blocks of every thread but the one at work: of those waiting in a list
\* (a step is at work on the first it has not stepped, a closure on the last
\* deferred), of those deferred under it, and of the recorded match.
Waiting ==
  LET first == IF phase = "step" THEN Unstepped + 1 ELSE Unstepped
  IN  {heap.clist[k].h : k \in first .. Len(heap.clist)}
        \cup {heap.nlist[k].h : k \in DOMAIN heap.nlist}
        \cup {heap.stk[k].h : k \in 1 .. (Len(heap.stk) - 1)}
        \cup (IF mh = NONE THEN {} ELSE {mh})

\* No such thread sees its captures change under it: only a block nobody else
\* holds is written, whatever the thread at work shared it with.
WaitingIsolated ==
  Running /\ heap'.ok =>
    \A b \in Waiting : \A k \in 0 .. (Width - 1) :
      heap'.pool[Slot(b, k)] = heap.pool[Slot(b, k)]
CopyOnWrite == [][phase # "idle" => WaitingIsolated]_vars

\* The flag compilation stored decides, and a stored flag is never wrong: a
\* run refuses exactly the programs whose repetitions are not all pure stars
\* over bodies that eat, or that hold \R, and the starts past the end.
RefusalExact ==
  phase = "done" =>
    (result = "BAD_INPUT" <=> ~Eligible(Re) \/ call.start > Size(call))

\* The pool's books: every count is the number of holders, and every block
\* nobody holds is free, once.
PoolExact == RefcountsExact /\ FreeListExact

\* The certificate's closed form bounds what any run really spends; within it
\* the arrays stay inside their reserved room and the charges exact.
WithinPikePrice ==
  /\ RoomSuffices
  /\ LedgerExact
  /\ phase = "done" /\ result # "BAD_INPUT" =>
       /\ use.cost <= PolyAt(PikeCert(Re).cost, Size(call))
       /\ use.mem <= PolyAt(PikeCert(Re).mem, Size(call))

\* Every call comes back.
Termination == <>(phase = "done")
=============================================================================
