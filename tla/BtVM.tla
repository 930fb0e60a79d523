-------------------------------- MODULE BtVM --------------------------------
(***************************************************************************)
(* The backtracking matcher, engine/vm.py.  One call explores the program  *)
(* depth first over an explicit stack of choice points (pc, position, undo *)
(* mark); captures and repetition counters live in one register file, and  *)
(* a write to it while there is something to backtrack to records an undo  *)
(* entry.  Every visit, reset, replay, delivery and array growth is        *)
(* charged against the caller's limits before it happens.                  *)
(*                                                                         *)
(* The code is one sequential function; `phase` names the place it is at:  *)
(*                                                                         *)
(*   idle -> attempt -> run -> (fail -> (undo -> run | next -> attempt))   *)
(*                          -> stop -> done                                *)
(***************************************************************************)
EXTENDS Program

CONSTANTS
  Calls,      \* the calls that may be made
  MaxStack,   \* spec.MAX_STACK, the portable bound of the backtrack stack
  MaxTrail    \* spec.MAX_TRAIL, the portable bound of the undo trail

ASSUME CallsAssumption ==
  \A c \in Calls : c \in CallTypes /\ WellFormed(c.re)
ASSUME BoundsAssumption == MaxStack \in Nat /\ MaxTrail \in Nat

VARIABLES
  call,       \* the arguments of the call in progress
  phase,      \* where bt_run is
  result,     \* the status it will return
  pc, pos, attempt,
  regs,       \* the register file
  bt, btcap,  \* the backtrack stack and the capacity its array has
  trail, trailcap,
  mark,       \* the undo mark of the choice point being returned to
  cost, mem, peak, stackpeak,
  ov, use     \* the caller's ovector and usage record

scratch == <<regs, bt, btcap, trail, trailcap>>
cursor == <<pc, pos, attempt, mark>>
space == <<mem, peak, stackpeak>>
answer == <<ov, use>>
vars == <<call, phase, result, cursor, scratch, cost, space, answer>>

Re == call.re
NoUse == [cost |-> 0, stack |-> 0, mem |-> 0]
\* Mutation: a register file addressed from one.
BlankFromOne(k) == [i \in 1 .. k |-> UNSET]

Blank(k) == [i \in 0 .. (k - 1) |-> UNSET]

-----------------------------------------------------------------------------
(* Charging.                                                               *)

\* May an array of capacity cap holding len entries take one more, the run
\* having spent so much?  Both buffers count while the elements are copied,
\* and every byte zeroed or copied is work.
MayPush(cap, len, esize, maxv, spent) ==
  \/ len < cap
  \/ /\ len < maxv
     /\ GrownCap(cap, maxv) * esize <= call.memlimit - mem
     /\ (GrownCap(cap, maxv) + cap) * esize <= call.costlimit - spent

\* What that push leaves charged.
Charge(cap, len, esize, maxv, spent) ==
  IF len < cap
  THEN /\ cost' = spent
       /\ UNCHANGED <<mem, peak>>
  ELSE LET taken == GrownCap(cap, maxv) * esize
           held == cap * esize
       IN  /\ cost' = spent + taken + held
           /\ peak' = IF mem + taken > peak THEN mem + taken ELSE peak
           /\ mem' = mem + taken - held

\* Mutation: grow on every push.
CapAlwaysGrown(cap, len, maxv) == GrownCap(cap, maxv)

\* Mutation: the new capacity is not noted.
CapNotNoted(cap, len, maxv) == cap

CapAfter(cap, len, maxv) == IF len < cap THEN cap ELSE GrownCap(cap, maxv)

\* A limit refuses to go on.
Refuse(spent) ==
  /\ phase' = "stop"
  /\ result' = "RESOURCE_EXCEEDED"
  /\ cost' = spent
  /\ UNCHANGED <<call, cursor, scratch, space, answer>>

-----------------------------------------------------------------------------
(* Entering a call.                                                        *)

\* The register file and the ovector, sized once; their zeroing is charged.
Setup(c) == (c.re.nregs + Novec(c.re)) * REG_SIZE

\* bt_run's prologue, on scratch whose arrays have these capacities already;
\* what an earlier call left in them goes once nothing refuses this one.
Enter(c, bcap, tcap) ==
  LET setup == Setup(c)
      early == IF c.start > Size(c) THEN "BAD_INPUT"
               ELSE IF setup > c.memlimit \/ setup > c.costlimit
                    THEN "RESOURCE_EXCEEDED" ELSE "NO_MATCH"
  IN  /\ call' = c
      /\ result' = early
      /\ use' = NoUse
      /\ stackpeak' = 0
      /\ pc' = 0 /\ pos' = c.start /\ attempt' = c.start /\ mark' = 0
      /\ btcap' = bcap /\ trailcap' = tcap
      /\ IF early = "NO_MATCH"
         THEN /\ phase' = "attempt"
              /\ bt' = <<>> /\ trail' = <<>>
              /\ regs' = Blank(c.re.nregs)
              /\ ov' = Blank(Novec(c.re))
              /\ cost' = setup /\ mem' = setup /\ peak' = setup
         ELSE /\ phase' = "done"
              /\ cost' = 0 /\ mem' = 0 /\ peak' = 0
              /\ UNCHANGED <<bt, trail, regs, ov>>

\* bt_match: the same matcher with the scratch declared fresh.
BtMatch(c) == phase = "idle" /\ Enter(c, 0, 0)

\* One attempt at one start offset; putting the registers back is charged.
BeginAttempt ==
  LET reset == Re.nregs * REG_SIZE
  IN  /\ phase = "attempt"
      /\ \/ /\ reset > call.costlimit - cost
            /\ Refuse(cost)
         \/ /\ reset <= call.costlimit - cost
            /\ phase' = "run"
            /\ cost' = cost + reset
            /\ regs' = Blank(Re.nregs)
            /\ bt' = <<>> /\ trail' = <<>>
            /\ pc' = 0 /\ pos' = attempt
            /\ UNCHANGED <<call, result, attempt, mark, btcap, trailcap,
                           space, answer>>

-----------------------------------------------------------------------------
(* Visiting an instruction: one unit each, refused at the limit.           *)

Inst == At(Re.code, pc)
Rep == At(Re.reps, Inst.arg)

Visits(ops) ==
  /\ phase = "run"
  /\ cost < call.costlimit
  /\ Inst.op \in ops

OutOfCost ==
  /\ phase = "run"
  /\ cost >= call.costlimit
  /\ Refuse(cost)

\* Nothing but the cursor moves.
Goto(target, at) ==
  /\ pc' = target /\ pos' = at
  /\ cost' = cost + 1
  /\ UNCHANGED <<call, phase, result, attempt, mark, scratch, space, answer>>

Fails ==
  /\ phase' = "fail"
  /\ cost' = cost + 1
  /\ UNCHANGED <<call, result, cursor, scratch, space, answer>>

Eat ==
  /\ Visits(EaterOps)
  /\ \/ Eats(call, Inst, pos) > 0 /\ Goto(pc + 1, pos + Eats(call, Inst, pos))
     \/ Eats(call, Inst, pos) = 0 /\ Fails

Assertion ==
  /\ Visits(AssertOps)
  /\ \/ Holds(call, Inst.op, pos) /\ Goto(pc + 1, pos)
     \/ ~Holds(call, Inst.op, pos) /\ Fails

Jump == Visits({"OpJump"}) /\ Goto(Inst.arg, pos)

\* write_reg, and then on to target.  With no choice point to return to, no
\* undo entry could ever be replayed, and none is recorded.
WriteReg(slot, value, target) ==
  \/ /\ bt = <<>>
     /\ regs' = [regs EXCEPT ![slot] = value]
     /\ cost' = cost + 1
     /\ pc' = target
     /\ UNCHANGED <<call, phase, result, pos, attempt, mark, bt, btcap,
                    trail, trailcap, space, answer>>
  \/ /\ bt # <<>>
     /\ MayPush(trailcap, Len(trail), UNDO_SIZE, MaxTrail, cost + 1)
     /\ Charge(trailcap, Len(trail), UNDO_SIZE, MaxTrail, cost + 1)
     /\ trail' = Append(trail, [slot |-> slot, old |-> regs[slot]])
     /\ trailcap' = CapAfter(trailcap, Len(trail), MaxTrail)
     /\ regs' = [regs EXCEPT ![slot] = value]
     /\ pc' = target
     /\ UNCHANGED <<call, phase, result, pos, attempt, mark, bt, btcap,
                    stackpeak, answer>>
  \/ /\ bt # <<>>
     /\ ~MayPush(trailcap, Len(trail), UNDO_SIZE, MaxTrail, cost + 1)
     /\ Refuse(cost + 1)

Save == Visits({"OpSave"}) /\ WriteReg(Inst.arg, pos, pc + 1)

RepZero ==
  Visits({"OpRepZero"}) /\ WriteReg(CountSlot(Re, Inst.arg), 0, pc + 1)

RepEnter ==
  Visits({"OpRepEnter"}) /\ WriteReg(EntrySlot(Re, Inst.arg), pos, pc + 1)

\* push_bt leaves the second choice on the stack; control takes the first.
Fork(first, second) ==
  \/ /\ Len(bt) < call.stacklimit
     /\ MayPush(btcap, Len(bt), BT_SIZE, MaxStack, cost + 1)
     /\ Charge(btcap, Len(bt), BT_SIZE, MaxStack, cost + 1)
     /\ bt' = Append(bt, [pc |-> second, pos |-> pos, mark |-> Len(trail)])
     /\ btcap' = CapAfter(btcap, Len(bt), MaxStack)
     /\ stackpeak' = IF Len(bt) + 1 > stackpeak THEN Len(bt) + 1 ELSE stackpeak
     /\ pc' = first
     /\ UNCHANGED <<call, phase, result, pos, attempt, mark, regs, trail,
                    trailcap, answer>>
  \/ /\ \/ Len(bt) >= call.stacklimit
        \/ ~MayPush(btcap, Len(bt), BT_SIZE, MaxStack, cost + 1)
     /\ Refuse(cost + 1)

\* Mutation: the alternative is preferred.
SplitLastFirst == Visits({"OpSplit"}) /\ Fork(Inst.alt, Inst.arg)

Split == Visits({"OpSplit"}) /\ Fork(Inst.arg, Inst.alt)

RepLoop ==
  LET count == regs[CountSlot(Re, Inst.arg)]
  IN  /\ Visits({"OpRepLoop"})
      /\ \/ count < Rep.lo /\ Goto(Rep.body, pos)
         \/ count >= Rep.lo /\ Rep.hi # NONE /\ count >= Rep.hi
              /\ Goto(Rep.after, pos)
         \/ count >= Rep.lo /\ (Rep.hi = NONE \/ count < Rep.hi)
              /\ IF Rep.greedy THEN Fork(Rep.body, Rep.after)
                               ELSE Fork(Rep.after, Rep.body)

\* An iteration that consumed nothing does not go round again once the
\* minimum is behind it, unless the repetition is bounded.
RepNext ==
  LET count == regs[CountSlot(Re, Inst.arg)] + 1
      entered == regs[EntrySlot(Re, Inst.arg)]
      spins == Rep.hi = NONE /\ pos = entered /\ count >= Rep.lo
  IN  /\ Visits({"OpRepNext"})
      /\ WriteReg(CountSlot(Re, Inst.arg), count,
                  IF spins THEN Rep.after ELSE Rep.head)

Accept ==
  /\ Visits({"OpAccept"})
  /\ \/ RefusesEmpty(call, attempt, pos) /\ Fails
     \/ /\ ~RefusesEmpty(call, attempt, pos)
        /\ regs' = [regs EXCEPT ![0] = attempt, ![1] = pos]
        /\ phase' = "stop"
        /\ result' = "MATCHED"
        /\ cost' = cost + 1
        /\ UNCHANGED <<call, cursor, bt, btcap, trail, trailcap, space, answer>>

-----------------------------------------------------------------------------
(* Returning to the latest choice point.                                   *)

\* With none left the attempt is over.
Exhaust ==
  /\ phase = "fail"
  /\ bt = <<>>
  /\ phase' = "next"
  /\ trail' = <<>>
  /\ UNCHANGED <<call, result, cursor, regs, bt, btcap, trailcap, cost,
                 space, answer>>

\* The replay is priced and refused before any of it happens.
Backtrack ==
  LET entry == bt[Len(bt)]
      replay == (Len(trail) - entry.mark) * REG_SIZE
      popped == SubSeq(bt, 1, Len(bt) - 1)
  IN  /\ phase = "fail"
      /\ bt # <<>>
      /\ bt' = popped
      /\ pc' = entry.pc /\ pos' = entry.pos
      /\ \/ /\ replay > call.costlimit - cost
            /\ phase' = "stop"
            /\ result' = "RESOURCE_EXCEEDED"
            /\ UNCHANGED <<cost, mark>>
         \/ /\ replay <= call.costlimit - cost
            /\ phase' = "undo"
            /\ mark' = entry.mark
            /\ cost' = cost + replay
            /\ UNCHANGED result
      /\ UNCHANGED <<call, attempt, regs, btcap, trail, trailcap, space, answer>>

\* Mutation: an undo entry is dropped without being replayed.
UndoForgets ==
  /\ phase = "undo"
  /\ Len(trail) > mark
  /\ trail' = SubSeq(trail, 1, Len(trail) - 1)
  /\ UNCHANGED <<call, phase, result, cursor, regs, bt, btcap, trailcap, cost,
                 space, answer>>

\* Mutation: an undo entry is replayed and not dropped.
UndoKeeps ==
  /\ phase = "undo"
  /\ Len(trail) > mark
  /\ regs' = [regs EXCEPT ![trail[Len(trail)].slot] = trail[Len(trail)].old]
  /\ UNCHANGED <<call, phase, result, cursor, trail, bt, btcap, trailcap, cost,
                 space, answer>>

\* Undo entries are replayed newest first, down to the mark.
Undo ==
  LET undo == trail[Len(trail)]
  IN  /\ phase = "undo"
      /\ Len(trail) > mark
      /\ regs' = [regs EXCEPT ![undo.slot] = undo.old]
      /\ trail' = SubSeq(trail, 1, Len(trail) - 1)
      /\ UNCHANGED <<call, phase, result, cursor, bt, btcap, trailcap, cost,
                     space, answer>>

Resume ==
  /\ phase = "undo"
  /\ Len(trail) <= mark
  /\ trail' = IF bt = <<>> THEN <<>> ELSE trail
  /\ phase' = "run"
  /\ UNCHANGED <<call, result, cursor, regs, bt, btcap, trailcap, cost,
                 space, answer>>

-----------------------------------------------------------------------------
(* Moving the start offset along, and handing the answer back.             *)

\* Mutation: one byte at a time, through a CRLF as well.
BumpOne(at) == at + 1

\* The start offset after this one.
Bump(at) == IF SplitsCrlf(call, at + 1) THEN at + 2 ELSE at + 1

NextAttempt ==
  /\ phase = "next"
  /\ \/ /\ Anchored(call) \/ attempt >= Size(call)
        /\ phase' = "stop"
        /\ UNCHANGED attempt
     \/ /\ ~Anchored(call) /\ attempt < Size(call)
        /\ phase' = "attempt"
        /\ attempt' = Bump(attempt)
  /\ UNCHANGED <<call, result, pc, pos, mark, scratch, cost, space, answer>>

\* Delivering the registers is work too: a call whose budget does not reach
\* its own result has gone over it like any other.
Finish ==
  LET deliver == Novec(Re) * REG_SIZE
      affords == deliver <= call.costlimit - cost
      spent == IF result = "MATCHED" /\ affords THEN cost + deliver ELSE cost
  IN  /\ phase = "stop"
      /\ phase' = "done"
      /\ cost' = spent
      /\ result' = IF result = "MATCHED" /\ ~affords THEN "RESOURCE_EXCEEDED"
                   ELSE result
      /\ ov' = IF result = "MATCHED" /\ affords
               THEN [i \in 0 .. (Novec(Re) - 1) |-> regs[i]] ELSE ov
      /\ use' = [cost |-> spent, stack |-> stackpeak, mem |-> peak]
      /\ UNCHANGED <<call, cursor, scratch, space>>

-----------------------------------------------------------------------------
Init ==
  /\ call \in Calls
  /\ phase = "idle"
  /\ result = "NO_MATCH"
  /\ pc = 0 /\ pos = 0 /\ attempt = 0 /\ mark = 0
  /\ regs = <<>> /\ bt = <<>> /\ btcap = 0 /\ trail = <<>> /\ trailcap = 0
  /\ cost = 0 /\ mem = 0 /\ peak = 0 /\ stackpeak = 0
  /\ ov = <<>> /\ use = NoUse

Execute ==
  \/ Eat \/ Assertion \/ Jump \/ Save \/ RepZero \/ RepEnter \/ Split
  \/ RepLoop \/ RepNext \/ Accept \/ OutOfCost

Run ==
  \/ BeginAttempt \/ Execute \/ Exhaust \/ Backtrack \/ Undo \/ Resume
  \/ NextAttempt \/ Finish

\* The caller has its answer.
Returned == phase = "done" /\ UNCHANGED vars

Next == BtMatch(call) \/ Run \/ Returned

Spec == Init /\ [][Next]_vars

\* The engine is one sequential function: while it has a step it takes it.
FairSpec == Spec /\ WF_vars(Next)

-----------------------------------------------------------------------------
(* Properties.                                                             *)

Live == {"attempt", "run", "fail", "undo", "next", "stop"}
Phases == Live \cup {"idle", "done"}

\* The types of the matcher's state.
TypeOK ==
  /\ call \in CallTypes
  /\ phase \in Phases
  /\ result \in Statuses
  /\ pc \in Nat /\ pos \in Nat /\ attempt \in Nat /\ mark \in Nat
  /\ phase \in Live => regs \in [Slots(Re) -> Nat \cup {UNSET}]
  /\ bt \in Seq([pc : Nat, pos : Nat, mark : Nat])
  /\ trail \in Seq([slot : Nat, old : Nat \cup {UNSET}])
  /\ btcap \in Nat /\ trailcap \in Nat
  /\ cost \in Nat /\ mem \in Nat /\ peak \in Nat /\ stackpeak \in Nat
  /\ use \in [cost : Nat, stack : Nat, mem : Nat]

\* The cursor never leaves the program or the subject: every instruction read
\* (code.at(pc)) and every byte read (subj.at(pos)) is inside its array, for
\* the current configuration and for every choice point saved for later.
CursorInside ==
  phase \in Live =>
       /\ pc < Len(Re.code) /\ pos <= Size(call)
       /\ call.start <= attempt /\ attempt <= Size(call)
       /\ \A i \in 1 .. Len(bt) : bt[i].pc < Len(Re.code) /\ bt[i].pos <= Size(call)

\* No limit of the caller is ever exceeded, not even between a charge and the
\* check after it, and the usage handed back is inside the limits too.
WithinLimits ==
  /\ phase \in Live =>
       /\ cost <= call.costlimit
       /\ mem <= peak /\ peak <= call.memlimit
       /\ Len(bt) <= stackpeak /\ stackpeak <= call.stacklimit
  /\ phase # "idle" =>
       /\ use.cost <= call.costlimit
       /\ use.stack <= call.stacklimit
       /\ use.mem <= call.memlimit

\* The memory charged is exactly what the arrays hold, whatever order the two
\* of them grew in, and no array outgrows its capacity or its portable bound.
LedgerExact ==
  phase \in Live =>
    /\ mem = Setup(call) + btcap * BT_SIZE + trailcap * UNDO_SIZE
    /\ Len(bt) <= btcap /\ btcap <= MaxStack
    /\ Len(trail) <= trailcap /\ trailcap <= MaxTrail

\* The undo marks of the choice points never fall along the stack and never
\* point past the trail, so a replay always goes back a non-negative number
\* of entries; and with no choice point left there is nothing to replay.
TrailDiscipline ==
  /\ phase \in {"run", "fail", "undo"} =>
       /\ \A i \in 1 .. Len(bt) : bt[i].mark <= Len(trail)
       /\ \A i, j \in 1 .. Len(bt) : i <= j => bt[i].mark <= bt[j].mark
  /\ phase = "undo" =>
       /\ mark <= Len(trail)
       /\ \A i \in 1 .. Len(bt) : bt[i].mark <= mark
  /\ phase \in {"run", "fail"} /\ bt = <<>> => trail = <<>>

\* Nothing of one attempt is left to go back to in the next, and an attempt
\* never looks left of where it began.
AttemptsApart ==
  /\ phase \in {"attempt", "next"} => bt = <<>> /\ trail = <<>>
  /\ phase \in {"run", "fail", "undo"} => attempt <= pos
  /\ phase \in Live => \A i \in 1 .. Len(bt) : attempt <= bt[i].pos

\* No attempt but the one the caller asked for starts inside a CRLF that the
\* bumpalong rule closes.
NoSplitCrlf ==
  phase \in Live /\ attempt # call.start => ~SplitsCrlf(call, attempt)

\* The caller's limits are never passed and the accounts are exact, at every
\* step of every call.
Accounts == WithinLimits /\ LedgerExact

\* Attempts: nothing of one is left in the next, none looks left of its start or
\* outside the program and the subject, none begins inside a closed CRLF, and
\* what a choice point must undo is always on the trail.
AttemptsSound == AttemptsApart /\ NoSplitCrlf /\ CursorInside /\ TrailDiscipline

\* Every call comes back.
Termination == <>(phase = "done")
=============================================================================
