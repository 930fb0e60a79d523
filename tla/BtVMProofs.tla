----------------------------- MODULE BtVMProofs -----------------------------
(***************************************************************************)
(* The backtracking matcher, for every set of calls of well-formed         *)
(* programs and every pair of portable bounds: its safety, and that it     *)
(* implements the abstract backtracker, the undo trail giving each choice  *)
(* point back the registers it was taken with.                             *)
(***************************************************************************)
EXTENDS BtRefinement, ProgramProofs

-----------------------------------------------------------------------------
(* The inductive invariant.  The limits need the ledger, since what a      *)
(* growth gives back must have been charged before; the ledger needs the   *)
(* types; the types need control to stay inside a well-formed program; and *)
(* replays need the undo marks in order.                                   *)

IInv ==
  /\ call \in Calls
  /\ TypeOK
  /\ CursorInside
  /\ WithinLimits
  /\ LedgerExact
  /\ TrailDiscipline
  /\ AttemptsApart
  /\ NoSplitCrlf

\* What the type of a call says of its parts.
LEMMA CallTyped ==
  ASSUME call \in Calls
  PROVE  /\ call \in CallTypes /\ WellFormed(Re) /\ Re \in Res
         /\ Size(call) \in Nat /\ call.start \in Nat
         /\ call.costlimit \in Nat /\ call.stacklimit \in Nat
         /\ call.memlimit \in Nat
         /\ Re.nregs \in Nat /\ Novec(Re) \in Nat /\ Setup(call) \in Nat
         /\ Len(Re.code) \in Nat \ {0}
<1>1. call \in CallTypes /\ WellFormed(Re)
  BY CallsAssumption DEF Re
<1>2. Re \in Res /\ Len(Re.code) > 0
  BY <1>1 DEF WellFormed
<1>3. Re.code \in Seq(Insts) /\ Re.nregs \in Nat /\ Re.ncap \in Nat
  BY <1>2 DEF Res
<1>4. Len(Re.code) \in Nat
  BY <1>3
<1>5. Novec(Re) \in Nat /\ Setup(call) \in Nat
  <2>1. Novec(Re) \in Nat
    BY <1>3 DEF Novec
  <2>2. (Re.nregs + Novec(Re)) * 4 \in Nat
    BY <1>3, <2>1
  <2>3. QED BY <2>1, <2>2, Zenon DEF Setup, REG_SIZE, Re
<1>6. /\ call.start \in Nat /\ call.costlimit \in Nat
      /\ call.stacklimit \in Nat /\ call.memlimit \in Nat
      /\ call.subj \in Seq(Bytes)
  BY <1>1 DEF CallTypes
<1>7. Size(call) \in Nat
  BY <1>6 DEF Size
<1>8. QED BY <1>1, <1>2, <1>3, <1>4, <1>5, <1>6, <1>7

\* What the invariant says of the numbers a step computes with.
LEMMA Measures ==
  ASSUME IInv
  PROVE  /\ cost \in Nat /\ mem \in Nat /\ peak \in Nat /\ stackpeak \in Nat
         /\ btcap \in Nat /\ trailcap \in Nat
         /\ Len(bt) \in Nat /\ Len(trail) \in Nat
         /\ MaxStack \in Nat /\ MaxTrail \in Nat
         /\ \A i \in 1 .. Len(bt) : bt[i].pc \in Nat /\ bt[i].pos \in Nat
                                  /\ bt[i].mark \in Nat
<1>1. /\ cost \in Nat /\ mem \in Nat /\ peak \in Nat /\ stackpeak \in Nat
      /\ btcap \in Nat /\ trailcap \in Nat
      /\ bt \in Seq([pc : Nat, pos : Nat, mark : Nat])
      /\ trail \in Seq([slot : Nat, old : Nat \cup {UNSET}])
  BY DEF IInv, TypeOK
<1>2. \A i \in 1 .. Len(bt) : bt[i] \in [pc : Nat, pos : Nat, mark : Nat]
  BY <1>1, ElementOfSeq
<1>3. Len(bt) \in Nat /\ Len(trail) \in Nat
  BY <1>1, LenProperties
<1>4. QED BY <1>1, <1>2, <1>3, BoundsAssumption

\* What it says of them in the course of a run.
LEMMA Ledger ==
  ASSUME IInv, phase \in Live
  PROVE  /\ cost <= call.costlimit
         /\ mem <= peak /\ peak <= call.memlimit
         /\ Len(bt) <= stackpeak /\ stackpeak <= call.stacklimit
         /\ mem = Setup(call) + btcap * BT_SIZE + trailcap * UNDO_SIZE
         /\ Len(bt) <= btcap /\ btcap <= MaxStack
         /\ Len(trail) <= trailcap /\ trailcap <= MaxTrail
         /\ btcap * BT_SIZE <= mem /\ trailcap * UNDO_SIZE <= mem
<1>1. /\ cost <= call.costlimit
      /\ mem <= peak /\ peak <= call.memlimit
      /\ Len(bt) <= stackpeak /\ stackpeak <= call.stacklimit
  BY DEF IInv, WithinLimits
<1>2. /\ mem = Setup(call) + btcap * BT_SIZE + trailcap * UNDO_SIZE
      /\ Len(bt) <= btcap /\ btcap <= MaxStack
      /\ Len(trail) <= trailcap /\ trailcap <= MaxTrail
  BY DEF IInv, LedgerExact
<1>3. Setup(call) \in Nat /\ btcap \in Nat /\ trailcap \in Nat
  BY CallTyped, Measures DEF IInv
<1>4. btcap * BT_SIZE <= mem /\ trailcap * UNDO_SIZE <= mem
  BY <1>2, <1>3 DEF BT_SIZE, UNDO_SIZE
<1>5. QED BY <1>1, <1>2, <1>4

\* Moving the cursor inside the program and the subject is safe.
LEMMA GotoSafe ==
  ASSUME IInv, phase = "run", cost < call.costlimit,
         NEW target \in Nat, target < Len(Re.code),
         NEW at \in Nat, pos <= at, at <= Size(call),
         Goto(target, at)
  PROVE  IInv'
<1> USE CallTyped DEF IInv, Live
<1>1. /\ pc' = target /\ pos' = at /\ cost' = cost + 1
      /\ UNCHANGED <<call, phase, result, attempt, mark, regs, bt, btcap,
                     trail, trailcap, mem, peak, stackpeak, ov, use>>
  BY DEF Goto, scratch, space, answer
<1> USE <1>1
<1>2. call' \in Calls /\ Re' = Re /\ Setup(call)' = Setup(call)
  BY DEF Re, Setup
<1>3. TypeOK'
  BY <1>2 DEF TypeOK, Phases
<1>4. CursorInside'
  BY <1>2 DEF CursorInside, TypeOK
<1>5. WithinLimits'
  <2>1. cost' <= call.costlimit /\ phase \in Live /\ phase # "idle"
    BY SMTT(30) DEF TypeOK
  <2>2. QED BY <2>1 DEF WithinLimits
<1>6. LedgerExact'
  BY DEF LedgerExact
<1>7. TrailDiscipline'
  BY DEF TrailDiscipline
<1>8. AttemptsApart'
  <2>1. attempt \in Nat /\ pos \in Nat /\ attempt <= pos
    BY DEF AttemptsApart, TypeOK
  <2>2. attempt <= pos'
    BY <2>1
  <2>3. QED BY <2>2, Zenon DEF AttemptsApart
<1>9. NoSplitCrlf'
  BY DEF NoSplitCrlf
<1>10. QED BY <1>2, <1>3, <1>4, <1>5, <1>6, <1>7, <1>8, <1>9

\* A thread that dies leaves everything but the phase and the charge.
LEMMA FailsSafe ==
  ASSUME IInv, phase = "run", cost < call.costlimit, Fails
  PROVE  IInv'
<1> USE CallTyped DEF IInv, Live
<1>1. /\ phase' = "fail" /\ cost' = cost + 1
      /\ UNCHANGED <<call, result, pc, pos, attempt, mark, regs, bt, btcap,
                     trail, trailcap, mem, peak, stackpeak, ov, use>>
  BY DEF Fails, cursor, scratch, space, answer
<1> USE <1>1
<1>2. call' \in Calls /\ Re' = Re /\ Setup(call)' = Setup(call)
  BY DEF Re, Setup
<1>3. TypeOK'
  BY <1>2 DEF TypeOK, Phases
<1>4. CursorInside'
  BY <1>2 DEF CursorInside, TypeOK
<1>5. WithinLimits'
  BY SMTT(30) DEF WithinLimits, TypeOK
<1>6. LedgerExact'
  BY DEF LedgerExact
<1>7. TrailDiscipline'
  BY DEF TrailDiscipline
<1>8. AttemptsApart'
  BY DEF AttemptsApart, TypeOK
<1>9. NoSplitCrlf'
  BY DEF NoSplitCrlf
<1>10. QED BY <1>2, <1>3, <1>4, <1>5, <1>6, <1>7, <1>8, <1>9

\* So does a refusal, which leaves the charge inside the limit.
LEMMA RefuseSafe ==
  ASSUME IInv, phase \in Live, NEW spent \in Nat, spent <= call.costlimit,
         Refuse(spent)
  PROVE  IInv'
<1> USE CallTyped DEF IInv, Live
<1>1. /\ phase' = "stop" /\ cost' = spent /\ result' = "RESOURCE_EXCEEDED"
      /\ UNCHANGED <<call, pc, pos, attempt, mark, regs, bt, btcap,
                     trail, trailcap, mem, peak, stackpeak, ov, use>>
  BY DEF Refuse, cursor, scratch, space, answer
<1> USE <1>1
<1>2. call' \in Calls /\ Re' = Re /\ Setup(call)' = Setup(call)
  BY DEF Re, Setup
<1>3. TypeOK'
  BY <1>2 DEF TypeOK, Phases, Statuses
<1>4. CursorInside'
  BY <1>2 DEF CursorInside, TypeOK
<1>5. WithinLimits'
  BY SMTT(30) DEF WithinLimits, TypeOK
<1>6. LedgerExact'
  BY DEF LedgerExact
<1>7. TrailDiscipline'
  BY DEF TrailDiscipline
<1>8. AttemptsApart'
  BY DEF AttemptsApart, TypeOK
<1>9. NoSplitCrlf'
  BY DEF NoSplitCrlf
<1>10. QED BY <1>2, <1>3, <1>4, <1>5, <1>6, <1>7, <1>8, <1>9

\* Room for one more undo entry keeps the ledger and stays inside the limits.
LEMMA TrailGrows ==
  ASSUME IInv, phase \in Live, NEW spent \in Nat, spent <= call.costlimit,
         MayPush(trailcap, Len(trail), UNDO_SIZE, MaxTrail, spent),
         Charge(trailcap, Len(trail), UNDO_SIZE, MaxTrail, spent),
         trailcap' = CapAfter(trailcap, Len(trail), MaxTrail)
  PROVE  /\ cost' \in Nat /\ mem' \in Nat /\ peak' \in Nat
         /\ cost' <= call.costlimit
         /\ mem' <= peak' /\ peak' <= call.memlimit
         /\ mem' = mem + trailcap' * UNDO_SIZE - trailcap * UNDO_SIZE
         /\ trailcap' \in Nat /\ Len(trail) + 1 <= trailcap' /\ trailcap' <= MaxTrail
<1> DEFINE grown == GrownCap(trailcap, MaxTrail)
<1>1. /\ trailcap \in Nat /\ Len(trail) \in Nat /\ MaxTrail \in Nat
      /\ mem \in Nat /\ peak \in Nat
  BY Measures
<1>2. /\ Len(trail) <= trailcap /\ trailcap <= MaxTrail
      /\ trailcap * UNDO_SIZE <= mem /\ mem <= peak /\ peak <= call.memlimit
  BY Ledger
<1>3. call.costlimit \in Nat /\ call.memlimit \in Nat
  BY CallTyped DEF IInv
<1>4. /\ grown \in Nat /\ trailcap <= grown /\ grown <= MaxTrail
      /\ trailcap < MaxTrail => trailcap < grown
  BY <1>1, <1>2, GrownCapGrows
<1> HIDE DEF grown
<1>5. CASE Len(trail) < trailcap
  <2>1. cost' = spent /\ mem' = mem /\ peak' = peak /\ trailcap' = trailcap
    BY <1>5 DEF Charge, CapAfter
  <2>2. QED BY <1>1, <1>2, <1>3, <1>5, <2>1 DEF UNDO_SIZE
<1>6. CASE ~(Len(trail) < trailcap)
  <2>1. /\ Len(trail) < MaxTrail
        /\ grown * UNDO_SIZE <= call.memlimit - mem
        /\ (grown + trailcap) * UNDO_SIZE <= call.costlimit - spent
    BY <1>6 DEF MayPush, grown
  <2>2. /\ cost' = spent + grown * UNDO_SIZE + trailcap * UNDO_SIZE
        /\ peak' = IF mem + grown * UNDO_SIZE > peak THEN mem + grown * UNDO_SIZE
                   ELSE peak
        /\ mem' = mem + grown * UNDO_SIZE - trailcap * UNDO_SIZE
    BY <1>6 DEF Charge, grown
  <2>3. trailcap' = grown
    BY <1>6 DEF CapAfter, grown
  <2>4. QED BY <1>1, <1>2, <1>3, <1>4, <1>6, <2>1, <2>2, <2>3, SMTT(30) DEF UNDO_SIZE
<1>7. QED BY <1>5, <1>6

\* So does room for one more choice point.
LEMMA StackGrows ==
  ASSUME IInv, phase \in Live, NEW spent \in Nat, spent <= call.costlimit,
         MayPush(btcap, Len(bt), BT_SIZE, MaxStack, spent),
         Charge(btcap, Len(bt), BT_SIZE, MaxStack, spent),
         btcap' = CapAfter(btcap, Len(bt), MaxStack)
  PROVE  /\ cost' \in Nat /\ mem' \in Nat /\ peak' \in Nat
         /\ cost' <= call.costlimit
         /\ mem' <= peak' /\ peak' <= call.memlimit
         /\ mem' = mem + btcap' * BT_SIZE - btcap * BT_SIZE
         /\ btcap' \in Nat /\ Len(bt) + 1 <= btcap' /\ btcap' <= MaxStack
<1> DEFINE grown == GrownCap(btcap, MaxStack)
<1>1. /\ btcap \in Nat /\ Len(bt) \in Nat /\ MaxStack \in Nat
      /\ mem \in Nat /\ peak \in Nat
  BY Measures
<1>2. /\ Len(bt) <= btcap /\ btcap <= MaxStack
      /\ btcap * BT_SIZE <= mem /\ mem <= peak /\ peak <= call.memlimit
  BY Ledger
<1>3. call.costlimit \in Nat /\ call.memlimit \in Nat
  BY CallTyped DEF IInv
<1>4. /\ grown \in Nat /\ btcap <= grown /\ grown <= MaxStack
      /\ btcap < MaxStack => btcap < grown
  BY <1>1, <1>2, GrownCapGrows
<1> HIDE DEF grown
<1>5. CASE Len(bt) < btcap
  <2>1. cost' = spent /\ mem' = mem /\ peak' = peak /\ btcap' = btcap
    BY <1>5 DEF Charge, CapAfter
  <2>2. QED BY <1>1, <1>2, <1>3, <1>5, <2>1 DEF BT_SIZE
<1>6. CASE ~(Len(bt) < btcap)
  <2>1. /\ Len(bt) < MaxStack
        /\ grown * BT_SIZE <= call.memlimit - mem
        /\ (grown + btcap) * BT_SIZE <= call.costlimit - spent
    BY <1>6 DEF MayPush, grown
  <2>2. /\ cost' = spent + grown * BT_SIZE + btcap * BT_SIZE
        /\ peak' = IF mem + grown * BT_SIZE > peak THEN mem + grown * BT_SIZE
                   ELSE peak
        /\ mem' = mem + grown * BT_SIZE - btcap * BT_SIZE
    BY <1>6 DEF Charge, grown
  <2>3. btcap' = grown
    BY <1>6 DEF CapAfter, grown
  <2>4. QED BY <1>1, <1>2, <1>3, <1>4, <1>6, <2>1, <2>2, <2>3, SMTT(30) DEF BT_SIZE
<1>7. QED BY <1>5, <1>6

\* A register write at a slot of the program is safe, whichever of its three
\* ends it comes to.
LEMMA WriteRegSafe ==
  ASSUME IInv, phase = "run", cost < call.costlimit,
         NEW slot \in Slots(Re), NEW value \in Nat \cup {UNSET},
         NEW target \in Nat, target < Len(Re.code),
         WriteReg(slot, value, target)
  PROVE  IInv'
<1>0. /\ call \in Calls /\ TypeOK /\ CursorInside /\ WithinLimits /\ LedgerExact
      /\ TrailDiscipline /\ AttemptsApart /\ NoSplitCrlf
      /\ phase \in Live /\ phase # "idle"
  BY DEF IInv, Live
<1>1. slot \in Nat /\ regs[slot] \in Nat \cup {UNSET}
  <2>1. regs \in [Slots(Re) -> Nat \cup {UNSET}]
    BY <1>0 DEF TypeOK
  <2>2. Re.nregs \in Nat
    BY <1>0, CallTyped
  <2>3. slot \in Nat
    BY <2>2 DEF Slots
  <2>4. QED BY <2>1, <2>3
<1>2. call.costlimit \in Nat /\ call.memlimit \in Nat /\ Setup(call) \in Nat
  BY <1>0, CallTyped
<1>3. cost + 1 \in Nat /\ cost + 1 <= call.costlimit
  <2>1. cost \in Nat
    BY Measures
  <2>2. QED BY <1>2, <2>1
<1>4. CASE bt = <<>> /\ regs' = [regs EXCEPT ![slot] = value] /\ cost' = cost + 1
           /\ pc' = target
           /\ UNCHANGED <<call, phase, result, pos, attempt, mark, bt, btcap,
                          trail, trailcap, space, answer>>
  <2>1. UNCHANGED <<mem, peak, stackpeak, ov, use>>
    BY <1>4 DEF space, answer
  <2>2. call' \in Calls /\ Re' = Re /\ Setup(call)' = Setup(call)
    BY <1>0, <1>4 DEF Re, Setup
  <2>3. TypeOK'
    BY <1>0, <1>3, <1>4, <2>1, <2>2 DEF TypeOK
  <2>4. CursorInside'
    BY <1>0, <1>4, <2>2 DEF CursorInside
  <2>5. WithinLimits'
    BY <1>0, <1>3, <1>4, <2>1 DEF WithinLimits
  <2>6. LedgerExact'
    BY <1>0, <1>4, <2>1, <2>2 DEF LedgerExact
  <2>7. TrailDiscipline' /\ AttemptsApart' /\ NoSplitCrlf'
    BY <1>0, <1>4 DEF TrailDiscipline, AttemptsApart, NoSplitCrlf
  <2>8. QED BY <2>2, <2>3, <2>4, <2>5, <2>6, <2>7 DEF IInv
<1>5. CASE /\ bt # <<>>
           /\ MayPush(trailcap, Len(trail), UNDO_SIZE, MaxTrail, cost + 1)
           /\ Charge(trailcap, Len(trail), UNDO_SIZE, MaxTrail, cost + 1)
           /\ trail' = Append(trail, [slot |-> slot, old |-> regs[slot]])
           /\ trailcap' = CapAfter(trailcap, Len(trail), MaxTrail)
           /\ regs' = [regs EXCEPT ![slot] = value]
           /\ pc' = target
           /\ UNCHANGED <<call, phase, result, pos, attempt, mark, bt, btcap,
                          stackpeak, answer>>
  <2>1. UNCHANGED <<call, phase, result, pos, attempt, mark, bt, btcap,
                    stackpeak, ov, use>>
    BY <1>5 DEF answer
  <2>2. /\ trail' \in Seq([slot : Nat, old : Nat \cup {UNSET}])
        /\ Len(trail') = Len(trail) + 1
    <3> DEFINE undo == [slot |-> slot, old |-> regs[slot]]
    <3>1. undo \in [slot : Nat, old : Nat \cup {UNSET}]
      BY <1>1
    <3>2. trail \in Seq([slot : Nat, old : Nat \cup {UNSET}])
      BY <1>0 DEF TypeOK
    <3>3. trail' = Append(trail, undo)
      BY <1>5
    <3> HIDE DEF undo
    <3>4. QED BY <3>1, <3>2, <3>3, AppendProperties
  <2>3. /\ cost' \in Nat /\ mem' \in Nat /\ peak' \in Nat
        /\ cost' <= call.costlimit /\ mem' <= peak' /\ peak' <= call.memlimit
        /\ mem' = mem + trailcap' * UNDO_SIZE - trailcap * UNDO_SIZE
        /\ trailcap' \in Nat /\ Len(trail) + 1 <= trailcap' /\ trailcap' <= MaxTrail
    BY <1>0, <1>3, <1>5, TrailGrows
  <2>4. call' \in Calls /\ Re' = Re /\ Setup(call)' = Setup(call)
    BY <1>0, <2>1 DEF Re, Setup
  <2>5. TypeOK'
    BY <1>0, <1>5, <2>1, <2>2, <2>3, <2>4 DEF TypeOK
  <2>6. CursorInside'
    BY <1>0, <1>5, <2>1, <2>4 DEF CursorInside
  <2>7. WithinLimits'
    BY <1>0, <2>1, <2>3 DEF WithinLimits
  <2>8. LedgerExact'
    <3>1. mem' = Setup(call) + btcap * BT_SIZE + trailcap' * UNDO_SIZE
      <4>1. /\ mem = Setup(call) + btcap * BT_SIZE + trailcap * UNDO_SIZE
            /\ mem \in Nat /\ btcap \in Nat /\ trailcap \in Nat
        BY <1>0, Measures, Ledger
      <4>2. mem' = mem + trailcap' * UNDO_SIZE - trailcap * UNDO_SIZE
            /\ trailcap' \in Nat
        BY <2>3
      <4>3. QED BY <1>2, <4>1, <4>2, SMTT(30) DEF BT_SIZE, UNDO_SIZE
    <3>2. QED BY <1>0, <2>1, <2>2, <2>3, <2>4, <3>1, Ledger DEF LedgerExact
  <2>9. TrailDiscipline'
    <3>1. /\ \A i \in 1 .. Len(bt) : bt[i].mark <= Len(trail)
          /\ \A i, j \in 1 .. Len(bt) : i <= j => bt[i].mark <= bt[j].mark
      BY <1>0 DEF IInv, TrailDiscipline
    <3>2. /\ Len(trail) \in Nat
          /\ \A i \in 1 .. Len(bt) : bt[i].mark \in Nat
      BY <1>0, Measures
    <3>3. Len(trail') = Len(trail) + 1 /\ bt' = bt /\ bt # <<>> /\ phase' = "run"
      BY <1>0, <1>5, <2>1, <2>2
    <3>4. \A i \in 1 .. Len(bt) : bt[i].mark <= Len(trail')
      <4>1. SUFFICES ASSUME NEW i \in 1 .. Len(bt)
                     PROVE  bt[i].mark <= Len(trail')
        OBVIOUS
      <4>2. bt[i].mark \in Nat /\ bt[i].mark <= Len(trail)
        BY <3>1, <3>2
      <4>3. QED BY <3>2, <3>3, <4>2
    <3>5. QED BY <3>1, <3>3, <3>4, Zenon DEF TrailDiscipline
  <2>10. AttemptsApart' /\ NoSplitCrlf'
    BY <1>0, <1>5, <2>1 DEF AttemptsApart, NoSplitCrlf
  <2>11. QED BY <2>4, <2>5, <2>6, <2>7, <2>8, <2>9, <2>10 DEF IInv
<1>6. CASE Refuse(cost + 1)
  BY <1>0, <1>3, <1>6, RefuseSafe
<1>7. QED BY <1>4, <1>5, <1>6 DEF WriteReg

\* Leaving a choice point and going on with the other alternative is safe.
LEMMA ForkSafe ==
  ASSUME IInv, phase = "run", cost < call.costlimit,
         NEW first \in Nat, first < Len(Re.code),
         NEW second \in Nat, second < Len(Re.code),
         Fork(first, second)
  PROVE  IInv'
<1>0. /\ call \in Calls /\ TypeOK /\ CursorInside /\ WithinLimits /\ LedgerExact
      /\ TrailDiscipline /\ AttemptsApart /\ NoSplitCrlf
      /\ phase \in Live /\ phase # "idle"
  BY DEF IInv, Live
<1>1. /\ call.costlimit \in Nat /\ call.stacklimit \in Nat
      /\ call.memlimit \in Nat /\ Setup(call) \in Nat
  BY <1>0, CallTyped
<1>2. cost + 1 \in Nat /\ cost + 1 <= call.costlimit
  <2>1. cost \in Nat
    BY Measures
  <2>2. QED BY <1>1, <2>1
<1>3. CASE /\ Len(bt) < call.stacklimit
           /\ MayPush(btcap, Len(bt), BT_SIZE, MaxStack, cost + 1)
           /\ Charge(btcap, Len(bt), BT_SIZE, MaxStack, cost + 1)
           /\ bt' = Append(bt, [pc |-> second, pos |-> pos, mark |-> Len(trail)])
           /\ btcap' = CapAfter(btcap, Len(bt), MaxStack)
           /\ stackpeak' = IF Len(bt) + 1 > stackpeak THEN Len(bt) + 1 ELSE stackpeak
           /\ pc' = first
           /\ UNCHANGED <<call, phase, result, pos, attempt, mark, regs, trail,
                          trailcap, answer>>
  <2> DEFINE entry == [pc |-> second, pos |-> pos, mark |-> Len(trail)]
  <2>1. UNCHANGED <<call, phase, result, pos, attempt, mark, regs, trail,
                    trailcap, ov, use>>
    BY <1>3 DEF answer
  <2>2. /\ bt' \in Seq([pc : Nat, pos : Nat, mark : Nat])
        /\ Len(bt') = Len(bt) + 1
        /\ \A i \in 1 .. Len(bt) : bt'[i] = bt[i]
        /\ bt'[Len(bt) + 1] = entry
    <3>1. entry \in [pc : Nat, pos : Nat, mark : Nat]
      BY <1>0, Measures DEF TypeOK
    <3>2. bt \in Seq([pc : Nat, pos : Nat, mark : Nat])
      BY <1>0 DEF TypeOK
    <3>3. bt' = Append(bt, entry)
      BY <1>3
    <3> HIDE DEF entry
    <3>4. QED BY <3>1, <3>2, <3>3, AppendProperties
  <2>3. Len(bt) \in Nat /\ Len(trail) \in Nat /\ stackpeak \in Nat
    BY Measures
  <2>4. \A i \in 1 .. Len(bt') :
          \/ i \in 1 .. Len(bt) /\ bt'[i] = bt[i]
          \/ i = Len(bt) + 1 /\ bt'[i] = entry
    <3> HIDE DEF entry
    <3>1. SUFFICES ASSUME NEW i \in 1 .. Len(bt')
                   PROVE  i \in 1 .. Len(bt) \/ i = Len(bt) + 1
      BY <2>2
    <3>2. i \in 1 .. (Len(bt) + 1)
      BY <2>2, <3>1
    <3>3. QED BY <2>3, <3>2
  <2>5. entry.pc = second /\ entry.pos = pos /\ entry.mark = Len(trail)
    OBVIOUS
  <2> HIDE DEF entry
  <2>6. /\ cost' \in Nat /\ mem' \in Nat /\ peak' \in Nat
        /\ cost' <= call.costlimit /\ mem' <= peak' /\ peak' <= call.memlimit
        /\ mem' = mem + btcap' * BT_SIZE - btcap * BT_SIZE
        /\ btcap' \in Nat /\ Len(bt) + 1 <= btcap' /\ btcap' <= MaxStack
    BY <1>0, <1>2, <1>3, StackGrows
  <2>7. call' \in Calls /\ Re' = Re /\ Setup(call)' = Setup(call)
    BY <1>0, <2>1 DEF Re, Setup
  <2>8. /\ stackpeak' \in Nat /\ Len(bt') <= stackpeak'
        /\ stackpeak' <= call.stacklimit
    <3>1. stackpeak <= call.stacklimit
      BY <1>0, Ledger
    <3>2. QED BY <1>1, <1>3, <2>2, <2>3, <3>1
  <2>9. TypeOK'
    BY <1>0, <1>3, <2>1, <2>2, <2>6, <2>7, <2>8 DEF TypeOK
  <2>10. CursorInside'
    <3>1. /\ pos <= Size(call)
          /\ \A i \in 1 .. Len(bt) : bt[i].pc < Len(Re.code) /\ bt[i].pos <= Size(call)
      BY <1>0 DEF CursorInside
    <3>2. \A i \in 1 .. Len(bt') : bt'[i].pc < Len(Re.code) /\ bt'[i].pos <= Size(call)
      BY <2>4, <2>5, <3>1
    <3>3. QED BY <1>0, <1>3, <2>1, <2>7, <3>2 DEF CursorInside
  <2>11. WithinLimits'
    BY <1>0, <2>1, <2>6, <2>8 DEF WithinLimits
  <2>12. LedgerExact'
    <3>1. mem' = Setup(call) + btcap' * BT_SIZE + trailcap * UNDO_SIZE
      <4>1. /\ mem = Setup(call) + btcap * BT_SIZE + trailcap * UNDO_SIZE
            /\ mem \in Nat /\ btcap \in Nat /\ trailcap \in Nat
        BY <1>0, Measures, Ledger
      <4>2. mem' = mem + btcap' * BT_SIZE - btcap * BT_SIZE /\ btcap' \in Nat
        BY <2>6
      <4>3. QED BY <1>1, <4>1, <4>2, SMTT(30) DEF BT_SIZE, UNDO_SIZE
    <3>2. QED BY <1>0, <2>1, <2>2, <2>6, <2>7, <3>1, Ledger DEF LedgerExact
  <2>13. TrailDiscipline'
    <3>1. /\ \A i \in 1 .. Len(bt) : bt[i].mark <= Len(trail)
          /\ \A i, j \in 1 .. Len(bt) : i <= j => bt[i].mark <= bt[j].mark
      BY <1>0 DEF TrailDiscipline
    <3>2. \A i \in 1 .. Len(bt') : bt'[i].mark <= Len(trail)
      BY <2>3, <2>4, <2>5, <3>1
    <3>3. \A i, j \in 1 .. Len(bt') : i <= j => bt'[i].mark <= bt'[j].mark
      <4>1. SUFFICES ASSUME NEW i \in 1 .. Len(bt'), NEW j \in 1 .. Len(bt'), i <= j
                     PROVE  bt'[i].mark <= bt'[j].mark
        OBVIOUS
      <4>2. CASE j \in 1 .. Len(bt)
        <5>1. i \in 1 .. Len(bt)
          BY <2>3, <4>1, <4>2
        <5>2. QED BY <2>2, <3>1, <4>1, <4>2, <5>1
      <4>3. CASE j = Len(bt) + 1
        BY <2>2, <2>5, <3>2, <4>3
      <4>4. QED BY <2>4, <4>2, <4>3
    <3>4. bt' # <<>>
      BY <2>2, <2>3
    <3>5. QED BY <1>0, <2>1, <3>2, <3>3, <3>4 DEF TrailDiscipline
  <2>14. AttemptsApart'
    <3>1. attempt <= pos /\ \A i \in 1 .. Len(bt) : attempt <= bt[i].pos
      BY <1>0 DEF AttemptsApart
    <3>2. \A i \in 1 .. Len(bt') : attempt <= bt'[i].pos
      BY <2>4, <2>5, <3>1
    <3>3. QED BY <1>0, <2>1, <3>1, <3>2 DEF AttemptsApart
  <2>15. NoSplitCrlf'
    BY <1>0, <2>1 DEF NoSplitCrlf
  <2>16. QED
    BY <2>7, <2>9, <2>10, <2>11, <2>12, <2>13, <2>14, <2>15 DEF IInv
<1>4. CASE Refuse(cost + 1)
  BY <1>0, <1>2, <1>4, RefuseSafe
<1>5. QED BY <1>3, <1>4 DEF Fork

-----------------------------------------------------------------------------
(* The steps of a run, one lemma per action.                               *)

\* Every visit finds an instruction of the program.
LEMMA Fetched ==
  ASSUME IInv, phase = "run"
  PROVE  /\ pc \in Nat /\ pc < Len(Re.code) /\ WellFormed(Re)
         /\ Inst \in Insts
         /\ pos \in Nat /\ pos <= Size(call) /\ Size(call) \in Nat
         /\ call \in CallTypes
         /\ \A t \in Successors(Re, pc) : t \in Nat /\ t < Len(Re.code)
<1>1. call \in Calls /\ TypeOK /\ CursorInside /\ phase \in Live
  BY DEF IInv, Live
<1>2. WellFormed(Re) /\ Size(call) \in Nat /\ call \in CallTypes
  BY <1>1, CallTyped
<1>3. pc \in Nat /\ pos \in Nat /\ pc < Len(Re.code) /\ pos <= Size(call)
  BY <1>1 DEF TypeOK, CursorInside
<1>4. /\ Len(Re.code) \in Nat /\ Inst \in Insts
      /\ Successors(Re, pc) \subseteq 0 .. (Len(Re.code) - 1)
  BY <1>2, <1>3, ControlInside DEF Inst
<1>5. \A t \in Successors(Re, pc) : t \in Nat /\ t < Len(Re.code)
  BY <1>4
<1>6. QED BY <1>2, <1>3, <1>4, <1>5

\* Eating bytes or dying for want of them is safe: a byte or newline eaten is
\* inside the subject.
LEMMA EatSafe == IInv /\ Eat => IInv'
<1> SUFFICES ASSUME IInv, Eat PROVE IInv'
  OBVIOUS
<1>1. phase = "run" /\ cost < call.costlimit /\ Inst.op \in EaterOps
  BY DEF Eat, Visits
<1>2. pc + 1 \in Nat /\ pc + 1 < Len(Re.code)
  <2>1. pc + 1 \in Successors(Re, pc)
    BY <1>1 DEF Successors, EaterOps, Inst
  <2>2. QED BY <1>1, <2>1, Fetched
<1>3. CASE Goto(pc + 1, pos + Eats(call, Inst, pos))
  <2> DEFINE at == pos + Eats(call, Inst, pos)
  <2>1. pos \in 0 .. Size(call) /\ Inst \in Insts /\ call \in CallTypes
    BY <1>1, Fetched
  <2>2. Eats(call, Inst, pos) \in Nat /\ at <= Size(call)
    BY <2>1, EatsInside
  <2>3. at \in Nat /\ pos <= at
    BY <2>1, <2>2
  <2> HIDE DEF at
  <2>4. Goto(pc + 1, at)
    BY <1>3 DEF at
  <2>5. QED BY <1>1, <1>2, <2>2, <2>3, <2>4, GotoSafe
<1>4. CASE Fails
  BY <1>1, <1>4, FailsSafe
<1>5. QED BY <1>3, <1>4 DEF Eat

\* An assertion moves on or dies, and is safe.
LEMMA AssertionSafe == IInv /\ Assertion => IInv'
<1> SUFFICES ASSUME IInv, Assertion PROVE IInv'
  OBVIOUS
<1>1. phase = "run" /\ cost < call.costlimit /\ Inst.op \in AssertOps
  BY DEF Assertion, Visits
<1>2. pc + 1 \in Nat /\ pc + 1 < Len(Re.code)
  <2>1. pc + 1 \in Successors(Re, pc)
    BY <1>1 DEF Successors, AssertOps, Inst
  <2>2. QED BY <1>1, <2>1, Fetched
<1>3. pos \in Nat /\ pos <= pos /\ pos <= Size(call)
  BY <1>1, Fetched
<1>4. CASE Goto(pc + 1, pos)
  BY <1>1, <1>2, <1>3, <1>4, GotoSafe
<1>5. CASE Fails
  BY <1>1, <1>5, FailsSafe
<1>6. QED BY <1>4, <1>5 DEF Assertion

\* A jump lands inside the program.
LEMMA JumpSafe == IInv /\ Jump => IInv'
<1> SUFFICES ASSUME IInv, Jump PROVE IInv'
  OBVIOUS
<1>1. /\ phase = "run" /\ cost < call.costlimit /\ Inst.op = "OpJump"
      /\ Goto(Inst.arg, pos)
  BY DEF Jump, Visits
<1>2. Inst.arg \in Nat /\ Inst.arg < Len(Re.code)
  <2>1. Inst.arg \in Successors(Re, pc)
    BY <1>1 DEF Successors, Inst
  <2>2. QED BY <1>1, <2>1, Fetched
<1>3. pos \in Nat /\ pos <= pos /\ pos <= Size(call)
  BY <1>1, Fetched
<1>4. QED BY <1>1, <1>2, <1>3, GotoSafe

\* An ordered alternative leaves one choice point, and is safe.
LEMMA SplitSafe == IInv /\ Split => IInv'
<1> SUFFICES ASSUME IInv, Split PROVE IInv'
  OBVIOUS
<1>1. /\ phase = "run" /\ cost < call.costlimit /\ Inst.op = "OpSplit"
      /\ Fork(Inst.arg, Inst.alt)
  BY DEF Split, Visits
<1>2. Inst.arg \in Successors(Re, pc) /\ Inst.alt \in Successors(Re, pc)
  BY <1>1 DEF Successors, Inst
<1>3. /\ Inst.arg \in Nat /\ Inst.arg < Len(Re.code)
      /\ Inst.alt \in Nat /\ Inst.alt < Len(Re.code)
  BY <1>1, <1>2, Fetched
<1>4. QED BY <1>1, <1>3, ForkSafe

\* A capture is a register of the file, written undoably.
LEMMA SaveSafe == IInv /\ Save => IInv'
<1> SUFFICES ASSUME IInv, Save PROVE IInv'
  OBVIOUS
<1>1. /\ phase = "run" /\ cost < call.costlimit /\ Inst.op = "OpSave"
      /\ WriteReg(Inst.arg, pos, pc + 1)
  BY DEF Save, Visits
<1>2. pc + 1 \in Nat /\ pc + 1 < Len(Re.code)
  <2>1. pc + 1 \in Successors(Re, pc)
    BY <1>1 DEF Successors, Inst
  <2>2. QED BY <1>1, <2>1, Fetched
<1>3. Inst.arg \in Slots(Re) /\ pos \in Nat \cup {UNSET}
  BY <1>1, Fetched, ControlInside DEF Inst
<1>4. QED BY <1>1, <1>2, <1>3, WriteRegSafe

\* The registers of a repetition, and where it may go on.
LEMMA RepFetched ==
  ASSUME IInv, phase = "run", Inst.op \in RepOps
  PROVE  /\ CountSlot(Re, Inst.arg) \in Slots(Re)
         /\ EntrySlot(Re, Inst.arg) \in Slots(Re)
         /\ regs[CountSlot(Re, Inst.arg)] + 1 \in Nat
<1>1. /\ CountSlot(Re, Inst.arg) \in Slots(Re)
      /\ EntrySlot(Re, Inst.arg) \in Slots(Re)
  BY Fetched, ControlInside DEF Inst
<1>2. regs \in [Slots(Re) -> Nat \cup {UNSET}]
  BY DEF IInv, TypeOK, Live
<1>3. regs[CountSlot(Re, Inst.arg)] \in Nat \cup {UNSET}
  BY <1>1, <1>2
<1>4. QED BY <1>1, <1>3 DEF UNSET

\* So is a repetition's counter when the repetition is entered.
LEMMA RepZeroSafe == IInv /\ RepZero => IInv'
<1> SUFFICES ASSUME IInv, RepZero PROVE IInv'
  OBVIOUS
<1>1. /\ phase = "run" /\ cost < call.costlimit /\ Inst.op = "OpRepZero"
      /\ WriteReg(CountSlot(Re, Inst.arg), 0, pc + 1)
  BY DEF RepZero, Visits
<1>2. pc + 1 \in Nat /\ pc + 1 < Len(Re.code)
  <2>1. pc + 1 \in Successors(Re, pc)
    BY <1>1 DEF Successors, Inst
  <2>2. QED BY <1>1, <2>1, Fetched
<1>3. CountSlot(Re, Inst.arg) \in Slots(Re)
  BY <1>1, RepFetched DEF RepOps
<1>4. 0 \in Nat \cup {UNSET}
  OBVIOUS
<1>5. QED BY <1>1, <1>2, <1>3, <1>4, WriteRegSafe

\* So is the mark an iteration begins with.
LEMMA RepEnterSafe == IInv /\ RepEnter => IInv'
<1> SUFFICES ASSUME IInv, RepEnter PROVE IInv'
  OBVIOUS
<1>1. /\ phase = "run" /\ cost < call.costlimit /\ Inst.op = "OpRepEnter"
      /\ WriteReg(EntrySlot(Re, Inst.arg), pos, pc + 1)
  BY DEF RepEnter, Visits
<1>2. pc + 1 \in Nat /\ pc + 1 < Len(Re.code)
  <2>1. pc + 1 \in Successors(Re, pc)
    BY <1>1 DEF Successors, Inst
  <2>2. QED BY <1>1, <2>1, Fetched
<1>3. EntrySlot(Re, Inst.arg) \in Slots(Re)
  BY <1>1, RepFetched DEF RepOps
<1>4. pos \in Nat \cup {UNSET}
  BY <1>1, Fetched
<1>5. QED BY <1>1, <1>2, <1>3, <1>4, WriteRegSafe

\* Choosing between one more iteration and going on is safe.
LEMMA RepLoopSafe == IInv /\ RepLoop => IInv'
<1> SUFFICES ASSUME IInv, RepLoop PROVE IInv'
  OBVIOUS
<1>1. phase = "run" /\ cost < call.costlimit /\ Inst.op = "OpRepLoop"
  BY DEF RepLoop, Visits
<1>2. Rep.body \in Successors(Re, pc) /\ Rep.after \in Successors(Re, pc)
  BY <1>1 DEF Successors, Inst, Rep
<1>3. /\ Rep.body \in Nat /\ Rep.body < Len(Re.code)
      /\ Rep.after \in Nat /\ Rep.after < Len(Re.code)
  BY <1>1, <1>2, Fetched
<1>4. pos \in Nat /\ pos <= pos /\ pos <= Size(call)
  BY <1>1, Fetched
<1>5. CASE Goto(Rep.body, pos)
  BY <1>1, <1>3, <1>4, <1>5, GotoSafe
<1>6. CASE Goto(Rep.after, pos)
  BY <1>1, <1>3, <1>4, <1>6, GotoSafe
<1>7. CASE Fork(Rep.body, Rep.after)
  BY <1>1, <1>3, <1>7, ForkSafe
<1>8. CASE Fork(Rep.after, Rep.body)
  BY <1>1, <1>3, <1>8, ForkSafe
<1>9. QED BY <1>5, <1>6, <1>7, <1>8 DEF RepLoop

\* Counting an iteration and going round or out is safe.
LEMMA RepNextSafe == IInv /\ RepNext => IInv'
<1> SUFFICES ASSUME IInv, RepNext PROVE IInv'
  OBVIOUS
<1> DEFINE count == regs[CountSlot(Re, Inst.arg)] + 1
<1>1. phase = "run" /\ cost < call.costlimit /\ Inst.op = "OpRepNext"
  BY DEF RepNext, Visits
<1>2. Rep.head \in Successors(Re, pc) /\ Rep.after \in Successors(Re, pc)
  BY <1>1 DEF Successors, Inst, Rep
<1>3. /\ Rep.head \in Nat /\ Rep.head < Len(Re.code)
      /\ Rep.after \in Nat /\ Rep.after < Len(Re.code)
  BY <1>1, <1>2, Fetched
<1>4. CountSlot(Re, Inst.arg) \in Slots(Re) /\ count \in Nat \cup {UNSET}
  BY <1>1, RepFetched DEF RepOps
<1>5. \/ WriteReg(CountSlot(Re, Inst.arg), count, Rep.after)
      \/ WriteReg(CountSlot(Re, Inst.arg), count, Rep.head)
  BY DEF RepNext
<1> HIDE DEF count
<1>6. QED BY <1>1, <1>3, <1>4, <1>5, WriteRegSafe

\* A match, or one refused for being empty, is safe.
LEMMA AcceptSafe == IInv /\ Accept => IInv'
<1> SUFFICES ASSUME IInv, Accept PROVE IInv'
  OBVIOUS
<1>0. /\ call \in Calls /\ TypeOK /\ CursorInside /\ WithinLimits /\ LedgerExact
      /\ TrailDiscipline /\ AttemptsApart /\ NoSplitCrlf
  BY DEF IInv
<1>1. phase = "run" /\ cost < call.costlimit /\ phase \in Live
  BY DEF Accept, Visits, Live
<1>2. CASE Fails
  BY <1>1, <1>2, FailsSafe
<1>3. CASE /\ regs' = [regs EXCEPT ![0] = attempt, ![1] = pos]
           /\ phase' = "stop" /\ result' = "MATCHED" /\ cost' = cost + 1
           /\ UNCHANGED <<call, cursor, bt, btcap, trail, trailcap, space, answer>>
  <2>1. UNCHANGED <<call, pc, pos, attempt, mark, bt, btcap, trail, trailcap,
                    mem, peak, stackpeak, ov, use>>
    BY <1>3 DEF cursor, space, answer
  <2>2. call' \in Calls /\ Re' = Re /\ Setup(call)' = Setup(call)
    BY <1>0, <2>1 DEF Re, Setup
  <2>3. phase' \in Live /\ phase' \in Phases /\ result' \in Statuses
    BY <1>3 DEF Live, Phases, Statuses
  <2>4. cost' \in Nat /\ cost' <= call.costlimit
    <3>1. cost \in Nat /\ call.costlimit \in Nat
      BY <1>0, Measures, CallTyped
    <3>2. QED BY <1>1, <1>3, <3>1
  <2>5. TypeOK'
    <3>1. regs' \in [Slots(Re) -> Nat \cup {UNSET}]
      BY <1>0, <1>1, <1>3 DEF TypeOK
    <3>2. QED BY <1>0, <2>1, <2>2, <2>3, <2>4, <3>1 DEF TypeOK
  <2>6. CursorInside'
    BY <1>0, <1>1, <2>1, <2>2 DEF CursorInside
  <2>7. WithinLimits'
    BY <1>0, <1>1, <2>1, <2>4 DEF WithinLimits, Live
  <2>8. LedgerExact'
    BY <1>0, <1>1, <2>1, <2>2 DEF LedgerExact
  <2>9. TrailDiscipline'
    BY <1>3 DEF TrailDiscipline
  <2>10. AttemptsApart' /\ NoSplitCrlf'
    BY <1>0, <1>1, <1>3, <2>1 DEF AttemptsApart, NoSplitCrlf
  <2>11. QED BY <2>2, <2>5, <2>6, <2>7, <2>8, <2>9, <2>10 DEF IInv
<1>4. QED BY <1>2, <1>3 DEF Accept

\* Stopping because no unit of cost is left is safe.
LEMMA OutOfCostSafe == IInv /\ OutOfCost => IInv'
<1> SUFFICES ASSUME IInv, OutOfCost PROVE IInv'
  OBVIOUS
<1>1. phase \in Live /\ Refuse(cost)
  BY DEF OutOfCost, Live
<1>2. cost \in Nat /\ cost <= call.costlimit
  BY <1>1, Measures, Ledger
<1>3. QED BY <1>1, <1>2, RefuseSafe

\* Starting an attempt over a cleared register file is safe.
LEMMA BeginAttemptSafe == IInv /\ BeginAttempt => IInv'
<1> SUFFICES ASSUME IInv, BeginAttempt PROVE IInv'
  OBVIOUS
<1>0. /\ call \in Calls /\ TypeOK /\ CursorInside /\ WithinLimits /\ LedgerExact
      /\ TrailDiscipline /\ AttemptsApart /\ NoSplitCrlf
  BY DEF IInv
<1> DEFINE reset == Re.nregs * REG_SIZE
<1>1. phase = "attempt" /\ phase \in Live
  BY DEF BeginAttempt, Live
<1>2. cost \in Nat /\ cost <= call.costlimit
  BY <1>1, Measures, Ledger
<1>3. CASE Refuse(cost)
  BY <1>1, <1>2, <1>3, RefuseSafe
<1>4. CASE /\ reset <= call.costlimit - cost
           /\ phase' = "run" /\ cost' = cost + reset
           /\ regs' = Blank(Re.nregs) /\ bt' = <<>> /\ trail' = <<>>
           /\ pc' = 0 /\ pos' = attempt
           /\ UNCHANGED <<call, result, attempt, mark, btcap, trailcap, space, answer>>
  <2>1. UNCHANGED <<call, result, attempt, mark, btcap, trailcap,
                    mem, peak, stackpeak, ov, use>>
    BY <1>4 DEF space, answer
  <2>2. call' \in Calls /\ Re' = Re /\ Setup(call)' = Setup(call)
    BY <1>0, <2>1 DEF Re, Setup
  <2>3. reset \in Nat /\ call.costlimit \in Nat /\ Re.nregs \in Nat
    BY <1>0, CallTyped DEF REG_SIZE
  <2> HIDE DEF reset
  <2>4. cost' \in Nat /\ cost' <= call.costlimit
    BY <1>2, <1>4, <2>3
  <2>5. Len(<<>>) = 0 /\ Len(bt') = 0 /\ Len(trail') = 0
        /\ bt' \in Seq([pc : Nat, pos : Nat, mark : Nat])
        /\ trail' \in Seq([slot : Nat, old : Nat \cup {UNSET}])
        /\ \A i \in 1 .. Len(bt') : FALSE
    BY <1>4, EmptySeq
  <2>6. phase' \in Live /\ phase' \in Phases
    BY <1>4 DEF Live, Phases
  <2>7. TypeOK'
    <3>1. regs' \in [Slots(Re) -> Nat \cup {UNSET}]
      BY <1>4 DEF Blank, Slots
    <3>2. pc' \in Nat /\ pos' \in Nat
      BY <1>0, <1>4 DEF TypeOK
    <3>3. QED BY <1>0, <2>1, <2>2, <2>4, <2>5, <2>6, <3>1, <3>2 DEF TypeOK
  <2>8. CursorInside'
    <3>1. 0 < Len(Re.code)
      BY <1>0, CallTyped
    <3>2. QED BY <1>0, <1>1, <1>4, <2>1, <2>2, <2>5, <3>1 DEF CursorInside
  <2>9. WithinLimits'
    <3>1. stackpeak \in Nat
      BY Measures
    <3>2. QED BY <1>0, <1>1, <2>1, <2>4, <2>5, <3>1 DEF WithinLimits, Live
  <2>10. LedgerExact'
    <3>1. btcap \in Nat /\ trailcap \in Nat
      BY Measures
    <3>2. QED BY <1>0, <1>1, <2>1, <2>2, <2>5, <3>1 DEF LedgerExact
  <2>11. TrailDiscipline'
    BY <1>4, <2>5 DEF TrailDiscipline
  <2>12. AttemptsApart'
    <3>1. attempt <= pos'
      BY <1>0, <1>4 DEF TypeOK
    <3>2. QED BY <1>4, <2>1, <2>5, <3>1 DEF AttemptsApart
  <2>13. NoSplitCrlf'
    BY <1>0, <1>1, <2>1 DEF NoSplitCrlf
  <2>14. QED BY <2>2, <2>7, <2>8, <2>9, <2>10, <2>11, <2>12, <2>13 DEF IInv
<1>5. QED BY <1>3, <1>4 DEF BeginAttempt

\* With no choice point left an attempt ends with nothing to go back to.
LEMMA ExhaustSafe == IInv /\ Exhaust => IInv'
<1> SUFFICES ASSUME IInv, Exhaust PROVE IInv'
  OBVIOUS
<1>0. /\ call \in Calls /\ TypeOK /\ CursorInside /\ WithinLimits /\ LedgerExact
      /\ TrailDiscipline /\ AttemptsApart /\ NoSplitCrlf
  BY DEF IInv
<1>1. /\ phase = "fail" /\ phase' = "next" /\ bt = <<>> /\ trail' = <<>>
      /\ UNCHANGED <<call, result, pc, pos, attempt, mark, regs, bt, btcap,
                     trailcap, cost, mem, peak, stackpeak, ov, use>>
  BY DEF Exhaust, cursor, space, answer
<1>2. call' \in Calls /\ Re' = Re /\ Setup(call)' = Setup(call)
  BY <1>0, <1>1 DEF Re, Setup
<1>3. phase \in Live /\ phase' \in Live /\ phase' \in Phases /\ Len(trail') = 0
      /\ trail' \in Seq([slot : Nat, old : Nat \cup {UNSET}])
  BY <1>1, EmptySeq DEF Live, Phases
<1>4. TypeOK'
  BY <1>0, <1>1, <1>2, <1>3 DEF TypeOK
<1>5. CursorInside' /\ WithinLimits'
  BY <1>0, <1>1, <1>2, <1>3 DEF CursorInside, WithinLimits
<1>6. LedgerExact'
  BY <1>0, <1>1, <1>2, <1>3, Measures DEF LedgerExact
<1>7. TrailDiscipline' /\ AttemptsApart' /\ NoSplitCrlf'
  BY <1>0, <1>1, <1>3 DEF TrailDiscipline, AttemptsApart, NoSplitCrlf
<1>8. QED BY <1>2, <1>4, <1>5, <1>6, <1>7 DEF IInv

\* Replaying one undo entry keeps the marks below it in order.
LEMMA UndoSafe == IInv /\ Undo => IInv'
<1> SUFFICES ASSUME IInv, Undo PROVE IInv'
  OBVIOUS
<1>0. /\ call \in Calls /\ TypeOK /\ CursorInside /\ WithinLimits /\ LedgerExact
      /\ TrailDiscipline /\ AttemptsApart /\ NoSplitCrlf
  BY DEF IInv
<1> DEFINE undo == trail[Len(trail)]
<1>1. /\ phase = "undo" /\ mark < Len(trail) /\ mark \in Nat /\ Len(trail) \in Nat
      /\ regs' = [regs EXCEPT ![undo.slot] = undo.old]
      /\ trail' = SubSeq(trail, 1, Len(trail) - 1)
      /\ UNCHANGED <<call, phase, result, pc, pos, attempt, mark, bt, btcap,
                     trailcap, cost, mem, peak, stackpeak, ov, use>>
  BY <1>0, Measures DEF Undo, TypeOK, cursor, space, answer
<1>2. call' \in Calls /\ Re' = Re /\ Setup(call)' = Setup(call)
  BY <1>0, <1>1 DEF Re, Setup
<1>3. /\ trail' \in Seq([slot : Nat, old : Nat \cup {UNSET}])
      /\ Len(trail') = Len(trail) - 1
      /\ undo \in [slot : Nat, old : Nat \cup {UNSET}]
  <2>1. trail \in Seq([slot : Nat, old : Nat \cup {UNSET}])
    BY <1>0 DEF TypeOK
  <2>2. trail # <<>>
    BY <1>1, <2>1, EmptySeq
  <2>3. QED BY <1>1, <2>1, <2>2, AllButLast
<1> HIDE DEF undo
<1>4. phase \in Live
  BY <1>1 DEF Live
<1>5. TypeOK'
  <2>1. regs' \in [Slots(Re) -> Nat \cup {UNSET}]
    BY <1>0, <1>1, <1>3, <1>4 DEF TypeOK
  <2>2. QED BY <1>0, <1>1, <1>2, <1>3, <2>1 DEF TypeOK
<1>6. CursorInside' /\ WithinLimits'
  BY <1>0, <1>1, <1>2, <1>4 DEF CursorInside, WithinLimits
<1>7. LedgerExact'
  BY <1>0, <1>1, <1>2, <1>3, <1>4, Measures DEF LedgerExact
<1>8. TrailDiscipline'
  <2>1. /\ \A i \in 1 .. Len(bt) : bt[i].mark <= mark
        /\ \A i, j \in 1 .. Len(bt) : i <= j => bt[i].mark <= bt[j].mark
    BY <1>0, <1>1 DEF TrailDiscipline
  <2>2. mark <= Len(trail')
    BY <1>1, <1>3
  <2>3. \A i \in 1 .. Len(bt) : bt[i].mark <= Len(trail')
    <3>1. /\ \A i \in 1 .. Len(bt) : bt[i].mark \in Nat
          /\ Len(trail') \in Int
      BY SMTT(30), <1>1, <1>3, Measures
    <3>2. SUFFICES ASSUME NEW i \in 1 .. Len(bt)
                   PROVE  bt[i].mark <= Len(trail')
      OBVIOUS
    <3>3. bt[i].mark \in Nat /\ bt[i].mark <= mark
      BY <2>1, <3>1
    <3>4. mark \in Nat
      BY <1>1
    <3>5. QED BY <2>2, <3>1, <3>3, <3>4
  <2>4. QED BY <1>1, <2>1, <2>2, <2>3 DEF TrailDiscipline
<1>9. AttemptsApart' /\ NoSplitCrlf'
  BY <1>0, <1>1, <1>4 DEF AttemptsApart, NoSplitCrlf
<1>10. QED BY <1>2, <1>5, <1>6, <1>7, <1>8, <1>9 DEF IInv

\* Going on from a choice point is safe once its replay is done.
LEMMA ResumeSafe == IInv /\ Resume => IInv'
<1> SUFFICES ASSUME IInv, Resume PROVE IInv'
  OBVIOUS
<1>0. /\ call \in Calls /\ TypeOK /\ CursorInside /\ WithinLimits /\ LedgerExact
      /\ TrailDiscipline /\ AttemptsApart /\ NoSplitCrlf
  BY DEF IInv
<1>1. /\ phase = "undo" /\ phase' = "run" /\ Len(trail) <= mark
      /\ trail' = IF bt = <<>> THEN <<>> ELSE trail
      /\ UNCHANGED <<call, result, pc, pos, attempt, mark, regs, bt, btcap,
                     trailcap, cost, mem, peak, stackpeak, ov, use>>
  BY DEF Resume, cursor, space, answer
<1>2. call' \in Calls /\ Re' = Re /\ Setup(call)' = Setup(call)
  BY <1>0, <1>1 DEF Re, Setup
<1>3. /\ trail' \in Seq([slot : Nat, old : Nat \cup {UNSET}])
      /\ Len(trail') <= Len(trail) /\ Len(trail) \in Nat /\ Len(trail') \in Nat
      /\ bt # <<>> => trail' = trail
      /\ bt = <<>> => trail' = <<>> /\ Len(bt) = 0
  <2>1. trail \in Seq([slot : Nat, old : Nat \cup {UNSET}]) /\ Len(trail) \in Nat
    BY <1>0, Measures DEF TypeOK
  <2>2. CASE bt = <<>>
    BY <1>1, <2>1, <2>2, EmptySeq
  <2>3. CASE bt # <<>>
    BY <1>1, <2>1, <2>3
  <2>4. QED BY <2>2, <2>3
<1>4. phase \in Live /\ phase' \in Live /\ phase' \in Phases
  BY <1>1 DEF Live, Phases
<1>5. TypeOK'
  BY <1>0, <1>1, <1>2, <1>3, <1>4 DEF TypeOK
<1>6. CursorInside' /\ WithinLimits'
  BY <1>0, <1>1, <1>2, <1>4 DEF CursorInside, WithinLimits
<1>7. LedgerExact'
  BY <1>0, <1>1, <1>2, <1>3, <1>4, Measures DEF LedgerExact
<1>8. TrailDiscipline'
  <2>1. /\ \A i \in 1 .. Len(bt) : bt[i].mark <= Len(trail)
        /\ \A i, j \in 1 .. Len(bt) : i <= j => bt[i].mark <= bt[j].mark
    BY <1>0, <1>1 DEF TrailDiscipline
  <2>2. CASE bt = <<>>
    BY <1>1, <1>3, <2>2 DEF TrailDiscipline
  <2>3. CASE bt # <<>>
    BY <1>1, <1>3, <2>1, <2>3 DEF TrailDiscipline
  <2>4. QED BY <2>2, <2>3
<1>9. AttemptsApart' /\ NoSplitCrlf'
  BY <1>0, <1>1, <1>4 DEF AttemptsApart, NoSplitCrlf
<1>10. QED BY <1>2, <1>5, <1>6, <1>7, <1>8, <1>9 DEF IInv

\* Taking the latest choice point off, or refusing its replay, is safe.
LEMMA BacktrackSafe == IInv /\ Backtrack => IInv'
<1> SUFFICES ASSUME IInv, Backtrack PROVE IInv'
  OBVIOUS
<1>0. /\ call \in Calls /\ TypeOK /\ CursorInside /\ WithinLimits /\ LedgerExact
      /\ TrailDiscipline /\ AttemptsApart /\ NoSplitCrlf
  BY DEF IInv
<1> DEFINE entry == bt[Len(bt)]
           replay == (Len(trail) - entry.mark) * REG_SIZE
<1>1. /\ phase = "fail" /\ bt # <<>>
      /\ bt' = SubSeq(bt, 1, Len(bt) - 1)
      /\ pc' = entry.pc /\ pos' = entry.pos
      /\ \/ /\ phase' = "stop" /\ result' = "RESOURCE_EXCEEDED"
            /\ UNCHANGED <<cost, mark>>
         \/ /\ replay <= call.costlimit - cost
            /\ phase' = "undo" /\ mark' = entry.mark /\ cost' = cost + replay
            /\ UNCHANGED result
      /\ UNCHANGED <<call, attempt, regs, btcap, trail, trailcap, mem, peak,
                     stackpeak, ov, use>>
  BY DEF Backtrack, space, answer
<1>2. call' \in Calls /\ Re' = Re /\ Setup(call)' = Setup(call)
  BY <1>0, <1>1 DEF Re, Setup
<1>3. phase \in Live /\ phase # "idle" /\ phase' \in Live /\ phase' \in Phases
      /\ result' \in Statuses
  BY <1>0, <1>1 DEF Live, Phases, Statuses, TypeOK
<1>4. /\ bt' \in Seq([pc : Nat, pos : Nat, mark : Nat])
      /\ Len(bt') = Len(bt) - 1 /\ Len(bt) \in Nat \ {0}
      /\ \A i \in 1 .. (Len(bt) - 1) : bt'[i] = bt[i]
      /\ entry \in [pc : Nat, pos : Nat, mark : Nat]
  <2>1. bt \in Seq([pc : Nat, pos : Nat, mark : Nat])
    BY <1>0 DEF TypeOK
  <2>2. QED BY <1>1, <2>1, AllButLast
<1>5. /\ Len(bt) \in 1 .. Len(bt)
      /\ \A i \in 1 .. Len(bt') : i \in 1 .. Len(bt) /\ bt'[i] = bt[i]
  <2>1. Len(bt) \in 1 .. Len(bt)
    BY <1>4
  <2>2. 1 .. Len(bt') = 1 .. (Len(bt) - 1)
    BY <1>4
  <2>3. \A i \in 1 .. (Len(bt) - 1) : i \in 1 .. Len(bt)
    BY <1>4
  <2>4. QED BY <1>4, <2>1, <2>2, <2>3
<1>6. /\ entry.pc < Len(Re.code) /\ entry.pos <= Size(call) /\ attempt <= entry.pos
      /\ entry.mark <= Len(trail)
      /\ \A i \in 1 .. Len(bt') : bt'[i].mark <= entry.mark
  <2>1. /\ \A i \in 1 .. Len(bt) : bt[i].pc < Len(Re.code) /\ bt[i].pos <= Size(call)
        /\ \A i \in 1 .. Len(bt) : attempt <= bt[i].pos
        /\ \A i \in 1 .. Len(bt) : bt[i].mark <= Len(trail)
        /\ \A i, j \in 1 .. Len(bt) : i <= j => bt[i].mark <= bt[j].mark
    BY <1>0, <1>1, <1>3 DEF CursorInside, AttemptsApart, TrailDiscipline
  <2>2. \A i \in 1 .. Len(bt') : i <= Len(bt)
    BY <1>4
  <2>3. QED BY <1>5, <2>1, <2>2
<1>7. /\ entry.pc \in Nat /\ entry.pos \in Nat /\ entry.mark \in Nat
  BY <1>4
<1>8. cost' \in Nat /\ cost' <= call.costlimit /\ mark' \in Nat
  <2>1. /\ cost \in Nat /\ cost <= call.costlimit /\ call.costlimit \in Nat
        /\ Len(trail) \in Nat /\ mark \in Nat
    BY <1>0, <1>3, Measures, Ledger, CallTyped DEF TypeOK
  <2>2. replay \in Nat
    BY <1>6, <1>7, <2>1 DEF REG_SIZE
  <2> HIDE DEF replay, entry
  <2>3. QED BY <1>1, <1>7, <2>1, <2>2
<1> HIDE DEF entry, replay
<1>9. TypeOK'
  BY <1>0, <1>1, <1>2, <1>3, <1>4, <1>7, <1>8 DEF TypeOK
<1>10. CursorInside'
  BY <1>0, <1>1, <1>2, <1>3, <1>5, <1>6 DEF CursorInside
<1>11. WithinLimits'
  <2>1. Len(bt') <= stackpeak /\ mem <= peak /\ peak <= call.memlimit
        /\ stackpeak <= call.stacklimit
    <3>1. Len(bt) <= stackpeak /\ stackpeak \in Nat
      BY <1>3, Ledger, Measures
    <3>2. Len(bt') <= stackpeak
      BY <1>4, <3>1
    <3>3. QED BY <1>3, <3>2, Ledger
  <2>2. QED BY <1>0, <1>1, <1>3, <1>8, <2>1 DEF WithinLimits
<1>12. LedgerExact'
  <2>1. Len(bt) <= btcap /\ btcap \in Nat
    BY <1>3, Ledger, Measures
  <2>2. Len(bt') <= btcap
    BY <1>4, <2>1
  <2>3. QED BY <1>0, <1>1, <1>2, <1>3, <2>2 DEF LedgerExact
<1>13. TrailDiscipline'
  <2>1. CASE phase' = "stop"
    BY <2>1 DEF TrailDiscipline
  <2>2. CASE phase' = "undo" /\ mark' = entry.mark
    <3>1. /\ \A i \in 1 .. Len(bt) : bt[i].mark <= Len(trail)
          /\ \A i, j \in 1 .. Len(bt) : i <= j => bt[i].mark <= bt[j].mark
      BY <1>0, <1>1 DEF TrailDiscipline
    <3>2. /\ \A i \in 1 .. Len(bt') : bt'[i].mark <= Len(trail)
          /\ \A i, j \in 1 .. Len(bt') : i <= j => bt'[i].mark <= bt'[j].mark
      BY <1>5, <3>1
    <3>3. QED BY <1>1, <1>6, <2>2, <3>2 DEF TrailDiscipline
  <2>3. QED BY <1>1, <2>1, <2>2
<1>14. AttemptsApart'
  <2>1. \A i \in 1 .. Len(bt) : attempt <= bt[i].pos
    BY <1>0, <1>3 DEF AttemptsApart
  <2>2. \A i \in 1 .. Len(bt') : attempt <= bt'[i].pos
    BY <1>5, <2>1
  <2>3. QED BY <1>1, <1>6, <2>2 DEF AttemptsApart
<1>15. NoSplitCrlf'
  BY <1>0, <1>1, <1>3 DEF NoSplitCrlf
<1>16. QED BY <1>2, <1>9, <1>10, <1>11, <1>12, <1>13, <1>14, <1>15 DEF IInv

\* The bumpalong that steps over a CRLF lands where none is split: what it
\* skipped to stands after a LF, not after a CR.
LEMMA BumpsPastCrlf ==
  ASSUME NEW c \in CallTypes, NEW a \in Nat
  PROVE  /\ SplitsCrlf(c, a + 1) => a + 2 <= Size(c) /\ ~SplitsCrlf(c, a + 2)
         /\ a < Size(c) => a + 1 <= Size(c)
<1>1. Size(c) \in Nat
  BY DEF CallTypes, Size
<1>2. a < Size(c) => a + 1 <= Size(c)
  BY <1>1
<1>3. ASSUME SplitsCrlf(c, a + 1) PROVE a + 2 <= Size(c) /\ ~SplitsCrlf(c, a + 2)
  <2>1. a + 1 < Size(c) /\ At(c.subj, a + 1) = "LF"
    BY <1>3 DEF SplitsCrlf
  <2>2. (a + 2) - 1 = a + 1
    OBVIOUS
  <2>3. SplitsCrlf(c, a + 2) => At(c.subj, a + 1) = "CR"
    BY <2>2 DEF SplitsCrlf
  <2>4. QED BY <1>1, <2>1, <2>3
<1>4. QED BY <1>2, <1>3

\* The next start offset is in the subject and splits no CRLF.
LEMMA NextAttemptSafe == IInv /\ NextAttempt => IInv'
<1> SUFFICES ASSUME IInv, NextAttempt PROVE IInv'
  OBVIOUS
<1>0. /\ call \in Calls /\ TypeOK /\ CursorInside /\ WithinLimits /\ LedgerExact
      /\ TrailDiscipline /\ AttemptsApart /\ NoSplitCrlf
  BY DEF IInv
<1>1. /\ phase = "next"
      /\ \/ phase' = "stop" /\ attempt' = attempt
         \/ /\ attempt < Size(call) /\ phase' = "attempt"
            /\ attempt' = IF SplitsCrlf(call, attempt + 1) THEN attempt + 2
                          ELSE attempt + 1
      /\ UNCHANGED <<call, result, pc, pos, mark, regs, bt, btcap, trail,
                     trailcap, cost, mem, peak, stackpeak, ov, use>>
  BY DEF NextAttempt, Bump, scratch, space, answer
<1>2. call' \in Calls /\ Re' = Re /\ Setup(call)' = Setup(call)
  BY <1>0, <1>1 DEF Re, Setup
<1>3. phase \in Live /\ phase' \in Live /\ phase' \in Phases
  BY <1>1 DEF Live, Phases
<1>4. /\ attempt \in Nat /\ call.start <= attempt /\ attempt <= Size(call)
      /\ call \in CallTypes /\ call.start \in Nat
  BY <1>0, <1>3, CallTyped DEF TypeOK, CursorInside
<1>5. bt = <<>> /\ trail = <<>> /\ \A i \in 1 .. Len(bt) : FALSE
  BY <1>0, <1>1 DEF AttemptsApart
<1>6. /\ attempt' \in Nat /\ call.start <= attempt' /\ attempt' <= Size(call)
      /\ attempt' # call.start => ~SplitsCrlf(call, attempt')
  <2>1. CASE attempt' = attempt
    BY <1>0, <1>3, <1>4, <2>1 DEF NoSplitCrlf
  <2>2. CASE attempt < Size(call) /\ SplitsCrlf(call, attempt + 1)
             /\ attempt' = attempt + 2
    BY <1>4, <2>2, BumpsPastCrlf
  <2>3. CASE attempt < Size(call) /\ ~SplitsCrlf(call, attempt + 1)
             /\ attempt' = attempt + 1
    BY <1>4, <2>3, BumpsPastCrlf
  <2>4. QED BY <1>1, <2>1, <2>2, <2>3
<1>7. TypeOK'
  BY <1>0, <1>1, <1>2, <1>3, <1>6 DEF TypeOK
<1>8. CursorInside'
  BY <1>0, <1>1, <1>2, <1>3, <1>6 DEF CursorInside
<1>9. WithinLimits' /\ LedgerExact'
  BY <1>0, <1>1, <1>2, <1>3 DEF WithinLimits, LedgerExact
<1>10. TrailDiscipline' /\ AttemptsApart'
  BY <1>1, <1>5 DEF TrailDiscipline, AttemptsApart
<1>11. NoSplitCrlf'
  BY <1>1, <1>6 DEF NoSplitCrlf
<1>12. QED BY <1>2, <1>7, <1>8, <1>9, <1>10, <1>11 DEF IInv

\* Handing the answer over is safe, whether or not the budget reaches it.
LEMMA FinishSafe == IInv /\ Finish => IInv'
<1> SUFFICES ASSUME IInv, Finish PROVE IInv'
  OBVIOUS
<1>0. /\ call \in Calls /\ TypeOK /\ CursorInside /\ WithinLimits /\ LedgerExact
      /\ TrailDiscipline /\ AttemptsApart /\ NoSplitCrlf
  BY DEF IInv
<1> DEFINE deliver == Novec(Re) * REG_SIZE
           affords == deliver <= call.costlimit - cost
           spent == IF result = "MATCHED" /\ affords THEN cost + deliver ELSE cost
<1>1. /\ phase = "stop" /\ phase' = "done" /\ cost' = spent
      /\ result' \in {"RESOURCE_EXCEEDED", result}
      /\ use' = [cost |-> spent, stack |-> stackpeak, mem |-> peak]
      /\ UNCHANGED <<call, pc, pos, attempt, mark, regs, bt, btcap, trail,
                     trailcap, mem, peak, stackpeak>>
  BY DEF Finish, cursor, scratch, space
<1>2. call' \in Calls /\ Re' = Re /\ Setup(call)' = Setup(call)
  BY <1>0, <1>1 DEF Re, Setup
<1>3. /\ phase \in Live /\ phase' \notin Live /\ phase' \in Phases
      /\ result' \in Statuses
  BY <1>0, <1>1 DEF Live, Phases, Statuses, TypeOK
<1>4. spent \in Nat /\ spent <= call.costlimit
  <2>1. deliver \in Nat /\ call.costlimit \in Nat
    BY <1>0, CallTyped DEF REG_SIZE
  <2>2. cost \in Nat /\ cost <= call.costlimit
    BY <1>3, Measures, Ledger
  <2> HIDE DEF deliver
  <2>3. QED BY <2>1, <2>2
<1> HIDE DEF spent
<1>5. /\ use' \in [cost : Nat, stack : Nat, mem : Nat]
      /\ use'.cost = spent /\ use'.stack = stackpeak /\ use'.mem = peak
  BY <1>1, <1>4, Measures
<1>6. TypeOK'
  BY <1>0, <1>1, <1>2, <1>3, <1>4, <1>5 DEF TypeOK
<1>7. CursorInside' /\ LedgerExact' /\ NoSplitCrlf'
  BY <1>3 DEF CursorInside, LedgerExact, NoSplitCrlf
<1>8. WithinLimits'
  <2>1. stackpeak <= call.stacklimit /\ peak <= call.memlimit
    BY <1>3, Ledger
  <2>2. QED BY <1>1, <1>3, <1>4, <1>5, <2>1 DEF WithinLimits
<1>9. TrailDiscipline' /\ AttemptsApart'
  BY <1>1 DEF TrailDiscipline, AttemptsApart, Live
<1>10. QED BY <1>2, <1>6, <1>7, <1>8, <1>9 DEF IInv

\* Entering a call is safe, refused or not.
LEMMA BtMatchSafe == IInv /\ BtMatch(call) => IInv'
<1> SUFFICES ASSUME IInv, BtMatch(call) PROVE IInv'
  OBVIOUS
<1>0. call \in Calls /\ TypeOK /\ phase = "idle" /\ Enter(call, 0, 0)
  BY DEF IInv, BtMatch
<1>1. /\ call' = call /\ call' \in Calls /\ Re' = Re
      /\ Setup(call)' = Setup(call)
  BY <1>0 DEF Enter, Re, Setup
<1>2. /\ Setup(call) \in Nat /\ call.start \in Nat /\ Size(call) \in Nat
      /\ call.costlimit \in Nat /\ call.stacklimit \in Nat
      /\ call.memlimit \in Nat /\ Len(Re.code) \in Nat \ {0}
      /\ Re.nregs \in Nat
  BY <1>0, CallTyped
<1>3. /\ use' = NoUse /\ stackpeak' = 0 /\ btcap' = 0 /\ trailcap' = 0
      /\ pc' = 0 /\ pos' = call.start /\ attempt' = call.start /\ mark' = 0
      /\ (bt' = <<>> /\ trail' = <<>>) \/ (bt' = bt /\ trail' = trail)
  BY <1>0 DEF Enter
<1>4. /\ bt' \in Seq([pc : Nat, pos : Nat, mark : Nat])
      /\ trail' \in Seq([slot : Nat, old : Nat \cup {UNSET}])
      /\ use' \in [cost : Nat, stack : Nat, mem : Nat]
      /\ use'.cost = 0 /\ use'.stack = 0 /\ use'.mem = 0
  <2>1. /\ bt \in Seq([pc : Nat, pos : Nat, mark : Nat])
        /\ trail \in Seq([slot : Nat, old : Nat \cup {UNSET}])
    BY <1>0 DEF TypeOK
  <2>2. QED BY <1>3, <2>1, EmptySeq DEF NoUse
<1>5. CASE /\ phase' = "done" /\ cost' = 0 /\ mem' = 0 /\ peak' = 0
           /\ result' \in Statuses
  <2>1. phase' \notin Live /\ phase' \in Phases
    BY <1>5 DEF Live, Phases
  <2>2. TypeOK'
    BY <1>0, <1>1, <1>2, <1>3, <1>4, <1>5, <2>1 DEF TypeOK
  <2>3. CursorInside' /\ LedgerExact' /\ NoSplitCrlf'
    BY <2>1 DEF CursorInside, LedgerExact, NoSplitCrlf
  <2>4. WithinLimits'
    BY <1>1, <1>2, <1>4, <2>1 DEF WithinLimits
  <2>5. TrailDiscipline' /\ AttemptsApart'
    BY <1>5, <2>1 DEF TrailDiscipline, AttemptsApart
  <2>6. QED BY <1>1, <2>2, <2>3, <2>4, <2>5 DEF IInv
<1>6. CASE /\ call.start <= Size(call) /\ Setup(call) <= call.memlimit
           /\ Setup(call) <= call.costlimit
           /\ phase' = "attempt" /\ result' \in Statuses
           /\ regs' = Blank(Re.nregs) /\ bt' = <<>> /\ trail' = <<>>
           /\ cost' = Setup(call) /\ mem' = Setup(call) /\ peak' = Setup(call)
  <2>1. phase' \in Live /\ phase' \in Phases
    BY <1>6 DEF Live, Phases
  <2>9. Len(bt') = 0 /\ Len(trail') = 0 /\ \A i \in 1 .. Len(bt') : FALSE
    BY <1>6, EmptySeq
  <2>2. TypeOK'
    <3>1. regs' \in [Slots(Re) -> Nat \cup {UNSET}]
      BY <1>6 DEF Blank, Slots
    <3>2. QED BY <1>0, <1>1, <1>2, <1>3, <1>4, <1>6, <2>1, <3>1 DEF TypeOK
  <2>3. CursorInside'
    BY <1>1, <1>2, <1>3, <1>4, <1>6, <2>9 DEF CursorInside
  <2>4. WithinLimits'
    BY <1>1, <1>2, <1>3, <1>4, <1>6, <2>9 DEF WithinLimits
  <2>5. LedgerExact'
    BY <1>1, <1>2, <1>3, <1>4, <1>6, <2>9, BoundsAssumption
    DEF LedgerExact, BT_SIZE, UNDO_SIZE
  <2>6. TrailDiscipline' /\ AttemptsApart'
    BY <1>3, <1>4, <1>6, <2>9 DEF TrailDiscipline, AttemptsApart
  <2>7. NoSplitCrlf'
    BY <1>1, <1>3 DEF NoSplitCrlf
  <2>8. QED BY <1>1, <2>2, <2>3, <2>4, <2>5, <2>6, <2>7 DEF IInv
<1>7. QED
  <2>1. CASE call.start > Size(call)
    BY <1>0, <1>5, <2>1 DEF Enter, Statuses
  <2>2. CASE ~(call.start > Size(call))
             /\ (Setup(call) > call.memlimit \/ Setup(call) > call.costlimit)
    BY <1>0, <1>5, <2>2 DEF Enter, Statuses
  <2>3. CASE ~(call.start > Size(call))
             /\ ~(Setup(call) > call.memlimit \/ Setup(call) > call.costlimit)
    <3>1. /\ call.start <= Size(call) /\ Setup(call) <= call.memlimit
          /\ Setup(call) <= call.costlimit
      BY <1>2, <2>3
    <3>2. /\ phase' = "attempt" /\ result' \in Statuses
          /\ regs' = Blank(call.re.nregs) /\ bt' = <<>> /\ trail' = <<>>
          /\ cost' = Setup(call) /\ mem' = Setup(call) /\ peak' = Setup(call)
      BY <1>0, <2>3 DEF Enter, Statuses
    <3>3. QED BY <1>6, <3>1, <3>2 DEF Re
  <2>4. QED BY <2>1, <2>2, <2>3

-----------------------------------------------------------------------------
(* The theorems.                                                           *)

\* The invariant holds before a call.
LEMMA InitSafe == Init => IInv
<1> SUFFICES ASSUME Init PROVE IInv
  OBVIOUS
<1>1. /\ call \in Calls /\ phase = "idle" /\ result = "NO_MATCH"
      /\ pc = 0 /\ pos = 0 /\ attempt = 0 /\ mark = 0
      /\ bt = <<>> /\ btcap = 0 /\ trail = <<>> /\ trailcap = 0
      /\ cost = 0 /\ mem = 0 /\ peak = 0 /\ stackpeak = 0 /\ use = NoUse
  BY DEF Init
<1>2. /\ phase \notin Live /\ phase \in Phases /\ result \in Statuses
      /\ use \in [cost : Nat, stack : Nat, mem : Nat]
      /\ call \in CallTypes
  BY <1>1, CallsAssumption DEF Live, Phases, Statuses, NoUse
<1>3. TypeOK
  BY <1>1, <1>2, EmptySeq DEF TypeOK
<1>4. /\ CursorInside /\ WithinLimits /\ LedgerExact /\ TrailDiscipline
      /\ AttemptsApart /\ NoSplitCrlf
  BY <1>1, <1>2 DEF CursorInside, WithinLimits, LedgerExact, TrailDiscipline,
                    AttemptsApart, NoSplitCrlf
<1>5. QED BY <1>1, <1>3, <1>4 DEF IInv

\* Every step keeps it.
LEMMA StepSafe == IInv /\ [Next]_vars => IInv'
<1> SUFFICES ASSUME IInv, [Next]_vars PROVE IInv'
  OBVIOUS
<1>1. CASE Next
  <2>1. CASE BtMatch(call)
    BY <2>1, BtMatchSafe
  <2>2. CASE BeginAttempt
    BY <2>2, BeginAttemptSafe
  <2>3. CASE Execute
    BY <2>3, EatSafe, AssertionSafe, JumpSafe, SaveSafe, RepZeroSafe,
       RepEnterSafe, SplitSafe, RepLoopSafe, RepNextSafe, AcceptSafe,
       OutOfCostSafe DEF Execute
  <2>4. CASE Exhaust
    BY <2>4, ExhaustSafe
  <2>5. CASE Backtrack
    BY <2>5, BacktrackSafe
  <2>6. CASE Undo
    BY <2>6, UndoSafe
  <2>7. CASE Resume
    BY <2>7, ResumeSafe
  <2>8. CASE NextAttempt
    BY <2>8, NextAttemptSafe
  <2>9. CASE Finish
    BY <2>9, FinishSafe
  <2>10. CASE UNCHANGED vars
    <3>1. UNCHANGED <<call, phase, result, pc, pos, attempt, mark, regs, bt,
                      btcap, trail, trailcap, cost, mem, peak, stackpeak, ov, use>>
      BY <2>10 DEF vars, cursor, scratch, space, answer
    <3>2. QED
      BY <3>1 DEF IInv, TypeOK, CursorInside, WithinLimits, LedgerExact,
                  TrailDiscipline, AttemptsApart, NoSplitCrlf, Re, Setup
  <2>11. QED
    BY <1>1, <2>1, <2>2, <2>3, <2>4, <2>5, <2>6, <2>7, <2>8, <2>9, <2>10
       DEF Next, Run, Returned
<1>2. CASE UNCHANGED vars
  <2>1. UNCHANGED <<call, phase, result, pc, pos, attempt, mark, regs, bt,
                    btcap, trail, trailcap, cost, mem, peak, stackpeak, ov, use>>
    BY <1>2 DEF vars, cursor, scratch, space, answer
  <2>2. QED
    BY <2>1 DEF IInv, TypeOK, CursorInside, WithinLimits, LedgerExact,
                TrailDiscipline, AttemptsApart, NoSplitCrlf, Re, Setup
<1>3. QED BY <1>1, <1>2

\* The inductive invariant holds throughout every run.
LEMMA Invariance == Spec => []IInv
<1>1. Init => IInv
  BY InitSafe
<1>2. IInv /\ [Next]_vars => IInv'
  BY StepSafe
<1>3. QED BY <1>1, <1>2, PTL DEF Spec

\* The state keeps its types, for every program and every subject.
THEOREM TypesHold == Spec => []TypeOK
<1>1. IInv => TypeOK
  BY DEF IInv
<1>2. QED BY <1>1, Invariance, PTL

\* No instruction outside the program and no byte outside the subject is read.
THEOREM CursorHolds == Spec => []CursorInside
<1>1. IInv => CursorInside
  BY DEF IInv
<1>2. QED BY <1>1, Invariance, PTL

\* No limit of the caller is exceeded at any moment of any run.
THEOREM LimitsHold == Spec => []WithinLimits
<1>1. IInv => WithinLimits
  BY DEF IInv
<1>2. QED BY <1>1, Invariance, PTL

\* The memory charged is what the arrays hold, and they fit their bounds.
THEOREM LedgerHolds == Spec => []LedgerExact
<1>1. IInv => LedgerExact
  BY DEF IInv
<1>2. QED BY <1>1, Invariance, PTL

\* Every replay of the undo trail goes back a non-negative number of entries.
THEOREM TrailHolds == Spec => []TrailDiscipline
<1>1. IInv => TrailDiscipline
  BY DEF IInv
<1>2. QED BY <1>1, Invariance, PTL

\* Attempts do not share choice points, and none looks left of its start.
THEOREM AttemptsHold == Spec => []AttemptsApart
<1>1. IInv => AttemptsApart
  BY DEF IInv
<1>2. QED BY <1>1, Invariance, PTL

\* The bumpalong never starts an attempt inside a CRLF it must not split.
THEOREM CrlfHolds == Spec => []NoSplitCrlf
<1>1. IInv => NoSplitCrlf
  BY DEF IInv
<1>2. QED BY <1>1, Invariance, PTL

\* The accounts are exact and inside the caller's limits throughout every call.
THEOREM AccountsHold == Spec => []Accounts
<1>1. IInv => Accounts
  BY DEF IInv, Accounts
<1>2. QED BY <1>1, Invariance, PTL

\* Attempts are apart, inside their arrays, undone exactly, and split no CRLF.
THEOREM AttemptsSoundHold == Spec => []AttemptsSound
<1>1. IInv => AttemptsSound
  BY DEF IInv, AttemptsSound
<1>2. QED BY <1>1, Invariance, PTL

-----------------------------------------------------------------------------
(* Replaying the undo trail.                                               *)

\* With nothing above the mark there is nothing to replay.
LEMMA UnwoundAll ==
  ASSUME NEW D, NEW X, NEW E, NEW r \in [D -> X], NEW t \in Seq(E)
  PROVE  Unwound(t, r, Len(t)) = r
<1>1. \A s \in D : {k \in (Len(t) + 1) .. Len(t) : t[k].slot = s} = {}
  BY LenProperties
<1>2. QED BY <1>1 DEF Unwound

\* The trail t2 has one entry more than t, recorded when the registers went
\* from r to r2.
OneMore(t, r, t2, r2) ==
  /\ Len(t) \in Nat /\ Len(t2) = Len(t) + 1
  /\ \A k \in 1 .. Len(t) : t2[k] = t[k]
  /\ DOMAIN r = DOMAIN r2
  /\ \A s \in DOMAIN r2 : r[s] = IF s = t2[Len(t) + 1].slot
                                 THEN t2[Len(t) + 1].old ELSE r2[s]

\* The newest entry may be replayed first: a trail with one more entry, over
\* the registers it left, unwinds to the same.
LEMMA UnwoundNewest ==
  ASSUME NEW r, NEW r2, NEW t, NEW t2, OneMore(t, r, t2, r2), NEW m \in 0 .. Len(t)
  PROVE  Unwound(t2, r2, m) = Unwound(t, r, m)
<1> USE DEF OneMore
<1> DEFINE D == DOMAIN r2
           e == t2[Len(t) + 1]
<1>1. Len(t) \in Nat /\ m \in Nat
  OBVIOUS
<1> DEFINE A(s) == {k \in (m + 1) .. Len(t) : t[k].slot = s}
           B(s) == {k \in (m + 1) .. Len(t2) : t2[k].slot = s}
           Oldest(S) == CHOOSE k \in S : \A j \in S : k <= j
<1>2. ASSUME NEW s \in D
      PROVE  (IF B(s) = {} THEN r2[s] ELSE t2[Oldest(B(s))].old)
               = (IF A(s) = {} THEN r[s] ELSE t[Oldest(A(s))].old)
  <2>1. B(s) = IF s = e.slot THEN A(s) \cup {Len(t) + 1} ELSE A(s)
    BY <1>1
  <2>2. r[s] = IF s = e.slot THEN e.old ELSE r2[s]
    OBVIOUS
  <2>3. A(s) \in SUBSET Nat /\ \A k \in A(s) : k < Len(t) + 1 /\ t2[k] = t[k]
    BY <1>1
  <2> HIDE DEF A, B, Oldest
  <2>4. CASE A(s) = {}
    <3>1. CASE s = e.slot
      <4>1. B(s) = {Len(t) + 1}
        BY <2>1, <2>4, <3>1
      <4>2. Oldest(B(s)) = Len(t) + 1
        BY <1>1, <4>1 DEF Oldest
      <4>3. QED BY <2>2, <2>4, <3>1, <4>1, <4>2
    <3>2. CASE s # e.slot
      BY <2>1, <2>2, <2>4, <3>2
    <3>3. QED BY <3>1, <3>2
  <2>5. CASE A(s) # {}
    <3>1. PICK least \in A(s) : \A k \in A(s) : least <= k
      BY <2>3, <2>5, LeastOf
    <3>2. Oldest(A(s)) = least
      BY <2>3, <3>1 DEF Oldest
    <3>3. least \in B(s) /\ \A k \in B(s) : least <= k
      BY <1>1, <2>1, <2>3, <3>1
    <3>4. Oldest(B(s)) = least
      <4>1. B(s) \subseteq Nat
        BY <1>1, <2>1, <2>3
      <4>2. QED BY <3>3, <4>1 DEF Oldest
    <3>5. QED BY <2>3, <2>5, <3>1, <3>2, <3>3, <3>4
  <2>6. QED BY <2>4, <2>5
<1>3. DOMAIN r = D /\ DOMAIN r2 = D
  BY Zenon
<1>4. Unwound(t2, r2, m) = [s \in D |-> IF B(s) = {} THEN r2[s] ELSE t2[Oldest(B(s))].old]
  BY <1>3 DEF Unwound
<1>5. Unwound(t, r, m) = [s \in D |-> IF A(s) = {} THEN r[s] ELSE t[Oldest(A(s))].old]
  BY <1>3 DEF Unwound
<1> DEFINE f == Unwound(t2, r2, m)
           g == Unwound(t, r, m)
<1>6. /\ f = [s \in D |-> f[s]] /\ g = [s \in D |-> g[s]]
      /\ \A s \in D : f[s] = IF B(s) = {} THEN r2[s] ELSE t2[Oldest(B(s))].old
      /\ \A s \in D : g[s] = IF A(s) = {} THEN r[s] ELSE t[Oldest(A(s))].old
  BY <1>4, <1>5
<1> HIDE DEF f, g, A, B, Oldest
<1>7. ASSUME NEW s \in D PROVE f[s] = g[s]
  <2>1. /\ f[s] = IF B(s) = {} THEN r2[s] ELSE t2[Oldest(B(s))].old
        /\ g[s] = IF A(s) = {} THEN r[s] ELSE t[Oldest(A(s))].old
    BY <1>6
  <2>2. QED BY <1>2, <2>1
<1>8. f = g
  BY <1>6, <1>7
<1>9. QED BY <1>8 DEF f, g

-----------------------------------------------------------------------------
(* The abstract stack.                                                     *)

\* Alternatives stacked, the preferred one on top.
LEMMA StackedArms ==
  /\ Abstract!Stacked(<<>>) = <<>>
  /\ \A a : Abstract!Stacked(<<a>>) = <<a>>
  /\ \A a, b : Abstract!Stacked(<<a, b>>) = <<b, a>>
<1>1. Abstract!Stacked(<<>>) = <<>>
  BY DEF Abstract!Stacked
<1>2. ASSUME NEW a PROVE Abstract!Stacked(<<a>>) = <<a>>
  BY DEF Abstract!Stacked
<1>3. ASSUME NEW a, NEW b PROVE Abstract!Stacked(<<a, b>>) = <<b, a>>
  BY DEF Abstract!Stacked
<1>4. QED BY <1>1, <1>2, <1>3

-----------------------------------------------------------------------------
(* The abstract backtracker reads the same program.                        *)

LEMMA SameSteps ==
  /\ \A c, p, q, r : Abstract!Arms(c, p, q, r) = Arms(c, p, q, r)
  /\ \A c, began, p : Abstract!RefusesEmpty(c, began, p) = RefusesEmpty(c, began, p)
  /\ \A s, i : Abstract!At(s, i) = At(s, i)
<1>1. ASSUME NEW c, NEW p, NEW q, NEW r
      PROVE  Abstract!Arms(c, p, q, r) = Arms(c, p, q, r)
  BY DEF Arms, At, CountSlot, EntrySlot, Novec, Eats, BsrAt, NewlineAt, CrLfAt, Size,
         Holds, AtLineEnd, NewlineBefore, WordEdge, WordBytes, NONE, EaterOps, AssertOps,
         Abstract!Arms, Abstract!At, Abstract!CountSlot, Abstract!EntrySlot,
         Abstract!Novec, Abstract!Eats, Abstract!BsrAt, Abstract!NewlineAt,
         Abstract!CrLfAt, Abstract!Size, Abstract!Holds, Abstract!AtLineEnd,
         Abstract!NewlineBefore, Abstract!WordEdge, Abstract!WordBytes,
         Abstract!NONE, Abstract!EaterOps, Abstract!AssertOps
<1>2. \A c, began, p : Abstract!RefusesEmpty(c, began, p) = RefusesEmpty(c, began, p)
  BY DEF RefusesEmpty, Abstract!RefusesEmpty
<1>3. \A s, i : Abstract!At(s, i) = At(s, i)
  BY DEF At, Abstract!At
<1>4. QED BY <1>1, <1>2, <1>3

\* And begins, moves along and hands back in the same places.
LEMMA SameCalls ==
  /\ \A c : /\ Abstract!Size(c) = Size(c) /\ Abstract!Anchored(c) = Anchored(c)
            /\ Abstract!Novec(c.re) = Novec(c.re)
  /\ \A c, at : Abstract!NextStart(c, at) = Bump(at) \/ c # call
  /\ \A c, at : Abstract!Opening(c, at) = Opening(c, at)
  /\ Abstract!UNSET = UNSET
  /\ Abstract!CallTypes = CallTypes
<1>1. \A c : /\ Abstract!Size(c) = Size(c) /\ Abstract!Anchored(c) = Anchored(c)
             /\ Abstract!Novec(c.re) = Novec(c.re)
  BY DEF Size, Anchored, Novec, Abstract!Size, Abstract!Anchored, Abstract!Novec
<1>2. ASSUME NEW at PROVE Abstract!NextStart(call, at) = Bump(at)
  BY DEF Bump, SplitsCrlf, Crlfish, Size, At, Abstract!NextStart, Abstract!SplitsCrlf,
         Abstract!Crlfish, Abstract!Size, Abstract!At
<1>3. ASSUME NEW c, NEW at PROVE Abstract!Opening(c, at) = Opening(c, at)
  BY DEF Opening, Slots, UNSET, Abstract!Opening, Abstract!Slots, Abstract!UNSET
<1>4. Abstract!UNSET = UNSET
  BY DEF UNSET, Abstract!UNSET
<1>5. Abstract!CallTypes = CallTypes
  BY DEF CallTypes, Res, Insts, Reps, Certs, Polys, Degrees, NewlineTypes, MatchOptions,
         Ops, EaterOps, AssertOps, RepOps, Bytes, WordBytes, NONE,
         Abstract!CallTypes, Abstract!Res, Abstract!Insts, Abstract!Reps,
         Abstract!Certs, Abstract!Polys, Abstract!Degrees, Abstract!NewlineTypes,
         Abstract!MatchOptions, Abstract!Ops, Abstract!EaterOps, Abstract!AssertOps,
         Abstract!RepOps, Abstract!Bytes, Abstract!WordBytes, Abstract!NONE
<1>6. QED BY <1>1, <1>2, <1>3, <1>4, <1>5

-----------------------------------------------------------------------------
(* The invariant the refinement needs, and what the mapping is where.      *)

\* A status is only decided on the way out.
RInv ==
  /\ IInv
  /\ phase \in {"idle", "attempt", "run", "fail", "undo", "next"} => result = "NO_MATCH"

BarsAre ==
  /\ phase = "idle" => StackBar = <<>> /\ PhaseBar = "idle"
  /\ phase = "attempt" => StackBar = <<Opening(call, attempt)>> /\ PhaseBar = "running"
  /\ phase = "run" => StackBar = Append(Saved, Here) /\ PhaseBar = "running"
  /\ phase = "undo" =>
       /\ StackBar = Append(Saved, [pc |-> pc, pos |-> pos, regs |-> Rewound(mark)])
       /\ PhaseBar = "running"
  /\ phase \in {"fail", "next"} => StackBar = Saved /\ PhaseBar = "running"
  /\ phase = "stop" /\ result = "MATCHED" => StackBar = <<Here>> /\ PhaseBar = "found"
  /\ phase = "stop" /\ result # "MATCHED" => StackBar = <<>> /\ PhaseBar = "done"
  /\ phase = "done" => StackBar = <<>> /\ PhaseBar = "done"

\* The mapping, phase by phase, before a step and after it.
LEMMA BarsHold == BarsAre /\ BarsAre'
<1>1. BarsAre
  BY DEF BarsAre, StackBar, PhaseBar, Here
<1>2. BarsAre'
  BY DEF BarsAre, StackBar, PhaseBar, Here
<1>3. QED BY <1>1, <1>2

\* The stack of choice points is a sequence, with room for two more entries.
LEMMA SavedIsSeq ==
  ASSUME IInv, NEW x, NEW y
  PROVE  /\ Len(bt) \in Nat /\ Saved = [i \in 1 .. Len(bt) |-> Saved[i]]
         /\ \E S : Saved \in Seq(S) /\ x \in S /\ y \in S
<1> DEFINE S == {Saved[i] : i \in 1 .. Len(bt)} \cup {x, y}
<1>1. Len(bt) \in Nat
  BY Measures
<1>2. Saved = [i \in 1 .. Len(bt) |-> Saved[i]]
  BY DEF Saved
<1>3. Saved \in Seq(S) /\ x \in S /\ y \in S
  <2>1. \A i \in 1 .. Len(bt) : Saved[i] \in S
    OBVIOUS
  <2> HIDE DEF S
  <2>2. Saved \in [1 .. Len(bt) -> S]
    BY <1>2, <2>1
  <2>3. Saved \in Seq(S)
    BY <1>1, <2>2
  <2>4. QED BY <2>3 DEF S
<1>4. QED BY <1>1, <1>2, <1>3

\* The choice points keep their registers while nothing of them is touched.
LEMMA SavedStays ==
  ASSUME UNCHANGED <<bt, trail, regs>>
  PROVE  Saved' = Saved
BY DEF Saved, Rewound

\* The register file of a run in progress.
LEMMA RegsTyped ==
  ASSUME IInv, phase \in Live
  PROVE  /\ regs \in [Slots(Re) -> Nat \cup {UNSET}]
         /\ trail \in Seq([slot : Nat, old : Nat \cup {UNSET}])
         /\ Len(trail) \in Nat
BY Measures DEF IInv, TypeOK

\* Nothing is undone above the end of the trail.
LEMMA RewoundHere ==
  ASSUME IInv, phase \in Live
  PROVE  Rewound(Len(trail)) = regs
BY RegsTyped, UnwoundAll DEF Rewound

-----------------------------------------------------------------------------
(* Steps of the abstract backtracker.                                      *)

\* A limit refuses: the abstract run gives up.
LEMMA GivesUp ==
  ASSUME PhaseBar \in {"running", "found"}, PhaseBar' = "done", StackBar' = <<>>,
         result' = "RESOURCE_EXCEEDED", UNCHANGED <<call, attempt, ov>>
  PROVE  Abstract!GiveUp
BY DEF Abstract!GiveUp, Abstract!Finished

LEMMA RefuseGivesUp ==
  ASSUME phase \in {"attempt", "run"}, NEW spent, Refuse(spent)
  PROVE  Abstract!GiveUp
<1>1. phase' = "stop" /\ result' = "RESOURCE_EXCEEDED" /\ UNCHANGED <<call, attempt, ov>>
  BY DEF Refuse, cursor, answer
<1>2. PhaseBar = "running" /\ PhaseBar' = "done" /\ StackBar' = <<>>
  BY <1>1, BarsHold DEF BarsAre
<1>3. QED BY <1>1, <1>2, GivesUp

\* The configuration on top gives way to the alternatives it leads to.
LEMMA Explores ==
  ASSUME IInv, phase = "run", PhaseBar' = "running",
         UNCHANGED <<call, result, attempt, ov>>,
         Inst.op = "OpAccept" => RefusesEmpty(call, attempt, pos),
         StackBar' = Saved \o Abstract!Stacked(Arms(call, pc, pos, regs))
  PROVE  Abstract!Explore
<1>1. StackBar = Append(Saved, Here) /\ PhaseBar = "running" /\ PhaseBar' = PhaseBar
  BY BarsHold DEF BarsAre
<1>2. PICK S : Saved \in Seq(S) /\ Here \in S
  BY SavedIsSeq
<1>3. /\ StackBar # <<>> /\ Abstract!Top = Here /\ Abstract!Below = Saved
  BY <1>1, <1>2, TopOf DEF Abstract!Top, Abstract!Below
<1>4. Here.pc = pc /\ Here.pos = pos /\ Here.regs = regs
  BY DEF Here
<1>5. ~Abstract!Accepts(Here)
  BY <1>4, SameSteps DEF Abstract!Accepts, Inst, Re
<1>6. Abstract!Arms(call, Here.pc, Here.pos, Here.regs) = Arms(call, pc, pos, regs)
  BY <1>4, SameSteps
<1>7. QED BY <1>1, <1>3, <1>5, <1>6 DEF Abstract!Explore

\* Control moves on, to one configuration.
LEMMA GotoExplores ==
  ASSUME IInv, phase = "run", NEW target, NEW at, Goto(target, at),
         Inst.op # "OpAccept",
         Arms(call, pc, pos, regs) = <<[pc |-> target, pos |-> at, regs |-> regs]>>
  PROVE  Abstract!Explore
<1>1. /\ phase' = "run" /\ pc' = target /\ pos' = at
      /\ UNCHANGED <<call, result, attempt, ov, bt, trail, regs>>
  BY DEF Goto, scratch, answer
<1>2. Here' = [pc |-> target, pos |-> at, regs |-> regs]
  BY <1>1 DEF Here
<1>3. StackBar' = Append(Saved, Here') /\ PhaseBar' = "running"
  BY <1>1, BarsHold, SavedStays DEF BarsAre
<1>4. PICK S : Saved \in Seq(S) /\ Here' \in S
  BY SavedIsSeq
<1>5. StackBar' = Saved \o <<Here'>>
  BY <1>3, <1>4, TopOf
<1>6. StackBar' = Saved \o Abstract!Stacked(Arms(call, pc, pos, regs))
  BY <1>2, <1>5, StackedArms
<1>7. QED BY <1>1, <1>3, <1>6, Explores

\* The configuration on top is a dead end.
LEMMA FailsExplores ==
  ASSUME IInv, phase = "run", Fails,
         Inst.op = "OpAccept" => RefusesEmpty(call, attempt, pos),
         Arms(call, pc, pos, regs) = <<>>
  PROVE  Abstract!Explore
<1>1. phase' = "fail" /\ UNCHANGED <<call, result, attempt, ov, bt, trail, regs>>
  BY DEF Fails, scratch, cursor, answer
<1>2. StackBar' = Saved /\ PhaseBar' = "running"
  BY <1>1, BarsHold, SavedStays DEF BarsAre
<1>3. PICK S : Saved \in Seq(S)
  BY SavedIsSeq
<1>4. StackBar' = Saved \o Abstract!Stacked(Arms(call, pc, pos, regs))
  BY <1>2, <1>3, StackedArms, ConcatEmptySeq
<1>5. QED BY <1>1, <1>2, <1>4, Explores

\* A register is written, and what it held is recorded if anything could need it.
LEMMA WriteRegExplores ==
  ASSUME IInv, phase = "run", Inst.op # "OpAccept",
         NEW slot \in Slots(Re), NEW value \in Nat \cup {UNSET}, NEW target,
         WriteReg(slot, value, target),
         Arms(call, pc, pos, regs) =
           <<[pc |-> target, pos |-> pos, regs |-> [regs EXCEPT ![slot] = value]]>>
  PROVE  Abstract!Explore \/ Abstract!GiveUp
<1> DEFINE entry == [slot |-> slot, old |-> regs[slot]]
<1>1. CASE Refuse(cost + 1)
  BY <1>1, RefuseGivesUp
<1>2. CASE /\ phase' = "run" /\ pc' = target /\ regs' = [regs EXCEPT ![slot] = value]
           /\ UNCHANGED <<call, result, pos, attempt, bt, ov>>
           /\ \/ bt = <<>>
              \/ trail' = Append(trail, entry)
  <2>1. /\ regs \in [Slots(Re) -> Nat \cup {UNSET}]
        /\ trail \in Seq([slot : Nat, old : Nat \cup {UNSET}]) /\ Len(trail) \in Nat
    BY RegsTyped DEF Live
  <2>2. Saved' = Saved
    <3>1. CASE bt = <<>>
      BY <1>2, <3>1 DEF Saved
    <3>2. CASE bt # <<>> /\ trail' = Append(trail, entry)
      <4>1. slot \in Nat /\ regs[slot] \in Nat \cup {UNSET}
        BY SMTT(30), <2>1, CallTyped DEF Slots, IInv
      <4>2. /\ trail' \in Seq([slot : Nat, old : Nat \cup {UNSET}])
            /\ Len(trail') = Len(trail) + 1 /\ trail'[Len(trail) + 1] = entry
            /\ \A k \in 1 .. Len(trail) : trail'[k] = trail[k]
        BY <2>1, <3>2, <4>1, AppendProperties
      <4>3. regs' \in [Slots(Re) -> Nat \cup {UNSET}]
            /\ regs = [regs' EXCEPT ![entry.slot] = entry.old]
        BY <1>2, <2>1
      <4>4. \A m \in 0 .. Len(trail) : Unwound(trail', regs', m) = Unwound(trail, regs, m)
        <5> SUFFICES ASSUME NEW m \in 0 .. Len(trail)
                     PROVE  Unwound(trail', regs', m) = Unwound(trail, regs, m)
          OBVIOUS
        <5>1. OneMore(trail, regs, trail', regs')
          BY <2>1, <4>2, <4>3 DEF OneMore
        <5>2. QED BY <5>1, UnwoundNewest
      <4>5. \A i \in 1 .. Len(bt) : bt[i].mark \in 0 .. Len(trail)
        BY Measures DEF IInv, TrailDiscipline
      <4>6. QED BY <1>2, <4>4, <4>5 DEF Saved, Rewound
    <3>3. QED BY <1>2, <3>1, <3>2
  <2>3. StackBar' = Append(Saved, Here') /\ PhaseBar' = "running"
    BY <1>2, <2>2, BarsHold DEF BarsAre
  <2>4. Here' = [pc |-> target, pos |-> pos, regs |-> [regs EXCEPT ![slot] = value]]
    BY <1>2 DEF Here
  <2>5. PICK S : Saved \in Seq(S) /\ Here' \in S
    BY SavedIsSeq
  <2>6. StackBar' = Saved \o <<Here'>>
    BY <2>3, <2>5, TopOf
  <2>7. StackBar' = Saved \o Abstract!Stacked(Arms(call, pc, pos, regs))
    BY <2>4, <2>6, StackedArms
  <2>8. QED BY <1>2, <2>3, <2>7, Explores
<1>3. QED
  BY <1>1, <1>2 DEF WriteReg, answer

\* The second choice stays on the stack, and the first is explored.
LEMMA ForkExplores ==
  ASSUME IInv, phase = "run", Inst.op # "OpAccept", NEW first, NEW second,
         Fork(first, second),
         Arms(call, pc, pos, regs) = <<[pc |-> first, pos |-> pos, regs |-> regs],
                                       [pc |-> second, pos |-> pos, regs |-> regs]>>
  PROVE  Abstract!Explore \/ Abstract!GiveUp
<1>1. CASE Refuse(cost + 1)
  BY <1>1, RefuseGivesUp
<1>2. CASE /\ bt' = Append(bt, [pc |-> second, pos |-> pos, mark |-> Len(trail)])
           /\ pc' = first
           /\ UNCHANGED <<call, phase, result, pos, attempt, regs, trail, ov>>
  <2> DEFINE other == [pc |-> second, pos |-> pos, regs |-> regs]
             old == [pc : Nat, pos : Nat, mark : Nat]
             new == [pc |-> second, pos |-> pos, mark |-> Len(trail)]
  <2>1. /\ Len(bt) \in Nat /\ Len(bt') = Len(bt) + 1 /\ bt'[Len(bt) + 1] = new
        /\ \A i \in 1 .. Len(bt) : bt'[i] = bt[i]
    <3>1. bt \in Seq(old)
      BY DEF IInv, TypeOK
    <3>2. bt \in Seq(old \cup {new}) /\ new \in old \cup {new}
      BY <3>1, SeqMonotonic
    <3> HIDE DEF old, new
    <3>3. QED BY <1>2, <3>2, AppendProperties, LenProperties DEF new
  <2>2. Rewound(Len(trail)) = regs /\ \A m : Rewound(m)' = Rewound(m)
    BY <1>2, RewoundHere DEF Rewound, Live
  <2>3. PICK S : Saved \in Seq(S) /\ other \in S /\ Here' \in S
    <3>1. PICK S : Saved \in Seq(S) /\ other \in S /\ Here' \in S
      BY SavedIsSeq
    <3>2. QED BY <3>1
  <2>4. Saved' = Append(Saved, other)
    <3>1. /\ Append(Saved, other) \in Seq(S) /\ Len(Append(Saved, other)) = Len(bt) + 1
          /\ \A i \in 1 .. Len(bt) : Append(Saved, other)[i] = Saved[i]
          /\ Append(Saved, other)[Len(bt) + 1] = other
      <4>1. Len(Saved) = Len(bt)
        BY <2>1 DEF Saved
      <4>2. QED BY <2>3, <4>1, AppendProperties
    <3>2. Append(Saved, other) =
            [i \in 1 .. (Len(bt) + 1) |-> Append(Saved, other)[i]]
      BY <3>1, LenProperties
    <3>3. Saved' = [i \in 1 .. (Len(bt) + 1) |-> Saved'[i]]
      BY <2>1 DEF Saved
    <3>4. \A i \in 1 .. (Len(bt) + 1) : Saved'[i] = Append(Saved, other)[i]
      <4>1. ASSUME NEW i \in 1 .. Len(bt) PROVE Saved'[i] = Saved[i]
        BY <2>1, <2>2 DEF Saved
      <4>2. Saved'[Len(bt) + 1] = other
        BY <2>1, <2>2 DEF Saved
      <4>3. QED BY <2>1, <3>1, <4>1, <4>2
    <3>5. QED BY <3>2, <3>3, <3>4
  <2>5. StackBar' = Append(Saved', Here') /\ PhaseBar' = "running"
    BY <1>2, BarsHold DEF BarsAre
  <2>6. Here' = [pc |-> first, pos |-> pos, regs |-> regs]
    BY <1>2 DEF Here
  <2>7. StackBar' = Saved \o <<other, Here'>>
    <3>1. Append(Saved, other) \in Seq(S)
      BY <2>3, AppendProperties
    <3>2. StackBar' = (Saved \o <<other>>) \o <<Here'>>
      BY <2>3, <2>4, <2>5, <3>1, TopOf
    <3>3. /\ <<other>> \in Seq(S) /\ <<Here'>> \in Seq(S)
          /\ <<other>> \o <<Here'>> = <<other, Here'>>
      BY <2>3, Pair
    <3>4. QED BY <2>3, <3>2, <3>3, ConcatAssociative
  <2>8. StackBar' = Saved \o Abstract!Stacked(Arms(call, pc, pos, regs))
    BY <2>6, <2>7, StackedArms
  <2>9. QED BY <1>2, <2>5, <2>8, Explores
<1>3. QED BY <1>1, <1>2 DEF Fork, answer

-----------------------------------------------------------------------------
(* Visiting an instruction.                                                *)

\* The configurations an instruction leads to, instruction by instruction.
LEMMA ArmsAre ==
  /\ Inst = At(call.re.code, pc) /\ Rep = At(call.re.reps, Inst.arg)
  /\ Inst.op \in EaterOps =>
       Arms(call, pc, pos, regs) =
         IF Eats(call, Inst, pos) = 0 THEN <<>>
         ELSE <<[pc |-> pc + 1, pos |-> pos + Eats(call, Inst, pos), regs |-> regs]>>
  /\ Inst.op \in AssertOps =>
       Arms(call, pc, pos, regs) =
         IF Holds(call, Inst.op, pos)
         THEN <<[pc |-> pc + 1, pos |-> pos, regs |-> regs]>> ELSE <<>>
  /\ Inst.op = "OpJump" =>
       Arms(call, pc, pos, regs) = <<[pc |-> Inst.arg, pos |-> pos, regs |-> regs]>>
  /\ Inst.op = "OpSplit" =>
       Arms(call, pc, pos, regs) = <<[pc |-> Inst.arg, pos |-> pos, regs |-> regs],
                                     [pc |-> Inst.alt, pos |-> pos, regs |-> regs]>>
  /\ Inst.op = "OpSave" =>
       Arms(call, pc, pos, regs) =
         <<[pc |-> pc + 1, pos |-> pos, regs |-> [regs EXCEPT ![Inst.arg] = pos]]>>
  /\ Inst.op = "OpAccept" => Arms(call, pc, pos, regs) = <<>>
<1> DEFINE inst == At(call.re.code, pc)
<1>1. Inst = inst /\ Rep = At(call.re.reps, Inst.arg)
  BY DEF Inst, Rep, Re
<1> HIDE DEF inst
<1>2. CASE inst.op \in EaterOps
  BY <1>1, <1>2 DEF Arms, inst, EaterOps, AssertOps
<1>3. CASE inst.op \in AssertOps
  BY <1>1, <1>3 DEF Arms, inst, EaterOps, AssertOps
<1>4. CASE inst.op \in {"OpJump", "OpSplit", "OpSave", "OpAccept"}
  BY <1>1, <1>4 DEF Arms, inst, EaterOps, AssertOps
<1>5. CASE inst.op \notin EaterOps \cup AssertOps \cup {"OpJump", "OpSplit", "OpSave", "OpAccept"}
  BY <1>1, <1>5 DEF inst
<1>6. QED BY <1>1, <1>2, <1>3, <1>4, <1>5 DEF inst

\* The same for the four instructions of a repetition.
LEMMA RepArmsAre ==
  ASSUME Inst.op \in RepOps
  PROVE
  LET count == regs[CountSlot(Re, Inst.arg)]
      entered == regs[EntrySlot(Re, Inst.arg)]
      spins == Rep.hi = NONE /\ entered = pos /\ count + 1 >= Rep.lo
      on(target) == [pc |-> target, pos |-> pos, regs |-> regs]
      arms == Arms(call, pc, pos, regs)
  IN
  /\ Inst.op = "OpRepZero" =>
       arms = <<[pc |-> pc + 1, pos |-> pos,
                 regs |-> [regs EXCEPT ![CountSlot(Re, Inst.arg)] = 0]]>>
  /\ Inst.op = "OpRepEnter" =>
       arms = <<[pc |-> pc + 1, pos |-> pos,
                 regs |-> [regs EXCEPT ![EntrySlot(Re, Inst.arg)] = pos]]>>
  /\ Inst.op = "OpRepLoop" =>
       arms = IF count < Rep.lo THEN <<on(Rep.body)>>
              ELSE IF Rep.hi # NONE /\ count >= Rep.hi THEN <<on(Rep.after)>>
              ELSE IF Rep.greedy THEN <<on(Rep.body), on(Rep.after)>>
              ELSE <<on(Rep.after), on(Rep.body)>>
  /\ Inst.op = "OpRepNext" =>
       arms = <<[pc |-> IF spins THEN Rep.after ELSE Rep.head, pos |-> pos,
                 regs |-> [regs EXCEPT ![CountSlot(Re, Inst.arg)] = count + 1]]>>
<1> DEFINE inst == At(call.re.code, pc)
           rep == At(call.re.reps, inst.arg)
<1>1. Inst = inst /\ Rep = rep /\ Re = call.re
  BY DEF Inst, Rep, Re
<1> HIDE DEF inst, rep
<1>2. CASE inst.op = "OpRepZero"
  BY <1>1, <1>2 DEF Arms, inst, EaterOps, AssertOps
<1>3. CASE inst.op = "OpRepEnter"
  BY <1>1, <1>3 DEF Arms, inst, EaterOps, AssertOps
<1>4. CASE inst.op = "OpRepLoop"
  BY <1>1, <1>4 DEF Arms, inst, rep, EaterOps, AssertOps
<1>5. CASE inst.op = "OpRepNext"
  BY <1>1, <1>5 DEF Arms, inst, rep, EaterOps, AssertOps
<1>6. QED BY <1>1, <1>2, <1>3, <1>4, <1>5 DEF RepOps

\* Bytes eaten.
LEMMA EatExplores == IInv /\ Eat => Abstract!Explore
<1> SUFFICES ASSUME IInv, Eat PROVE Abstract!Explore
  OBVIOUS
<1>1. phase = "run" /\ Inst.op \in EaterOps /\ Inst.op # "OpAccept"
  BY DEF Eat, Visits, EaterOps
<1>2. CASE Eats(call, Inst, pos) > 0 /\ Goto(pc + 1, pos + Eats(call, Inst, pos))
  <2>1. Eats(call, Inst, pos) # 0
    BY <1>2
  <2>2. Arms(call, pc, pos, regs) =
          <<[pc |-> pc + 1, pos |-> pos + Eats(call, Inst, pos), regs |-> regs]>>
    BY <1>1, <2>1, ArmsAre
  <2>3. QED BY <1>1, <1>2, <2>2, GotoExplores
<1>3. CASE Eats(call, Inst, pos) = 0 /\ Fails
  BY <1>1, <1>3, ArmsAre, FailsExplores
<1>4. QED BY <1>2, <1>3 DEF Eat

\* An assertion.
LEMMA AssertionExplores == IInv /\ Assertion => Abstract!Explore
<1> SUFFICES ASSUME IInv, Assertion PROVE Abstract!Explore
  OBVIOUS
<1>1. phase = "run" /\ Inst.op \in AssertOps /\ Inst.op # "OpAccept"
  BY DEF Assertion, Visits, AssertOps
<1>2. CASE Holds(call, Inst.op, pos) /\ Goto(pc + 1, pos)
  BY <1>1, <1>2, ArmsAre, GotoExplores
<1>3. CASE ~Holds(call, Inst.op, pos) /\ Fails
  BY <1>1, <1>3, ArmsAre, FailsExplores
<1>4. QED BY <1>2, <1>3 DEF Assertion

\* A jump.
LEMMA JumpExplores == IInv /\ Jump => Abstract!Explore
<1> SUFFICES ASSUME IInv, Jump PROVE Abstract!Explore
  OBVIOUS
<1>1. phase = "run" /\ Inst.op = "OpJump" /\ Goto(Inst.arg, pos)
  BY DEF Jump, Visits
<1>2. QED BY <1>1, ArmsAre, GotoExplores

\* An ordered alternative.
LEMMA SplitExplores == IInv /\ Split => Abstract!Explore \/ Abstract!GiveUp
<1> SUFFICES ASSUME IInv, Split PROVE Abstract!Explore \/ Abstract!GiveUp
  OBVIOUS
<1>1. phase = "run" /\ Inst.op = "OpSplit" /\ Fork(Inst.arg, Inst.alt)
  BY DEF Split, Visits
<1>2. QED BY <1>1, ArmsAre, ForkExplores

\* A capture.
LEMMA SaveExplores == IInv /\ Save => Abstract!Explore \/ Abstract!GiveUp
<1> SUFFICES ASSUME IInv, Save PROVE Abstract!Explore \/ Abstract!GiveUp
  OBVIOUS
<1>1. phase = "run" /\ Inst.op = "OpSave" /\ WriteReg(Inst.arg, pos, pc + 1)
  BY DEF Save, Visits
<1>2. Inst.arg \in Slots(Re) /\ pos \in Nat \cup {UNSET}
  BY <1>1, Fetched, ControlInside DEF Inst
<1>3. QED BY <1>1, <1>2, ArmsAre, WriteRegExplores

\* Entering a repetition.
LEMMA RepZeroExplores == IInv /\ RepZero => Abstract!Explore \/ Abstract!GiveUp
<1> SUFFICES ASSUME IInv, RepZero PROVE Abstract!Explore \/ Abstract!GiveUp
  OBVIOUS
<1>1. /\ phase = "run" /\ Inst.op = "OpRepZero" /\ Inst.op \in RepOps
      /\ WriteReg(CountSlot(Re, Inst.arg), 0, pc + 1)
  BY DEF RepZero, Visits, RepOps
<1>2. CountSlot(Re, Inst.arg) \in Slots(Re) /\ 0 \in Nat \cup {UNSET}
  BY <1>1, RepFetched
<1>3. QED BY <1>1, <1>2, RepArmsAre, WriteRegExplores

\* Beginning an iteration.
LEMMA RepEnterExplores == IInv /\ RepEnter => Abstract!Explore \/ Abstract!GiveUp
<1> SUFFICES ASSUME IInv, RepEnter PROVE Abstract!Explore \/ Abstract!GiveUp
  OBVIOUS
<1>1. /\ phase = "run" /\ Inst.op = "OpRepEnter" /\ Inst.op \in RepOps
      /\ WriteReg(EntrySlot(Re, Inst.arg), pos, pc + 1)
  BY DEF RepEnter, Visits, RepOps
<1>2. EntrySlot(Re, Inst.arg) \in Slots(Re) /\ pos \in Nat \cup {UNSET}
  BY <1>1, RepFetched, Fetched
<1>3. QED BY <1>1, <1>2, RepArmsAre, WriteRegExplores

\* Choosing between one more iteration and going on.
LEMMA RepLoopExplores == IInv /\ RepLoop => Abstract!Explore \/ Abstract!GiveUp
<1> SUFFICES ASSUME IInv, RepLoop PROVE Abstract!Explore \/ Abstract!GiveUp
  OBVIOUS
<1> DEFINE count == regs[CountSlot(Re, Inst.arg)]
<1>1. phase = "run" /\ Inst.op = "OpRepLoop" /\ Inst.op \in RepOps
  BY DEF RepLoop, Visits, RepOps
<1>0. count \in Int /\ Rep.lo \in Int /\ Rep.hi \in Int
  <2>1. /\ regs \in [Slots(Re) -> Nat \cup {UNSET}]
        /\ CountSlot(Re, Inst.arg) \in Slots(Re)
    BY <1>1, RepFetched, RegsTyped DEF Live
  <2>2. Rep \in Reps
    BY <1>1, Fetched, ControlInside DEF Inst, Rep
  <2>3. QED BY <2>1, <2>2 DEF Reps, UNSET, NONE
<1>2. CASE count < Rep.lo /\ Goto(Rep.body, pos)
  BY <1>1, <1>2, RepArmsAre, GotoExplores
<1>3. CASE count >= Rep.lo /\ Rep.hi # NONE /\ count >= Rep.hi /\ Goto(Rep.after, pos)
  <2>1. ~(count < Rep.lo)
    BY <1>0, <1>3
  <2>2. QED BY <1>1, <1>3, <2>1, RepArmsAre, GotoExplores
<1>4. CASE count >= Rep.lo /\ (Rep.hi = NONE \/ count < Rep.hi)
             /\ IF Rep.greedy THEN Fork(Rep.body, Rep.after) ELSE Fork(Rep.after, Rep.body)
  <2>1. ~(count < Rep.lo) /\ ~(Rep.hi # NONE /\ count >= Rep.hi)
    BY <1>0, <1>4
  <2>2. CASE Rep.greedy
    BY <1>1, <1>4, <2>1, <2>2, RepArmsAre, ForkExplores
  <2>3. CASE ~Rep.greedy
    BY <1>1, <1>4, <2>1, <2>3, RepArmsAre, ForkExplores
  <2>4. QED BY <2>2, <2>3
<1>5. QED BY <1>2, <1>3, <1>4 DEF RepLoop

\* Counting an iteration, and going round or out.
LEMMA RepNextExplores == IInv /\ RepNext => Abstract!Explore \/ Abstract!GiveUp
<1> SUFFICES ASSUME IInv, RepNext PROVE Abstract!Explore \/ Abstract!GiveUp
  OBVIOUS
<1> DEFINE slot == CountSlot(Re, Inst.arg)
           count == regs[slot] + 1
           spins == Rep.hi = NONE /\ pos = regs[EntrySlot(Re, Inst.arg)] /\ count >= Rep.lo
           target == IF spins THEN Rep.after ELSE Rep.head
<1>1. phase = "run" /\ Inst.op = "OpRepNext" /\ Inst.op \in RepOps
  BY DEF RepNext, Visits, RepOps
<1>2. WriteReg(slot, count, target)
  BY DEF RepNext
<1>3. slot \in Slots(Re) /\ count \in Nat \cup {UNSET}
  BY <1>1, RepFetched
<1>4. Arms(call, pc, pos, regs) =
        <<[pc |-> target, pos |-> pos, regs |-> [regs EXCEPT ![slot] = count]]>>
  BY <1>1, RepArmsAre
<1> HIDE DEF slot, count, target
<1>5. QED BY <1>1, <1>2, <1>3, <1>4, WriteRegExplores

\* A match is found, or refused for being empty.
LEMMA AcceptFinds == IInv /\ Accept => Abstract!Explore \/ Abstract!Find
<1> SUFFICES ASSUME IInv, Accept PROVE Abstract!Explore \/ Abstract!Find
  OBVIOUS
<1>1. phase = "run" /\ Inst.op = "OpAccept"
  BY DEF Accept, Visits
<1>2. CASE RefusesEmpty(call, attempt, pos) /\ Fails
  BY <1>1, <1>2, ArmsAre, FailsExplores
<1>3. CASE /\ ~RefusesEmpty(call, attempt, pos)
           /\ regs' = [regs EXCEPT ![0] = attempt, ![1] = pos]
           /\ phase' = "stop" /\ result' = "MATCHED"
           /\ UNCHANGED <<call, cursor, answer>>
  <2>1. UNCHANGED <<call, pc, pos, attempt, ov>>
    BY <1>3 DEF cursor, answer
  <2>2. StackBar = Append(Saved, Here) /\ PhaseBar = "running"
    BY <1>1, BarsHold DEF BarsAre
  <2>3. PICK S : Saved \in Seq(S) /\ Here \in S
    BY SavedIsSeq
  <2>4. StackBar # <<>> /\ Abstract!Top = Here
    BY <2>2, <2>3, TopOf DEF Abstract!Top
  <2>5. Here.pc = pc /\ Here.pos = pos
    BY DEF Here
  <2>6. Abstract!Accepts(Here)
    BY <1>1, <1>3, <2>5, SameSteps DEF Abstract!Accepts, Inst, Re
  <2>7. PhaseBar' = "found" /\ StackBar' = <<Here'>>
    BY <1>3, BarsHold DEF BarsAre
  <2>8. Here' = [Here EXCEPT !.regs = [Here.regs EXCEPT ![0] = attempt, ![1] = Here.pos]]
    BY <1>3, <2>1, <2>5 DEF Here
  <2>9. QED BY <1>3, <2>1, <2>2, <2>4, <2>6, <2>7, <2>8 DEF Abstract!Find
<1>4. QED BY <1>2, <1>3 DEF Accept

-----------------------------------------------------------------------------
(* The steps between visits: stutters, or one step of the abstract run.    *)

Still == UNCHANGED Abstract!snapVars

\* Sequences without choice points stand for no saved configuration.
LEMMA NoneSaved ==
  /\ bt = <<>> => Saved = <<>>
  /\ bt' = <<>> => Saved' = <<>>
<1>1. bt = <<>> => Saved = <<>>
  BY EmptySeq DEF Saved
<1>2. bt' = <<>> => Saved' = <<>>
  BY EmptySeq DEF Saved
<1>3. QED BY <1>1, <1>2

\* An attempt opens.
LEMMA BeginAttemptMaps == IInv /\ BeginAttempt => Still \/ Abstract!GiveUp
<1> SUFFICES ASSUME IInv, BeginAttempt PROVE Still \/ Abstract!GiveUp
  OBVIOUS
<1>1. phase = "attempt"
  BY DEF BeginAttempt
<1>2. CASE Refuse(cost)
  BY <1>1, <1>2, RefuseGivesUp
<1>3. CASE /\ phase' = "run" /\ regs' = Blank(Re.nregs) /\ bt' = <<>>
           /\ pc' = 0 /\ pos' = attempt
           /\ UNCHANGED <<call, result, attempt, answer>>
  <2>1. StackBar = <<Opening(call, attempt)>> /\ PhaseBar = "running"
    BY <1>1, BarsHold DEF BarsAre
  <2>2. StackBar' = Append(Saved', Here') /\ PhaseBar' = "running"
    BY <1>3, BarsHold DEF BarsAre
  <2>3. Here' = Opening(call, attempt)
    BY <1>3 DEF Here, Opening, Blank, Slots, Re
  <2>4. StackBar' = <<Opening(call, attempt)>>
    BY <1>3, <2>2, <2>3, NoneSaved
  <2>5. QED BY <1>3, <2>1, <2>2, <2>4 DEF Still, Abstract!snapVars, answer
<1>4. QED BY <1>2, <1>3 DEF BeginAttempt

\* An attempt ends with nothing left to return to.
LEMMA ExhaustMaps == IInv /\ Exhaust => Still
<1> SUFFICES ASSUME IInv, Exhaust PROVE Still
  OBVIOUS
<1>1. /\ phase = "fail" /\ phase' = "next" /\ bt = <<>> /\ bt' = <<>>
      /\ UNCHANGED <<call, result, attempt, ov>>
  BY DEF Exhaust, cursor, answer
<1>2. StackBar = <<>> /\ StackBar' = <<>> /\ PhaseBar = "running" /\ PhaseBar' = "running"
  BY <1>1, NoneSaved, BarsHold DEF BarsAre
<1>3. QED BY <1>1, <1>2 DEF Still, Abstract!snapVars

\* The latest choice point becomes the configuration to explore, with the
\* registers replaying the trail will give it.
LEMMA BacktrackMaps == IInv /\ Backtrack => Still \/ Abstract!GiveUp
<1> SUFFICES ASSUME IInv, Backtrack PROVE Still \/ Abstract!GiveUp
  OBVIOUS
<1> DEFINE entry == bt[Len(bt)]
           last == [pc |-> entry.pc, pos |-> entry.pos, regs |-> Rewound(entry.mark)]
<1>1. /\ phase = "fail" /\ bt # <<>> /\ bt' = SubSeq(bt, 1, Len(bt) - 1)
      /\ pc' = entry.pc /\ pos' = entry.pos
      /\ UNCHANGED <<call, attempt, regs, trail, ov>>
  BY DEF Backtrack, answer
<1>2. StackBar = Saved /\ PhaseBar = "running"
  BY <1>1, BarsHold DEF BarsAre
<1>3. CASE phase' = "stop" /\ result' = "RESOURCE_EXCEEDED"
  <2>1. PhaseBar' = "done" /\ StackBar' = <<>>
    BY <1>3, BarsHold DEF BarsAre
  <2>2. QED BY <1>1, <1>2, <1>3, <2>1, GivesUp
<1>4. CASE phase' = "undo" /\ mark' = entry.mark /\ UNCHANGED result
  <2>1. /\ Len(bt) \in Nat \ {0} /\ Len(bt') = Len(bt) - 1
        /\ \A i \in 1 .. (Len(bt) - 1) : bt'[i] = bt[i]
    <3>1. bt \in Seq([pc : Nat, pos : Nat, mark : Nat])
      BY DEF IInv, TypeOK
    <3>2. QED BY <1>1, <3>1, AllButLast
  <2>2. \A m : Rewound(m)' = Rewound(m)
    BY <1>1 DEF Rewound
  <2>3. /\ StackBar' = Append(Saved', [pc |-> pc', pos |-> pos', regs |-> Rewound(mark)'])
        /\ PhaseBar' = "running"
    BY <1>4, BarsHold DEF BarsAre
  <2>4. [pc |-> pc', pos |-> pos', regs |-> Rewound(mark)'] = last
    BY <1>1, <1>4 DEF Rewound
  <2>5. PICK S : Saved \in Seq(S) /\ last \in S
    BY SavedIsSeq
  <2>6. Len(Saved) = Len(bt) /\ \A i \in 1 .. Len(bt) : Saved[i] \in S
    BY <2>1, <2>5, ElementOfSeq DEF Saved
  <2>7. /\ Saved' = [i \in 1 .. (Len(bt) - 1) |-> Saved'[i]]
        /\ \A i \in 1 .. (Len(bt) - 1) : Saved'[i] = Saved[i]
    BY <2>1, <2>2 DEF Saved
  <2>8. Saved[Len(bt)] = last
    BY <2>1 DEF Saved
  <2> DEFINE below == Saved'
  <2> HIDE DEF below, last
  <2>9. below \in Seq(S) /\ Len(below) = Len(bt) - 1
    <3>1. \A i \in 1 .. (Len(bt) - 1) : below[i] \in S
      BY <2>1, <2>6, <2>7 DEF below
    <3>2. below \in [1 .. (Len(bt) - 1) -> S] /\ Len(bt) - 1 \in Nat
      BY <2>1, <2>7, <3>1 DEF below
    <3>3. QED BY <3>2
  <2>10. Append(below, last) = Saved
    <3> DEFINE q == Append(below, last)
    <3>1. /\ q \in Seq(S) /\ Len(q) = Len(bt) /\ q[Len(bt)] = last
          /\ \A i \in 1 .. (Len(bt) - 1) : q[i] = below[i]
      BY <2>1, <2>5, <2>9, AppendProperties
    <3> HIDE DEF q
    <3>2. ASSUME NEW i \in 1 .. Len(q) PROVE q[i] = Saved[i]
      <4>1. i = Len(bt) \/ i \in 1 .. (Len(bt) - 1)
        BY <2>1, <3>1
      <4>2. QED BY <2>7, <2>8, <3>1, <4>1 DEF below
    <3>3. q = Saved
      BY <2>5, <2>6, <3>1, <3>2, SeqEqual
    <3>4. QED BY <3>3 DEF q
  <2>11. StackBar' = StackBar
    BY <1>2, <2>3, <2>4, <2>10 DEF below
  <2>12. QED BY <1>1, <1>2, <1>4, <2>3, <2>11 DEF Still, Abstract!snapVars
<1>5. QED BY <1>3, <1>4 DEF Backtrack

\* Replaying an entry changes nothing that anything above the mark stands for.
LEMMA UndoMaps == IInv /\ Undo => Still
<1> SUFFICES ASSUME IInv, Undo PROVE Still
  OBVIOUS
<1> DEFINE undo == trail[Len(trail)]
<1>1. /\ phase = "undo" /\ phase' = "undo" /\ mark \in Nat /\ mark < Len(trail)
      /\ Len(trail) \in Nat
      /\ regs' = [regs EXCEPT ![undo.slot] = undo.old]
      /\ trail' = SubSeq(trail, 1, Len(trail) - 1)
      /\ UNCHANGED <<call, result, pc, pos, attempt, mark, bt, ov>>
  BY Measures DEF Undo, IInv, TypeOK, cursor, answer
<1>2. OneMore(trail', regs', trail, regs) /\ Len(trail') = Len(trail) - 1
  <2>1. trail \in Seq([slot : Nat, old : Nat \cup {UNSET}]) /\ trail # <<>>
    BY <1>1, EmptySeq DEF IInv, TypeOK
  <2>2. /\ Len(trail') = Len(trail) - 1
        /\ \A i \in 1 .. (Len(trail) - 1) : trail'[i] = trail[i]
    BY <1>1, <2>1, AllButLast
  <2>3. regs \in [Slots(Re) -> Nat \cup {UNSET}]
    BY <1>1, RegsTyped DEF Live
  <2>4. /\ DOMAIN regs' = DOMAIN regs
        /\ \A s \in DOMAIN regs : regs'[s] = IF s = undo.slot THEN undo.old ELSE regs[s]
    BY <1>1, <2>3
  <2>5. Len(trail') + 1 = Len(trail) /\ Len(trail') \in Nat
    BY <1>1, <2>2
  <2>6. QED BY <1>1, <2>2, <2>4, <2>5 DEF OneMore
<1>3. \A m \in 0 .. Len(trail') : Unwound(trail, regs, m) = Unwound(trail', regs', m)
  BY <1>2, UnwoundNewest
<1>4. \A i \in 1 .. Len(bt) : bt[i].mark \in 0 .. Len(trail')
  <2>1. \A i \in 1 .. Len(bt) : bt[i].mark \in Nat /\ bt[i].mark <= mark
    BY <1>1, Measures DEF IInv, TrailDiscipline
  <2>2. QED BY <1>1, <1>2, <2>1
<1>5. mark \in 0 .. Len(trail')
  BY <1>1, <1>2
<1>6. Saved' = Saved /\ Rewound(mark)' = Rewound(mark)
  BY <1>1, <1>3, <1>4, <1>5 DEF Saved, Rewound
<1>7. StackBar' = StackBar /\ PhaseBar' = PhaseBar
  BY <1>1, <1>6, BarsHold DEF BarsAre
<1>8. QED BY <1>1, <1>7 DEF Still, Abstract!snapVars

\* With the replay done the registers are the choice point's.
LEMMA ResumeMaps == IInv /\ Resume => Still
<1> SUFFICES ASSUME IInv, Resume PROVE Still
  OBVIOUS
<1>1. /\ phase = "undo" /\ phase' = "run" /\ Len(trail) <= mark
      /\ trail' = IF bt = <<>> THEN <<>> ELSE trail
      /\ UNCHANGED <<call, result, pc, pos, attempt, regs, bt, ov>>
  BY DEF Resume, cursor, answer
<1>2. mark = Len(trail)
  <2>1. mark <= Len(trail) /\ mark \in Nat /\ Len(trail) \in Nat
    BY <1>1, Measures DEF IInv, TypeOK, TrailDiscipline
  <2>2. QED BY <1>1, <2>1
<1>3. [pc |-> pc, pos |-> pos, regs |-> Rewound(mark)] = Here /\ Here' = Here
  BY <1>1, <1>2, RewoundHere DEF Here, Live
<1>4. Saved' = Saved
  <2>1. CASE bt = <<>>
    BY <1>1, <2>1, NoneSaved
  <2>2. CASE bt # <<>>
    BY <1>1, <2>2, SavedStays
  <2>3. QED BY <2>1, <2>2
<1>5. StackBar' = StackBar /\ PhaseBar' = PhaseBar
  BY <1>1, <1>3, <1>4, BarsHold DEF BarsAre
<1>6. QED BY <1>1, <1>5 DEF Still, Abstract!snapVars

\* The bumpalong, or the end of it.
LEMMA NextAttemptMaps == RInv /\ NextAttempt => Abstract!Advance
<1> SUFFICES ASSUME RInv, NextAttempt PROVE Abstract!Advance
  OBVIOUS
<1>1. /\ phase = "next" /\ bt = <<>> /\ result = "NO_MATCH"
      /\ UNCHANGED <<call, result, ov>>
  BY DEF NextAttempt, RInv, IInv, AttemptsApart, answer
<1>2. StackBar = <<>> /\ PhaseBar = "running"
  BY <1>1, NoneSaved, BarsHold DEF BarsAre
<1>3. CASE /\ Anchored(call) \/ attempt >= Size(call)
           /\ phase' = "stop" /\ UNCHANGED attempt
  <2>1. PhaseBar' = "done" /\ StackBar' = <<>>
    BY <1>1, <1>3, BarsHold DEF BarsAre
  <2>2. QED
    BY <1>1, <1>2, <1>3, <2>1, SameCalls DEF Abstract!Advance, Abstract!Finished
<1>4. CASE /\ ~Anchored(call) /\ attempt < Size(call)
           /\ phase' = "attempt" /\ attempt' = Bump(attempt)
  <2>1. PhaseBar' = "running" /\ StackBar' = <<Opening(call, attempt')>>
    BY <1>1, <1>4, BarsHold DEF BarsAre
  <2>2. /\ Abstract!NextStart(call, attempt) = attempt'
        /\ Abstract!Opening(call, attempt') = Opening(call, attempt')
        /\ Abstract!Anchored(call) = Anchored(call) /\ Abstract!Size(call) = Size(call)
    BY <1>4, SameCalls
  <2>3. QED BY <1>1, <1>2, <1>4, <2>1, <2>2 DEF Abstract!Advance
<1>5. QED BY <1>3, <1>4 DEF NextAttempt

\* The answer is handed back, or not afforded.
LEMMA FinishMaps == IInv /\ Finish => Still \/ Abstract!Hand \/ Abstract!GiveUp
<1> SUFFICES ASSUME IInv, Finish PROVE Still \/ Abstract!Hand \/ Abstract!GiveUp
  OBVIOUS
<1> DEFINE affords == Novec(Re) * REG_SIZE <= call.costlimit - cost
<1>1. /\ phase = "stop" /\ phase' = "done" /\ UNCHANGED <<call, attempt>>
      /\ result' = IF result = "MATCHED" /\ ~affords THEN "RESOURCE_EXCEEDED" ELSE result
      /\ ov' = IF result = "MATCHED" /\ affords
               THEN [i \in 0 .. (Novec(Re) - 1) |-> regs[i]] ELSE ov
  BY DEF Finish, cursor
<1> HIDE DEF affords
<1>2. PhaseBar' = "done" /\ StackBar' = <<>>
  BY <1>1, BarsHold DEF BarsAre
<1>3. CASE result # "MATCHED"
  <2>1. PhaseBar = "done" /\ StackBar = <<>>
    BY <1>1, <1>3, BarsHold DEF BarsAre
  <2>2. QED BY <1>1, <1>2, <1>3, <2>1 DEF Still, Abstract!snapVars
<1>4. CASE result = "MATCHED"
  <2>1. PhaseBar = "found" /\ StackBar = <<Here>>
    BY <1>1, <1>4, BarsHold DEF BarsAre
  <2>2. CASE ~affords
    BY <1>1, <1>2, <1>4, <2>1, <2>2, GivesUp
  <2>3. CASE affords
    <3>1. Abstract!Top.regs = regs
      BY <2>1 DEF Abstract!Top, Here
    <3>2. ov' = [i \in 0 .. (Abstract!Novec(call.re) - 1) |-> Abstract!Top.regs[i]]
      BY <1>1, <1>4, <2>3, <3>1, SameCalls DEF Re
    <3>3. QED BY <1>1, <1>2, <1>4, <2>1, <2>3, <3>2 DEF Abstract!Hand
  <2>4. QED BY <2>2, <2>3
<1>5. QED BY <1>3, <1>4

\* A call is entered, or turned away.
LEMMA BtMatchMaps == RInv /\ BtMatch(call) => Abstract!Begin
<1> SUFFICES ASSUME RInv, BtMatch(call) PROVE Abstract!Begin
  OBVIOUS
<1>1. phase = "idle" /\ result = "NO_MATCH" /\ Enter(call, 0, 0)
  BY DEF BtMatch, RInv
<1>2. call' = call /\ attempt' = call.start
  BY <1>1 DEF Enter
<1>3. StackBar = <<>> /\ PhaseBar = "idle"
  BY <1>1, BarsHold DEF BarsAre
<1>4. call.start \in Nat /\ Size(call) \in Nat
  BY CallTyped DEF RInv, IInv
<1> DEFINE late == call.start > Size(call)
           poor == Setup(call) > call.memlimit \/ Setup(call) > call.costlimit
<1>5. CASE late \/ poor
  <2>1. /\ phase' = "done" /\ UNCHANGED ov
        /\ result' = IF late THEN "BAD_INPUT" ELSE "RESOURCE_EXCEEDED"
    BY <1>1, <1>5 DEF Enter
  <2>2. PhaseBar' = "done" /\ StackBar' = <<>>
    BY <2>1, BarsHold DEF BarsAre
  <2>3. QED BY <1>2, <1>3, <2>1, <2>2, SameCalls DEF Abstract!Begin
<1>6. CASE ~late /\ ~poor
  <2>1. /\ phase' = "attempt" /\ result' = "NO_MATCH" /\ ov' = Blank(Novec(call.re))
    BY <1>1, <1>6 DEF Enter
  <2>2. PhaseBar' = "running" /\ StackBar' = <<Opening(call, call.start)>>
    BY <1>2, <2>1, BarsHold DEF BarsAre
  <2>3. call.start <= Size(call)
    BY <1>4, <1>6
  <2>4. ov' = [i \in 0 .. (Abstract!Novec(call.re) - 1) |-> Abstract!UNSET]
    BY <2>1, SameCalls DEF Blank
  <2>5. QED BY <1>1, <1>2, <1>3, <2>1, <2>2, <2>3, <2>4, SameCalls DEF Abstract!Begin
<1>7. QED BY <1>5, <1>6

-----------------------------------------------------------------------------
(* The refinement.                                                         *)

\* A status is decided only on the way out.
LEMMA ResultStays == RInv /\ [Next]_vars => RInv'
<1> SUFFICES ASSUME RInv, [Next]_vars PROVE RInv'
  OBVIOUS
<1>1. IInv'
  BY StepSafe DEF RInv
<1> DEFINE Running == {"idle", "attempt", "run", "fail", "undo", "next"}
<1>2. phase' \in Running => result' = "NO_MATCH"
  <2> DEFINE Kept == phase' \in Running => phase \in Running /\ result' = result
  <2>1. CASE BtMatch(call)
    BY <2>1 DEF BtMatch, Enter
  <2>2. CASE BeginAttempt
    BY <2>2 DEF BeginAttempt, Refuse, RInv
  <2>3. CASE Execute
    <3>1. ASSUME NEW spent, Refuse(spent) PROVE Kept
      BY <3>1 DEF Refuse
    <3>2. ASSUME phase = "run", NEW target, NEW at, Goto(target, at) PROVE Kept
      BY <3>2 DEF Goto
    <3>3. ASSUME phase = "run", Fails PROVE Kept
      BY <3>3 DEF Fails
    <3>4. ASSUME phase = "run", NEW slot, NEW value, NEW target, WriteReg(slot, value, target)
          PROVE  Kept
      BY <3>1, <3>4 DEF WriteReg
    <3>5. ASSUME phase = "run", NEW first, NEW second, Fork(first, second) PROVE Kept
      BY <3>1, <3>5 DEF Fork
    <3>6. phase = "run"
      BY <2>3 DEF Execute, Eat, Assertion, Jump, Save, RepZero, RepEnter, Split,
                  RepLoop, RepNext, Accept, OutOfCost, Visits
    <3> HIDE DEF Kept
    <3>7. Eat \/ Assertion \/ Jump => Kept
      BY <3>2, <3>3, <3>6 DEF Eat, Assertion, Jump
    <3>8. Save \/ RepZero \/ RepEnter \/ RepNext => Kept
      BY <3>4, <3>6 DEF Save, RepZero, RepEnter, RepNext
    <3>9. Split \/ RepLoop => Kept
      BY <3>2, <3>5, <3>6 DEF Split, RepLoop
    <3>10. Accept => Kept
      BY <3>3, <3>6 DEF Accept, Kept
    <3>11. OutOfCost => Kept
      BY <3>1 DEF OutOfCost
    <3>12. QED BY <2>3, <3>7, <3>8, <3>9, <3>10, <3>11 DEF Execute, Kept, RInv
  <2>4. CASE Exhaust \/ Backtrack \/ Undo \/ Resume \/ NextAttempt
    BY <2>4 DEF Exhaust, Backtrack, Undo, Resume, NextAttempt, RInv
  <2>5. CASE Finish
    BY <2>5 DEF Finish
  <2>6. CASE UNCHANGED vars
    BY <2>6 DEF vars, RInv
  <2>7. QED BY <2>1, <2>2, <2>3, <2>4, <2>5, <2>6 DEF Next, Run, Returned
<1>3. QED BY <1>1, <1>2 DEF RInv

\* Every step of the matcher is a step of the abstract backtracker or leaves
\* what it stands for as it was.
LEMMA StepMaps == RInv /\ [Next]_vars => [Abstract!SnapNext]_Abstract!snapVars
<1> SUFFICES ASSUME RInv, [Next]_vars PROVE Abstract!SnapNext \/ Still
  BY DEF Still
<1>0. IInv
  BY DEF RInv
<1>1. CASE BtMatch(call)
  BY <1>1, BtMatchMaps DEF Abstract!SnapNext
<1>2. CASE BeginAttempt
  BY <1>0, <1>2, BeginAttemptMaps DEF Abstract!SnapNext
<1>3. CASE Execute
  <2>1. CASE OutOfCost
    <3>1. Abstract!GiveUp
      BY <2>1, RefuseGivesUp DEF OutOfCost
    <3>2. QED BY <3>1 DEF Abstract!SnapNext
  <2>2. CASE Eat \/ Assertion \/ Jump \/ Split \/ Save \/ Accept
    <3>1. Abstract!Explore \/ Abstract!GiveUp \/ Abstract!Find
      BY <1>0, <2>2, EatExplores, AssertionExplores, JumpExplores, SplitExplores,
         SaveExplores, AcceptFinds
    <3>2. QED BY <3>1 DEF Abstract!SnapNext
  <2>3. CASE RepZero \/ RepEnter \/ RepLoop \/ RepNext
    <3>1. Abstract!Explore \/ Abstract!GiveUp
      BY <1>0, <2>3, RepZeroExplores, RepEnterExplores, RepLoopExplores, RepNextExplores
    <3>2. QED BY <3>1 DEF Abstract!SnapNext
  <2>4. QED BY <1>3, <2>1, <2>2, <2>3 DEF Execute
<1>4. CASE Exhaust \/ Undo \/ Resume
  BY <1>0, <1>4, ExhaustMaps, UndoMaps, ResumeMaps
<1>5. CASE Backtrack
  BY <1>0, <1>5, BacktrackMaps DEF Abstract!SnapNext
<1>6. CASE NextAttempt
  BY <1>6, NextAttemptMaps DEF Abstract!SnapNext
<1>7. CASE Finish
  BY <1>0, <1>7, FinishMaps DEF Abstract!SnapNext
<1>8. CASE UNCHANGED vars
  <2>1. UNCHANGED <<call, phase, result, pc, pos, attempt, mark, regs, bt, trail, ov>>
    BY <1>8 DEF vars, cursor, scratch, answer
  <2>2. Saved' = Saved /\ Here' = Here /\ Rewound(mark)' = Rewound(mark)
    BY <2>1 DEF Saved, Here, Rewound
  <2>3. StackBar' = StackBar /\ PhaseBar' = PhaseBar
    BY <2>1, <2>2 DEF StackBar, PhaseBar
  <2>4. QED BY <2>1, <2>3 DEF Still, Abstract!snapVars
<1>9. QED BY <1>1, <1>2, <1>3, <1>4, <1>5, <1>6, <1>7, <1>8 DEF Next, Run, Returned

\* Where a run begins, the abstract run begins.
LEMMA InitMaps == Init => Abstract!SnapInit
<1> SUFFICES ASSUME Init PROVE Abstract!SnapInit
  OBVIOUS
<1>1. /\ call \in CallTypes /\ phase = "idle" /\ result = "NO_MATCH"
      /\ attempt = 0 /\ ov = <<>>
  BY CallsAssumption DEF Init
<1>2. PhaseBar = "idle" /\ StackBar = <<>>
  BY <1>1, BarsHold DEF BarsAre
<1>3. QED BY <1>1, <1>2, SameCalls DEF Abstract!SnapInit

\* For every set of calls and every pair of bounds, the matcher implements the
\* abstract backtracker, whose choice points each carry their own registers: no
\* sharing of one register file through the undo trail can be observed.
THEOREM RefinementHolds == Spec => Implements
<1>1. Init => Abstract!SnapInit
  BY InitMaps
<1>2. Init => RInv
  BY InitSafe DEF Init, RInv
<1>3. RInv /\ [Next]_vars => RInv'
  BY ResultStays
<1>4. RInv /\ [Next]_vars => [Abstract!SnapNext]_Abstract!snapVars
  BY StepMaps
<1>5. QED BY <1>1, <1>2, <1>3, <1>4, PTL DEF Spec, Implements, Abstract!SnapSpec
=============================================================================
