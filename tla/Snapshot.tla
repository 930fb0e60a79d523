------------------------------ MODULE Snapshot ------------------------------
(***************************************************************************)
(* The abstract backtracker.  Its stack holds whole configurations, each   *)
(* with its own copy of the register file, the one being explored on top;  *)
(* there is no undo trail and nothing is charged, but a run may give up at *)
(* any point.  BtRefinement shows that the matcher implements it.          *)
(***************************************************************************)
EXTENDS Program

VARIABLES call, phase, result, attempt, stack, ov

snapVars == <<call, phase, result, attempt, stack, ov>>

Top == stack[Len(stack)]
Below == SubSeq(stack, 1, Len(stack) - 1)

\* Alternatives go on the stack with the preferred one on top.
Stacked(arms) == [i \in 1 .. Len(arms) |-> arms[Len(arms) + 1 - i]]

Accepts(conf) ==
  /\ At(call.re.code, conf.pc).op = "OpAccept"
  /\ ~RefusesEmpty(call, attempt, conf.pos)

Finished(status) ==
  /\ phase' = "done"
  /\ result' = status
  /\ stack' = <<>>
  /\ UNCHANGED <<call, attempt, ov>>

Begin ==
  /\ phase = "idle"
  /\ attempt' = call.start
  /\ UNCHANGED call
  /\ \/ /\ call.start <= Size(call)
        /\ phase' = "running"
        /\ stack' = <<Opening(call, call.start)>>
        /\ ov' = [i \in 0 .. (Novec(call.re) - 1) |-> UNSET]
        /\ UNCHANGED result
     \/ /\ phase' = "done"
        /\ result' = IF call.start > Size(call) THEN "BAD_INPUT"
                     ELSE "RESOURCE_EXCEEDED"
        /\ UNCHANGED <<stack, ov>>

Explore ==
  /\ phase = "running"
  /\ stack # <<>>
  /\ LET top == Top
         arms == Arms(call, top.pc, top.pos, top.regs)
     IN  /\ ~Accepts(top)
         /\ stack' = Below \o Stacked(arms)
  /\ UNCHANGED <<call, phase, result, attempt, ov>>

Find ==
  /\ phase = "running"
  /\ stack # <<>>
  /\ Accepts(Top)
  /\ phase' = "found"
  /\ result' = "MATCHED"
  /\ stack' = <<[Top EXCEPT !.regs = [Top.regs EXCEPT ![0] = attempt, ![1] = Top.pos]]>>
  /\ UNCHANGED <<call, attempt, ov>>

Hand ==
  /\ phase = "found"
  /\ phase' = "done"
  /\ ov' = [i \in 0 .. (Novec(call.re) - 1) |-> Top.regs[i]]
  /\ stack' = <<>>
  /\ UNCHANGED <<call, result, attempt>>

Advance ==
  /\ phase = "running"
  /\ stack = <<>>
  /\ \/ /\ Anchored(call) \/ attempt >= Size(call)
        /\ Finished("NO_MATCH")
     \/ /\ ~Anchored(call) /\ attempt < Size(call)
        /\ attempt' = NextStart(call, attempt)
        /\ stack' = <<Opening(call, attempt')>>
        /\ UNCHANGED <<call, phase, result, ov>>

GiveUp ==
  /\ phase \in {"running", "found"}
  /\ Finished("RESOURCE_EXCEEDED")

SnapInit ==
  /\ call \in CallTypes
  /\ phase = "idle"
  /\ result = "NO_MATCH"
  /\ attempt = 0
  /\ stack = <<>>
  /\ ov = <<>>

SnapNext == Begin \/ Explore \/ Find \/ Hand \/ Advance \/ GiveUp

SnapSpec == SnapInit /\ [][SnapNext]_snapVars
=============================================================================
