------------------------------ MODULE Compile ------------------------------
(***************************************************************************)
(* The compiled pattern's life, as engine/program.py and engine/driver.py  *)
(* put it together: the generator (Emit), the count of registers and the   *)
(* choice of matcher, the resource analysis (Install), and calls on the    *)
(* backtracking matcher (BtVM).  The corpus and the tests also hand the    *)
(* checker what no compiler wrote: another region table (with_regions) or  *)
(* another certificate (check_certificate).                                *)
(***************************************************************************)
EXTENDS Emit

CONSTANTS
  Cap, Ceiling, MaxLength,    \* see Certificate
  MaxStack, MaxTrail,         \* see BtVM
  Aims, Inputs(_),            \* what is compiled, by what it is compiled for
  Subjects(_),                \* what it is matched against then
  Doctored(_, _), Claimed(_, _, _)  \* and the tables and certificates tried

ASSUME CompileAssumption == \A a \in Aims : \A i \in Inputs(a) : IsInput(i)

VARIABLES
  aim,        \* what the caller will ask of the pattern, fixed at the start
  prog, step, at, prices, cert, has, pcert, haspike, found, verdict,  \* Install
  call, phase, result, pc, pos, attempt, regs, bt, btcap, trail,
  trailcap, mark, cost, mem, peak, stackpeak, ov, use,                \* BtVM
  answer,     \* the out parameter of compile: "none", or what it reports
  honest,     \* the certificate compilation found, if it found one
  tried       \* "nothing", "regions" or "claims": what the checker was given

pricing == <<prog, step, at, prices, cert, has, pcert, haspike, found, verdict>>
running == <<call, phase, result, pc, pos, attempt, regs, bt, btcap, trail,
             trailcap, mark, cost, mem, peak, stackpeak, ov, use>>
emitting == <<input, plan, out, work, crfirst, stage, err>>
allvars == <<aim, emitting, pricing, running, answer, honest, tried>>

Pricing == INSTANCE Install
Vm == INSTANCE BtVM WITH Calls <- {}

NoBound == [base |-> 1, coef |-> [d \in Degrees |-> 0]]

\* A program as the matchers are handed it.
ForMatch(p) ==
  [code |-> p.code, reps |-> p.reps, ncap |-> p.ncap, nregs |-> p.nregs,
   nltype |-> "ANYCRLF", bsr |-> "UNICODE", anchored |-> FALSE, hascrlf |-> FALSE,
   crfirst |-> p.crfirst, pike |-> p.pike, hascert |-> FALSE,
   cert |-> [k \in {"cost", "stack", "trail", "mem"} |-> NoBound]]

Ample(p, subject, mopts) ==
  [re |-> ForMatch(p), subj |-> subject, start |-> 0, mopts |-> mopts,
   costlimit |-> Cap * Cap, stacklimit |-> MaxStack, memlimit |-> Cap * Cap]

-----------------------------------------------------------------------------
StartCompiling ==
  /\ aim \in Aims /\ Handed(Inputs(aim))
  /\ prog = [code |-> <<>>, reps |-> <<>>, regions |-> <<>>, ncap |-> 0, nregs |-> 0,
             crfirst |-> FALSE, pike |-> FALSE]
  /\ step = "idle" /\ at = 0 /\ prices = <<>>
  /\ cert = Pricing!NoCert /\ has = FALSE /\ pcert = Pricing!NoCert /\ haspike = FALSE
  /\ found = "ArOk" /\ verdict = "CrOk"
  /\ phase = "idle" /\ result = "NO_MATCH" /\ call = <<>>
  /\ pc = 0 /\ pos = 0 /\ attempt = 0 /\ mark = 0
  /\ regs = <<>> /\ bt = <<>> /\ btcap = 0 /\ trail = <<>> /\ trailcap = 0
  /\ cost = 0 /\ mem = 0 /\ peak = 0 /\ stackpeak = 0
  /\ ov = <<>> /\ use = Vm!NoUse
  /\ answer = "none" /\ honest = Pricing!NoCert /\ tried = "nothing"

GenerateCode ==
  /\ Generate
  /\ UNCHANGED <<pricing, running, answer, honest, tried>>

\* compile, once generate has returned: the registers, then the choice of
\* matcher off the frozen program, then the analysis.
HandOver ==
  LET nregs == CountRegs(Groups(tree), Len(reps))
      p == [code |-> code, reps |-> reps, regions |-> regions, ncap |-> Groups(tree),
            nregs |-> nregs, crfirst |-> crfirst, pike |-> FALSE]
  IN  /\ stage = "done" /\ step = "idle" /\ answer = "none"
      /\ \/ /\ err # "none" \/ nregs > caps.regs
            /\ answer' = IF err # "none" THEN err ELSE "E_PATTERN_TOO_LARGE"
            /\ UNCHANGED pricing
         \/ /\ err = "none" /\ nregs <= caps.regs
            /\ prog' = [p EXCEPT !.pike = Pricing!Eligible(p)]
            /\ Pricing!Begin
            /\ UNCHANGED answer
      /\ UNCHANGED <<emitting, running, honest, tried>>

Price ==
  /\ Pricing!Next
  /\ UNCHANGED <<emitting, running, answer, honest, tried>>

\* A refusal within compilation is a contradiction of the engine with itself.
Conclude ==
  /\ step = "done" /\ tried = "nothing" /\ answer = "none"
  /\ answer' = IF verdict = "CrOk" THEN "compiled" ELSE "E_INTERNAL"
  /\ honest' = IF has THEN cert ELSE honest
  /\ UNCHANGED <<emitting, pricing, running, tried>>

-----------------------------------------------------------------------------
(* What the corpus and the tests ask of a finished pattern.                *)

\* with_regions: another table under the same code, and no certificate.
WithRegions ==
  /\ answer = "compiled" /\ tried = "nothing" /\ phase = "idle"
  /\ \E table \in Doctored(aim, prog) : prog' = [prog EXCEPT !.regions = table]
  /\ tried' = "regions"
  /\ Pricing!Begin
  /\ UNCHANGED <<emitting, running, answer, honest>>

\* check_certificate: the checker alone, on a certificate of the caller's.
CheckCertificate ==
  /\ answer = "compiled" /\ tried = "nothing" /\ phase = "idle" /\ has
  /\ cert' \in Claimed(aim, prog, cert)
  /\ tried' = "claims" /\ step' = "claim" /\ has' = FALSE /\ verdict' = "CrOk"
  /\ UNCHANGED <<prog, at, prices, pcert, haspike, found, emitting, running, answer, honest>>

-----------------------------------------------------------------------------
(* One call, on a pattern whose certificate was accepted.                  *)

Match ==
  /\ answer = "compiled" /\ step = "done" /\ has /\ phase = "idle"
  /\ \E s \in Subjects(aim), m \in {{}, {"NOTEMPTY"}} : Vm!Enter(Ample(prog, s, m), 0, 0)
  /\ UNCHANGED <<emitting, pricing, answer, honest, tried>>

RunOn ==
  /\ phase \notin {"idle", "done"}
  /\ Vm!Run
  /\ UNCHANGED <<emitting, pricing, answer, honest, tried>>

\* Compilation was refused, or nobody asks more of the pattern.
CompileOver ==
  /\ \/ answer \notin {"none", "compiled"}
     \/ answer = "compiled" /\ step = "done" /\ phase \in {"idle", "done"}
  /\ UNCHANGED allvars

CompileNext ==
  /\ \/ GenerateCode \/ HandOver \/ Price \/ Conclude
     \/ WithRegions \/ CheckCertificate \/ Match \/ RunOn \/ CompileOver
  /\ UNCHANGED aim

CompileSpec == StartCompiling /\ [][CompileNext]_allvars
=============================================================================
