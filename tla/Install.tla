------------------------------ MODULE Install ------------------------------
(***************************************************************************)
(* The last phase of compilation: cert_install of engine/analyzer.py, with *)
(* the two loops it drives, cert_build's from the last region to the first *)
(* and cert_check's from the first to the last, one region a step.  `has`  *)
(* stays down when no bound can be written down; any refusal by the        *)
(* checker is a contradiction within the engine.                           *)
(***************************************************************************)
EXTENDS Checker

-----------------------------------------------------------------------------
(***************************************************************************)
(* The search for a certificate (engine/analyzer.py): what each region of  *)
(* a program costs, from what its children cost, and what a whole call     *)
(* pays on top.  It decides nothing about the region table: it stops where *)
(* it would have to guess.                                                 *)
(***************************************************************************)
-----------------------------------------------------------------------------
(* One region.  An answer is a verdict and the charges accumulated.        *)

Priced(verdict, acc) == [verdict |-> verdict, acc |-> acc]

\* A child met on the way: every way in pays for it, every way out goes on.
ThroughKid(acc, price) ==
  [work  |-> PolyAdd(acc.work, PolyMul(acc.flow, price.work)),
   stack |-> PolyAdd(acc.stack, PolyMul(acc.flow, price.stack)),
   trail |-> PolyAdd(acc.trail, PolyMul(acc.flow, price.trail)),
   flow  |-> PolyMul(acc.flow, price.outs)]

\* A loose instruction: one visit per way in.  A match ends the attempt.
Past(acc, op) ==
  [acc EXCEPT !.work = PolyAdd(@, acc.flow),
              !.trail = IF op = "OpSave" THEN PolyAdd(@, acc.flow) ELSE @,
              !.flow = IF op = "OpAccept" THEN Zero ELSE @]

\* price_span: read the range left to right, carrying the flow.
PriceSpan(p, prices, lo, hi, kids) ==
  LET visit(s) ==
        LET due == s.kids # <<>> /\ At(p.regions, Head(s.kids)).lo = s.pc
            kid == Head(s.kids)
            op == At(p.code, s.pc).op
        IN  CASE s.verdict # "ArOk" \/ s.pc >= hi -> s
              [] due /\ At(p.regions, kid).hi <= s.pc -> [s EXCEPT !.verdict = "ArShape"]
              [] due /\ At(p.regions, kid).hi > s.pc ->
                   [s EXCEPT !.acc = ThroughKid(@, prices[kid]),
                             !.pc = At(p.regions, kid).hi, !.kids = Tail(@)]
              [] ~due /\ op \in SimpleOps \cup {"OpSave", "OpAccept"} ->
                   [s EXCEPT !.acc = Past(@, op), !.pc = @ + 1]
              [] OTHER -> [s EXCEPT !.verdict = "ArShape"]
      after[k \in 0 .. Larger(0, hi - lo)] ==
        IF k = 0 THEN [verdict |-> "ArOk", pc |-> lo, kids |-> kids, acc |-> Fresh(Const(1))]
        ELSE visit(after[k - 1])
      end == after[Larger(0, hi - lo)]
  IN  Priced(end.verdict, end.acc)

\* price_alt: every branch is entered; a split guards each but the last, and
\* the jump after one is taken once per way it succeeds.
PriceAlt(prices, kids) ==
  LET enter(acc, k) ==
        LET price == prices[kids[k]]
            last == k = Len(kids)
            guard == IF last THEN Zero ELSE PolyAdd(Const(1), price.outs)
        IN  [work  |-> PolyAdd(PolyAdd(acc.work, guard), price.work),
             stack |-> PolyAdd(PolyAdd(acc.stack, Const(IF last THEN 0 ELSE 1)), price.stack),
             trail |-> PolyAdd(acc.trail, price.trail),
             flow  |-> PolyAdd(acc.flow, price.outs)]
  IN  Priced("ArOk", FoldLeft(enter, Fresh(Zero), [k \in DOMAIN kids |-> k]))

\* Mutation: the pass that finds the count spent is not counted.
PassesShort(rep, ways) ==
  LET most == Larger(rep.lo, rep.hi)
      raised == BoundPow(ways, IF rep.hi = NONE THEN rep.lo + 2 ELSE most + 1)
  IN  IF ways > 1
      THEN [ok |-> raised.ok,
            poly |-> Poly(IF rep.hi = NONE THEN ways ELSE 1, raised.value, 0)]
      ELSE [ok |-> TRUE, poly |-> IF rep.hi = NONE THEN Poly(1, rep.lo + 1, 1) ELSE Const(most)]

\* How often the head of a counted repetition is passed: one more than the
\* iterations, each of which may hand the next `ways` configurations.
Passes(rep, ways) ==
  LET most == Larger(rep.lo, rep.hi)
      raised == BoundPow(ways, IF rep.hi = NONE THEN rep.lo + 2 ELSE most + 1)
  IN  IF ways > 1
      THEN [ok |-> raised.ok,
            poly |-> Poly(IF rep.hi = NONE THEN ways ELSE 1, raised.value, 0)]
      ELSE [ok |-> TRUE,
            poly |-> IF rep.hi = NONE THEN Poly(1, rep.lo + 1, 1) ELSE Const(most + 1)]

\* price_repeat, of a counted repetition whose body came to `body`.
PriceLoop(rep, body) ==
  LET ways == body.flow.coef[0]
      flow == Passes(rep, ways).poly
      leaves == PolyAdd(Const(1), [Const(ways) EXCEPT !.over = body.flow.over])
      each == PolyAdd(Const(1), PolyAdd(body.work, leaves))
  IN  CASE ~Flat(body.flow) -> Priced("ArAmbiguous", body)
        [] Flat(body.flow) /\ ~Passes(rep, ways).ok -> Priced("ArOverflow", body)
        [] OTHER ->
             Priced("ArOk",
                    [work  |-> PolyAdd(Const(1), PolyMul(flow, each)),
                     stack |-> PolyMul(flow, PolyAdd(Const(1), body.stack)),
                     trail |-> PolyAdd(Const(1), PolyMul(flow, PolyAdd(leaves, body.trail))),
                     flow  |-> PolyMul(flow, leaves)])

\* price_repeat, of an optional item: the split, and the way past the body.
PriceOption(body) ==
  Priced("ArOk", [q \in DOMAIN body |->
                    IF q = "trail" THEN body[q] ELSE PolyAdd(body[q], Const(1))])

\* What the repetition makes of the span inside it.
Repeated(p, head, span) ==
  CASE span.verdict # "ArOk" -> span
    [] span.verdict = "ArOk" /\ head.op = "OpSplit" -> PriceOption(span.acc)
    [] OTHER -> PriceLoop(At(p.reps, head.arg), span.acc)

\* price_repeat: an optional item, or a counted repetition around its body.
PriceRepeat(p, prices, lo, hi, kids) ==
  LET head == At(p.code, lo)
      option == head.op = "OpSplit"
      counted == head.op = "OpRepZero" /\ hi - lo >= 4 /\ head.arg < Len(p.reps)
  IN  IF hi <= lo \/ ~(option \/ counted) THEN Priced("ArShape", Fresh(Zero))
      ELSE Repeated(p, head, PriceSpan(p, prices, IF option THEN lo + 1 ELSE lo + 3,
                                       IF option THEN hi ELSE hi - 1, kids))

PriceRegion(p, prices, i) ==
  LET here == At(p.regions, i)
      kids == Kids(p.regions, i)
  IN  CASE here.kind = "RkAlt" -> PriceAlt(prices, kids)
        [] here.kind = "RkRepeat" -> PriceRepeat(p, prices, here.lo, here.hi, kids)
        [] OTHER -> PriceSpan(p, prices, here.lo, here.hi, kids)

-----------------------------------------------------------------------------
(* The whole call.                                                         *)

\* The most an array that doubles as it grows ever reserves.
Capacity(held) ==
  IF Nothing(held) THEN Zero
  ELSE PolyAdd(Const(GROW_MIN), PolyMul(held, Const(GROW_FACTOR)))

\* price_call: setup and delivery once, the registers cleared, the tree walked
\* and its trail put back at every start offset, and the growth of the arrays.
PriceCall(p, root) ==
  LET deliver == Novec(p) * REG_SIZE
      reset == p.nregs * REG_SIZE
      fixed == Const(reset + 2 * deliver)
      scratch == PolyAdd(PolyMul(Capacity(root.stack), Const(BT_SIZE)),
                         PolyMul(Capacity(root.trail), Const(UNDO_SIZE)))
      attempt == PolyAdd(Const(reset), PolyAdd(root.work, PolyMul(root.trail, Const(REG_SIZE))))
  IN  [cost  |-> PolyAdd(fixed, PolyAdd(PolyMul(attempt, PerStart), PolyMul(scratch, Const(3)))),
       stack |-> root.stack, trail |-> root.trail,
       mem   |-> PolyAdd(fixed, PolyMul(scratch, Const(2)))]

\* cert_build's first pass: nothing below may read past the program, or price
\* a region before its children.
Readable(p) ==
  /\ p.regions # <<>>
  /\ \A i \in 0 .. (Len(p.regions) - 1) :
       LET here == At(p.regions, i)
       IN  /\ here.lo <= here.hi /\ here.hi <= Len(p.code)
           /\ i > 0 => here.parent # NONE /\ here.parent < i

-----------------------------------------------------------------------------
(* The phase.                                                              *)

VARIABLES
  prog,           \* the finished program, with its region table
  step,           \* "shape", "pike", "build", "claim", "check" or "done"
  at,             \* the regions from here on are priced, or before here checked
  prices,         \* the prices found so far, by region
  cert, has,      \* the certificate, and whether the pattern may carry it
  pcert, haspike, \* the same for the lockstep matcher
  found,          \* why the search stopped: an Ar verdict
  verdict         \* what cert_install answers: a Cr verdict

vars == <<prog, step, at, prices, cert, has, pcert, haspike, found, verdict>>

Total == Len(prog.regions)
NoCert == [config |-> "none", complexity |-> "CcNotProvenLinear", cost |-> Zero,
           stack |-> Zero, trail |-> Zero, mem |-> Zero, prices |-> <<>>]

\* Everything but the program starts over.
Begin ==
  /\ step' = "shape" /\ at' = 0 /\ prices' = <<>>
  /\ cert' = NoCert /\ has' = FALSE /\ pcert' = NoCert /\ haspike' = FALSE
  /\ found' = "ArOk" /\ verdict' = "CrOk"

\* cert_install is over, with this answer.
Stop(answer) == step' = "done" /\ verdict' = answer

\* The table is judged before anyone prices it, and whether or not they can.
Shape ==
  /\ step = "shape"
  /\ \E answer \in {CertShape(prog)} :
       IF answer = "CrOk" THEN step' = "pike" /\ UNCHANGED verdict ELSE Stop(answer)
  /\ UNCHANGED <<prog, at, prices, cert, has, pcert, haspike, found>>

\* A closed form that no counter holds is honestly no certificate.
Pike ==
  LET form == PikeCert(prog)
      priced == \A q \in {"cost", "mem"}, d \in Degrees : form[q].coef[d] <= Cap
      claim == [config |-> "CfgPike", complexity |-> "CcLinear", prices |-> <<>>]
                 @@ [q \in Totals |-> form[q] @@ [over |-> FALSE]]
      answer == PikeCheck(prog, claim)
  IN  /\ step = "pike"
      /\ IF ~prog.pike \/ ~priced THEN step' = "build" /\ UNCHANGED <<pcert, haspike, verdict>>
         ELSE /\ pcert' = claim
              /\ haspike' = (answer = "CrOk")
              /\ IF answer = "CrOk" THEN step' = "build" /\ UNCHANGED verdict
                                    ELSE Stop(answer)
      /\ at' = Total
      /\ UNCHANGED <<prog, prices, cert, has, found>>

\* The search gives up: what it met has no rule, or no bound it can write.
GiveUp(why) ==
  /\ found' = why
  /\ Stop(IF why = "ArShape" THEN "CrShape" ELSE "CrOk")
  /\ UNCHANGED <<at, prices, cert>>

\* One more region, whose children all come after it in the table.
PriceOne ==
  /\ step = "build" /\ at > 0
  /\ IF ~Readable(prog) THEN GiveUp("ArShape")
     ELSE \E ans \in {PriceRegion(prog, prices, at - 1)} :
            CASE ans.verdict # "ArOk" -> GiveUp(ans.verdict)
              [] ans.verdict = "ArOk" /\ Overflowed(ans.acc) -> GiveUp("ArOverflow")
              [] OTHER -> /\ prices' = (at - 1 :> Price(ans.acc)) @@ prices
                          /\ at' = at - 1
                          /\ UNCHANGED <<step, cert, found, verdict>>
  /\ UNCHANGED <<prog, has, pcert, haspike>>

\* All priced: the call's own numbers, and the class read off the cost.
PriceWhole ==
  /\ step = "build" /\ at = 0
  /\ \E whole \in {PriceCall(prog, prices[0])} :
       IF whole.cost.over \/ whole.mem.over THEN GiveUp("ArOverflow")
       ELSE /\ cert' = whole @@ [config |-> "CfgBacktrack", prices |-> prices,
                                 complexity |-> IF Linear(whole.cost) THEN "CcLinear"
                                                ELSE "CcNotProvenLinear"]
            /\ step' = "claim"
            /\ UNCHANGED <<at, prices, found, verdict>>
  /\ UNCHANGED <<prog, has, pcert, haspike>>

\* cert_check begins: the table again, and what a certificate must look like.
Claim ==
  /\ step = "claim"
  /\ \E shape \in {CertShape(prog)}, looks \in {Claimable(prog, cert)} :
       IF shape = "CrOk" /\ looks = "CrOk" THEN step' = "check" /\ UNCHANGED verdict
       ELSE Stop(IF shape = "CrOk" THEN looks ELSE shape)
  /\ at' = 0
  /\ UNCHANGED <<prog, prices, cert, has, pcert, haspike, found>>

CheckOne ==
  /\ step = "check" /\ at < Total
  /\ \E answer \in {CheckRegion(prog, cert.prices, at)} :
       IF answer = "CrOk" THEN at' = at + 1 /\ UNCHANGED <<step, verdict>>
                          ELSE Stop(answer) /\ UNCHANGED at
  /\ UNCHANGED <<prog, prices, cert, has, pcert, haspike, found>>

\* The totals last; only what passes all of it is carried by the pattern.
Keep ==
  LET answer == ChargeCall(prog, cert)
  IN  /\ step = "check" /\ at = Total
      /\ has' = (answer = "CrOk")
      /\ Stop(answer)
      /\ UNCHANGED <<prog, at, prices, cert, pcert, haspike, found>>

Next == Shape \/ Pike \/ PriceOne \/ PriceWhole \/ Claim \/ CheckOne \/ Keep
=============================================================================
