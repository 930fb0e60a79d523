------------------------------ MODULE Checker ------------------------------
(***************************************************************************)
(* The judge of certificates (engine/certificate.py).  It trusts neither   *)
(* the region table, which it holds to the bytecode, nor a claimed price,  *)
(* which it holds to what the children's claims come to.  Every answer is  *)
(* "CrOk" or the name of the first rule broken.                            *)
(***************************************************************************)
EXTENDS Certificate, SequencesExt

-----------------------------------------------------------------------------
(* The algebra certificates are written in (engine/bounds.py): a growth     *)
(* base and one coefficient per power of n + 1.  Nothing is ever rounded: a *)
(* base or coefficient past Cap, or a power past the last, stops at what a  *)
(* counter can hold and raises `over`, which everything computed from it    *)
(* inherits.                                                               *)

Clip(x) == IF x > Cap THEN Cap ELSE x

-----------------------------------------------------------------------------
(* Polynomials.                                                            *)

Poly(base, c0, c1) ==
  [base |-> base, over |-> FALSE,
   coef |-> [d \in Degrees |-> CASE d = 0 -> c0 [] d = 1 -> c1 [] OTHER -> 0]]

Const(c) == Poly(1, c, 0)
Zero == Const(0)
PerStart == Poly(1, 0, 1)

Nothing(p) == \A d \in Degrees : p.coef[d] = 0
Under(p, degree) == p.base = 1 /\ \A d \in Degrees : d > degree => p.coef[d] = 0
Flat(p) == Under(p, 0)
Linear(p) == Under(p, 1)

\* A bound worth nothing carries no growth either.
PolyNorm(p) == IF Nothing(p) THEN [Zero EXCEPT !.over = p.over] ELSE p

PolyAdd(a, b) ==
  LET raw == [d \in Degrees |-> a.coef[d] + b.coef[d]]
  IN  PolyNorm([base |-> Larger(a.base, b.base),
                coef |-> [d \in Degrees |-> Clip(raw[d])],
                over |-> a.over \/ b.over \/ \E d \in Degrees : raw[d] > Cap])

PolyMul(a, b) ==
  LET upto(d) ==      \* the terms of degree d, by the degree of the left factor
        LET sum[l \in 0 .. d] ==
              (IF l = 0 THEN 0 ELSE sum[l - 1]) + a.coef[l] * b.coef[d - l]
        IN  sum[d]
      raw == [d \in Degrees |-> upto(d)]
      pastLast == \E l, r \in Degrees : l + r \notin Degrees /\ a.coef[l] * b.coef[r] # 0
  IN  PolyNorm([base |-> Clip(a.base * b.base),
                coef |-> [d \in Degrees |-> Clip(raw[d])],
                over |-> a.over \/ b.over \/ pastLast \/ a.base * b.base > Cap
                           \/ \E d \in Degrees : raw[d] > Cap])

\* Enough to dominate at every length, and not necessary.
PolyGe(a, b) == a.base >= b.base /\ \A d \in Degrees : a.coef[d] >= b.coef[d]

PolyEq(a, b) == a.base = b.base /\ a.coef = b.coef

\* base^exp, or Exceeds as soon as it passes the cap.
BoundPow(base, exp) ==
  LET pow[i \in 0 .. exp] ==
        IF i = 0 THEN 1
        ELSE LET below == pow[i - 1] IN IF below > Cap THEN below ELSE below * base
  IN  IF base = 1 \/ (base = 0 /\ exp = 0) THEN Found(1)
      ELSE IF pow[exp] > Cap THEN Exceeds ELSE Found(pow[exp])

-----------------------------------------------------------------------------
(* Prices: what one entry into a stretch of code may cost.  `flow` is how  *)
(* often control leaves it going forward, and a region's `outs`.           *)

Fresh(flow) == [work |-> Zero, stack |-> Zero, trail |-> Zero, flow |-> flow]
Price(acc) == [work |-> acc.work, outs |-> acc.flow, stack |-> acc.stack, trail |-> acc.trail]
Overflowed(acc) == \E q \in DOMAIN acc : acc[q].over

\* region_kids: the children of region i in the order of the table.
Kids(regions, i) ==
  SelectSeq([j \in 1 .. (Len(regions) - 1) |-> j], LAMBDA j : At(regions, j).parent = i)

SimpleOps == (EaterOps \cup AssertOps)

-----------------------------------------------------------------------------
(* The rules.                                                              *)
\* The first of the answers Of(0), Of(1) ... Of(k - 1) that is a refusal.
FirstRefusal(Of(_), k) ==
  LET bad == {i \in 0 .. (k - 1) : Of(i) # "CrOk"}
  IN  IF bad = {} THEN "CrOk" ELSE Of(Min(bad))

\* The first rule of a sequence of pairs <<name, holds>> that does not hold.
FirstBroken(rules) ==
  LET bad == {i \in DOMAIN rules : ~rules[i][2]}
  IN  IF bad = {} THEN "CrOk" ELSE rules[Min(bad)][1]

-----------------------------------------------------------------------------
(* Does the region table describe the program?                             *)

\* shape_span: only plain instructions are loose, and the children, in order,
\* account for everything else.
ShapeSpan(p, lo, hi, kids) ==
  LET visit(s) ==
        LET kid == At(p.regions, Head(s.kids))
            due == s.kids # <<>> /\ kid.lo <= s.pc
        IN  CASE s.verdict # "CrOk" \/ s.pc >= hi -> s
              [] due -> IF kid.lo < s.pc \/ kid.hi <= s.pc \/ kid.hi > hi
                        THEN [s EXCEPT !.verdict = "CrShape"]
                        ELSE [s EXCEPT !.pc = kid.hi, !.kids = Tail(@)]
              [] ~due /\ At(p.code, s.pc).op \in SimpleOps \cup {"OpSave", "OpAccept"} ->
                   [s EXCEPT !.pc = @ + 1]
              [] OTHER -> [s EXCEPT !.verdict = "CrOpcode"]
      after[k \in 0 .. Larger(0, hi - lo)] ==
        IF k = 0 THEN [verdict |-> "CrOk", pc |-> lo, kids |-> kids] ELSE visit(after[k - 1])
      end == after[Larger(0, hi - lo)]
  IN  CASE end.verdict # "CrOk" -> end.verdict
        [] end.verdict = "CrOk" /\ end.kids # <<>> -> "CrChildren"
        [] OTHER -> "CrOk"

\* One branch of an alternation that ends at hi, beginning at address at.
ShapeBranch(p, hi, kid, at, last) ==
  LET fork == At(p.code, at)
      leave == At(p.code, kid.hi)
  IN  IF last THEN kid.lo = at /\ kid.hi = hi
      ELSE /\ at < hi
           /\ fork.op = "OpSplit" /\ fork.arg = at + 1 /\ kid.lo = at + 1
           /\ kid.hi < hi /\ leave.op = "OpJump" /\ leave.arg = hi
           /\ fork.alt = kid.hi + 1

\* shape_alt: split branch jump, split branch jump ... branch.
ShapeAlt(p, here, kids) ==
  LET kid(k) == At(p.regions, kids[k])
      begin(k) == IF k = 1 THEN here.lo ELSE kid(k - 1).hi + 1
      rule(k) == CASE kid(k).kind # "RkBranch" -> "CrChildren"
                   [] kid(k).kind = "RkBranch" /\
                        ~ShapeBranch(p, here.hi, kid(k), begin(k), k = Len(kids)) -> "CrShape"
                   [] OTHER -> "CrOk"
      found == FirstRefusal(LAMBDA i : rule(i + 1), Len(kids))
  IN  IF found # "CrOk" THEN found ELSE IF Len(kids) < 2 THEN "CrShape" ELSE "CrOk"

\* The head, the entry and the tail of a counted repetition name one another.
ShapeLoop(p, lo, hi) ==
  LET which == At(p.code, lo).arg
      driven(at, op) == At(p.code, at).op = op /\ At(p.code, at).arg = which
      rep == At(p.reps, which)
  IN  /\ At(p.code, lo).op = "OpRepZero"
      /\ hi - lo >= 4
      /\ which < Len(p.reps)
      /\ driven(lo + 1, "OpRepLoop") /\ driven(lo + 2, "OpRepEnter")
      /\ driven(hi - 1, "OpRepNext")
      /\ rep.head = lo + 1 /\ rep.body = lo + 2 /\ rep.after = hi

\* shape_repeat: an optional item, or the header of a counted repetition.
ShapeRepeat(p, here, kids) ==
  LET head == At(p.code, here.lo)
  IN  CASE here.hi <= here.lo -> "CrShape"
        [] here.hi > here.lo /\ head.op = "OpSplit" ->
             IF <<head.arg, head.alt>> \in {<<here.lo + 1, here.hi>>, <<here.hi, here.lo + 1>>}
             THEN ShapeSpan(p, here.lo + 1, here.hi, kids) ELSE "CrShape"
        [] OTHER -> IF ShapeLoop(p, here.lo, here.hi)
                    THEN ShapeSpan(p, here.lo + 3, here.hi - 1, kids) ELSE "CrShape"

\* cert_shape's rules about one region's place in the table.  Children come
\* after their parent, lie inside it, and one begins where the last had ended.
Placed(p, i) ==
  LET here == At(p.regions, i)
      outer == At(p.regions, here.parent)
      older == {j \in 1 .. (i - 1) : At(p.regions, j).parent = here.parent}
      ended == IF older = {} THEN outer.lo ELSE At(p.regions, Max(older)).hi
      orderly == here.parent # NONE /\ here.parent < i
  IN  FirstBroken(<<
        <<"CrTwoRoots", here.kind # "RkRoot">>,
        <<"CrParentOrder", orderly>>,
        <<"CrBackwards", here.lo <= here.hi>>,
        <<"CrNotNested", orderly => outer.lo <= here.lo /\ here.hi <= outer.hi>>,
        <<"CrOverlap", orderly => ended <= here.lo>>,
        <<"CrChildren", orderly /\ here.kind = "RkBranch" => outer.kind = "RkAlt">> >>)

ShapeRegion(p, i) ==
  LET here == At(p.regions, i)
      kids == Kids(p.regions, i)
  IN  CASE here.kind = "RkAlt" -> ShapeAlt(p, here, kids)
        [] here.kind = "RkRepeat" -> ShapeRepeat(p, here, kids)
        [] OTHER -> ShapeSpan(p, here.lo, here.hi, kids)

\* cert_shape: the root, then every region's place, then the code under each.
CertShape(p) ==
  LET root == At(p.regions, 0)
      rooted == FirstBroken(<<
        <<"CrRootKind", root.kind = "RkRoot">>,
        <<"CrRootParent", root.parent = NONE>>,
        <<"CrRootRange", root.lo = 0 /\ root.hi = Len(p.code)>> >>)
      placed == FirstRefusal(LAMBDA i : Placed(p, i + 1), Len(p.regions) - 1)
  IN  CASE p.regions = <<>> -> "CrNoRegions"
        [] p.regions # <<>> /\ rooted # "CrOk" -> rooted
        [] p.regions # <<>> /\ rooted = "CrOk" /\ placed # "CrOk" -> placed
        [] OTHER -> FirstRefusal(LAMBDA i : ShapeRegion(p, i), Len(p.regions))

-----------------------------------------------------------------------------
(* Do the claimed prices cover the code?                                   *)

Scanned(verdict, acc) == [verdict |-> verdict, acc |-> acc]

\* scan_span: the walk of the range, children at their claimed price.
ScanSpan(p, claims, lo, hi, kids) ==
  LET jump(s, claim, to) ==
        [s EXCEPT !.work = PolyAdd(@, PolyMul(s.flow, claim.work)),
                  !.stack = PolyAdd(@, PolyMul(s.flow, claim.stack)),
                  !.trail = PolyAdd(@, PolyMul(s.flow, claim.trail)),
                  !.flow = PolyMul(@, claim.outs),
                  !.pc = to, !.kids = Tail(@)]
      step(s) ==
        LET op == At(p.code, s.pc).op
            seen == [s EXCEPT !.work = PolyAdd(@, s.flow), !.pc = @ + 1]
        IN  CASE op = "OpSave" -> [seen EXCEPT !.trail = PolyAdd(@, s.flow)]
              [] op = "OpAccept" -> [seen EXCEPT !.flow = Zero]
              [] op \in SimpleOps -> seen
              [] OTHER -> [s EXCEPT !.verdict = "CrOpcode"]
      visit(s) ==
        IF s.verdict # "CrOk" \/ s.pc >= hi THEN s
        ELSE IF s.kids # <<>> /\ At(p.regions, Head(s.kids)).lo = s.pc
             THEN jump(s, claims[Head(s.kids)], At(p.regions, Head(s.kids)).hi)
             ELSE step(s)
      entry == [verdict |-> "CrOk", pc |-> lo, kids |-> kids, work |-> Zero,
                stack |-> Zero, trail |-> Zero, flow |-> Const(1)]
      after[k \in 0 .. Larger(0, hi - lo)] == IF k = 0 THEN entry ELSE visit(after[k - 1])
      end == after[Larger(0, hi - lo)]
  IN  Scanned(end.verdict, [q \in {"work", "stack", "trail", "flow"} |-> end[q]])

\* scan_alt: the sum of the branches, and a split and a jump for each but the last.
ScanAlt(claims, kids) ==
  LET total(Of(_)) == FoldLeft(LAMBDA s, kid : PolyAdd(s, Of(claims[kid])), Zero, kids)
      jumps == FoldLeft(LAMBDA s, kid : PolyAdd(s, claims[kid].outs), Zero, Front(kids))
      splits == Const(Len(kids) - 1)
  IN  Scanned("CrOk",
        [work  |-> PolyAdd(PolyAdd(splits, jumps), total(LAMBDA c : c.work)),
         stack |-> PolyAdd(splits, total(LAMBDA c : c.stack)),
         trail |-> total(LAMBDA c : c.trail),
         flow  |-> total(LAMBDA c : c.outs)])

\* Passes through the head when one pass leaves by at most one way, and when
\* it leaves by several.
Rounds(rep) ==
  IF rep.hi = NONE THEN Poly(1, rep.lo + 1, 1) ELSE Const(Larger(rep.lo, rep.hi) + 1)
Powers(rep, ways) ==
  LET raised == BoundPow(ways, IF rep.hi = NONE THEN rep.lo + 2
                               ELSE Larger(rep.lo, rep.hi) + 1)
  IN  [Poly(IF rep.hi = NONE THEN ways ELSE 1, raised.value, 0) EXCEPT !.over = ~raised.ok]

\* scan_repeat on a counted repetition: the head and the entry, the body, and
\* one tail per way out of it, each pass; the zeroing once.
ScanLoop(rep, body) ==
  LET ways == body.flow.coef[0]
      passes == IF ways > 1 THEN Powers(rep, ways) ELSE Rounds(rep)
      per == [Const(ways) EXCEPT !.over = body.flow.over]
      once(poly) == PolyAdd(Const(1), poly)
  IN  IF ~Flat(body.flow) THEN Scanned("CrAmbiguous", body)
      ELSE Scanned("CrOk",
             [work  |-> once(PolyMul(passes, PolyAdd(Const(2), PolyAdd(body.work, per)))),
              stack |-> PolyMul(passes, once(body.stack)),
              trail |-> once(PolyMul(passes, PolyAdd(once(per), body.trail))),
              flow  |-> PolyMul(passes, once(per))])

\* scan_repeat on an optional item: one split, and one more way out.
ScanOption(body) ==
  Scanned("CrOk", [body EXCEPT !.work = PolyAdd(@, Const(1)),
                     !.stack = PolyAdd(@, Const(1)), !.flow = PolyAdd(@, Const(1))])

ScanAround(p, head, span) ==
  CASE span.verdict # "CrOk" -> span
    [] span.verdict = "CrOk" /\ head.op = "OpSplit" -> ScanOption(span.acc)
    [] OTHER -> ScanLoop(At(p.reps, head.arg), span.acc)

\* scan_repeat, of a region whose shape has been accepted.
ScanRepeat(p, claims, lo, hi, kids) ==
  LET head == At(p.code, lo)
      skip == IF head.op = "OpSplit" THEN <<1, 0>> ELSE <<3, 1>>
  IN  ScanAround(p, head, ScanSpan(p, claims, lo + skip[1], hi - skip[2], kids))

ScanRegion(p, claims, i) ==
  LET here == At(p.regions, i)
      kids == Kids(p.regions, i)
  IN  CASE here.kind = "RkAlt" -> ScanAlt(claims, kids)
        [] here.kind = "RkRepeat" -> ScanRepeat(p, claims, here.lo, here.hi, kids)
        [] OTHER -> ScanSpan(p, claims, here.lo, here.hi, kids)

\* A region's claim is held to what its children's claims come to, and a sum
\* that stopped at the cap is refused before anything is compared with it.
Covers(claim, need) ==
  IF need.verdict # "CrOk" THEN need.verdict
  ELSE FirstBroken(<<
         <<"CrOverflow", ~Overflowed(need.acc)>>,
         <<"CrRegionWork", PolyGe(claim.work, need.acc.work)>>,
         <<"CrRegionOuts", PolyGe(claim.outs, need.acc.flow)>>,
         <<"CrRegionStack", PolyGe(claim.stack, need.acc.stack)>>,
         <<"CrRegionTrail", PolyGe(claim.trail, need.acc.trail)>> >>)

CheckRegion(p, claims, i) == Covers(claims[i], ScanRegion(p, claims, i))

\* Mutation: the two arrays may be claimed larger than the tree needs.
ChargeCallLoosely(p, cert) ==
  LET whole == cert.prices[0]
      deliver == Novec(p) * REG_SIZE
      setup == p.nregs * REG_SIZE + deliver
      room(held) == IF Nothing(held) THEN Zero
                    ELSE PolyAdd(Const(GROW_MIN), PolyMul(held, Const(GROW_FACTOR)))
      scratch == PolyAdd(PolyMul(room(whole.stack), Const(BT_SIZE)),
                         PolyMul(room(whole.trail), Const(UNDO_SIZE)))
      replay == PolyMul(whole.trail, Const(REG_SIZE))
      attempt == PolyAdd(Const(p.nregs * REG_SIZE), PolyAdd(whole.work, replay))
      cost == PolyAdd(Const(setup + deliver),
                      PolyAdd(PolyMul(attempt, PerStart), PolyMul(scratch, Const(3))))
      memory == PolyAdd(Const(setup + deliver), PolyMul(scratch, Const(2)))
  IN  FirstBroken(<<
        <<"CrOverflow", ~cost.over /\ ~memory.over>>,
        <<"CrTotalCost", PolyGe(cert.cost, cost)>>,
        <<"CrTotalStack", PolyGe(cert.stack, whole.stack)>>,
        <<"CrTotalTrail", PolyGe(cert.trail, whole.trail)>>,
        <<"CrTotalMem", PolyGe(cert.mem, memory)>> >>)

\* charge_call: what a call pays on top of the tree.  Cost and memory may be
\* claimed higher; the stack and the trail size a context's arrays, which the
\* memory was priced from, and must be the tree's own.
ChargeCall(p, cert) ==
  LET whole == cert.prices[0]
      deliver == Novec(p) * REG_SIZE
      setup == p.nregs * REG_SIZE + deliver
      room(held) == IF Nothing(held) THEN Zero
                    ELSE PolyAdd(Const(GROW_MIN), PolyMul(held, Const(GROW_FACTOR)))
      scratch == PolyAdd(PolyMul(room(whole.stack), Const(BT_SIZE)),
                         PolyMul(room(whole.trail), Const(UNDO_SIZE)))
      replay == PolyMul(whole.trail, Const(REG_SIZE))
      attempt == PolyAdd(Const(p.nregs * REG_SIZE), PolyAdd(whole.work, replay))
      cost == PolyAdd(Const(setup + deliver),
                      PolyAdd(PolyMul(attempt, PerStart), PolyMul(scratch, Const(3))))
      memory == PolyAdd(Const(setup + deliver), PolyMul(scratch, Const(2)))
  IN  FirstBroken(<<
        <<"CrOverflow", ~cost.over /\ ~memory.over>>,
        <<"CrTotalCost", PolyGe(cert.cost, cost)>>,
        <<"CrTotalStack", PolyEq(cert.stack, whole.stack)>>,
        <<"CrTotalTrail", PolyEq(cert.trail, whole.trail)>>,
        <<"CrTotalMem", PolyGe(cert.mem, memory)>> >>)

Totals == {"cost", "stack", "trail", "mem"}
Quantities == {"work", "outs", "stack", "trail"}

\* What cert_check asks of a certificate before any claim is compared.
Claimable(p, cert) ==
  LET regions == 0 .. (Len(p.regions) - 1)
  IN  FirstBroken(<<
        <<"CrPrices", DOMAIN cert.prices = regions>>,
        <<"CrBase", \A q \in Totals : cert[q].base # 0>>,
        <<"CrNotLinear", cert.complexity = "CcLinear" => Linear(cert.cost)>>,
        <<"CrBase", \A i \in DOMAIN cert.prices : \A q \in Quantities :
                      cert.prices[i][q].base # 0>> >>)

\* pike_check: the closed form has no regions to price and no arrays to bound.
PikeCheck(p, cert) ==
  LET needed == PikeCert(p)
  IN  IF ~Eligible(p) THEN "CrIneligible"
      ELSE FirstBroken(<<
        <<"CrConfig", cert.config = "CfgPike">>,
        <<"CrPrices", DOMAIN cert.prices = {}>>,
        <<"CrNotLinear", cert.complexity = "CcLinear" /\ Linear(cert.cost)>>,
        <<"CrOverflow", \A q \in {"cost", "mem"}, d \in Degrees : needed[q].coef[d] <= Cap>>,
        <<"CrTotalCost", PolyGe(cert.cost, needed.cost)>>,
        <<"CrTotalStack", PolyEq(cert.stack, needed.stack)>>,
        <<"CrTotalTrail", PolyEq(cert.trail, needed.trail)>>,
        <<"CrTotalMem", PolyGe(cert.mem, needed.mem)>> >>)
=============================================================================
