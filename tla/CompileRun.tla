----------------------------- MODULE CompileRun -----------------------------
(***************************************************************************)
(* Compilation from tree to certificate to match.  A pattern is compiled   *)
(* for its meaning, to meet the caps, to be matched, or to have its region *)
(* table or its certificate disturbed and judged again.                    *)
(***************************************************************************)
EXTENDS Compile, TreeMeaning

TheAims == {"meaning", "caps", "calls", "regions", "claims"}

-----------------------------------------------------------------------------
(* The trees, and the caps they are compiled under.                        *)

Star(t) == Times(0, NONE, TRUE, t)
Opt(t) == Times(0, 1, TRUE, t)
Ab == Or(<<A, B>>)
Newline == Leaf("OpBsr", {})
CarriageReturn == Leaf("OpChar", {"CR"})
LineEnd == Leaf("OpDollM", {})

Quantifiers == {<<0, NONE>>, <<0, 1>>, <<1, 1>>, <<0, 0>>, <<1, NONE>>, <<2, NONE>>,
                <<2, 2>>, <<1, 2>>, <<0, 2>>, <<1, 3>>}

Bodies == {A, Nil, LineEnd, Newline, CarriageReturn, Leaf("OpAny", Bytes), Ab,
           Or(<<A>>), Cap1(1, <<A>>), Cap1(1, <<Or(<<A, Cat(<<A, B>>)>>)>>), Cap1(0, <<>>),
           Cap1(1, <<Star(A)>>), Cap1(1, <<Times(0, 1, FALSE, B)>>),
           Or(<<Cap1(1, <<A>>), Cap1(2, <<B>>), Nil>>), Times(1, 2, TRUE, A),
           Cap1(0, <<Times(0, 0, TRUE, B)>>)}

Repeated == {Times(q[1], q[2], g, t) : q \in Quantifiers, g \in BOOLEAN, t \in Bodies}
Embedded == {Cat(<<r, B>>) : r \in Repeated} \cup {Or(<<Cat(<<B, r>>), A>>) : r \in Repeated}

\* Written out, the last two cost the walk 32 and 34 visits, either side of the
\* fuel some of the caps below allow it.
CapTrees ==
  {Cat(<<A, Or(<<A, B, Cap1(1, <<Or(<<B, A>>)>>)>>), Opt(A)>>),
   Cap1(1, <<Times(2, 3, TRUE, Ab)>>), Times(1, NONE, FALSE, Cap1(1, <<A>>)),
   Times(2, 2, TRUE, Times(2, 3, TRUE, A)), Times(15, 15, TRUE, A), Times(0, 16, TRUE, A)}

CallTrees ==
  LET rep == {Times(q[1], q[2], g, t) :
                q \in {<<0, NONE>>, <<0, 1>>, <<2, NONE>>, <<2, 3>>}, g \in BOOLEAN,
                t \in {A, Nil, Ab, Cap1(1, <<A>>), Cap1(1, <<Opt(A)>>), Star(A), Newline}}
  IN  rep \cup {Cat(<<r, B>>) : r \in rep} \cup {Or(<<Cat(<<A, r>>), B>>) : r \in rep}
          \cup {Cat(<<Star(A), Star(B), Star(A), Star(B)>>), Star(Star(Opt(A))),
                Cat(<<Star(Ab), Star(A)>>),
                Times(1, 3, TRUE, Times(1, 3, TRUE, Or(<<A, Cat(<<A, B>>), Nil>>)))}

FewTrees ==
  {Cap1(1, <<Or(<<A, Cat(<<A, B>>), Nil>>)>>), Cat(<<Opt(Cap1(1, <<A>>)), Star(Ab)>>),
   Times(2, 3, FALSE, Cap1(1, <<Opt(A)>>)), Or(<<Star(Opt(A)), B>>)}

Roomy == [c \in CapNames |-> 1000]
Swept(name, values) == {[Roomy EXCEPT ![name] = v] : v \in values}

EveryCap ==
  Swept("code", 0 .. 36) \cup Swept("regions", 0 .. 18) \cup Swept("reps", 0 .. 2)
    \cup Swept("regs", 2 .. 8) \cup Swept("jobs", 0 .. 6) \cup Swept("patches", 0 .. 3)
    \cup Swept("fuel", 30 .. 36)

InputsOver(trees, ends, capsets) == [tree : trees, endanchored : ends, caps : capsets]

\* Under tight repetitions and jobs nothing that repeats much is lowered.
TheInputs(a) ==
  LET tight == [Roomy EXCEPT !.reps = 1, !.jobs = 12]
      few == [Roomy EXCEPT !.jobs = 3]
  IN  CASE a = "meaning" -> InputsOver(Repeated, BOOLEAN, {Roomy, tight})
                              \cup InputsOver(Embedded, {FALSE}, {Roomy})
        [] a = "caps"    -> InputsOver(CapTrees, {FALSE}, EveryCap)
                              \cup InputsOver(CapTrees, {TRUE}, Swept("code", 0 .. 36))
        [] a = "calls"   -> InputsOver(CallTrees, {FALSE}, {Roomy, few})
        [] a = "regions" -> InputsOver(FewTrees, BOOLEAN, {Roomy, few})
        [] a = "claims"  -> InputsOver(FewTrees, {FALSE}, {[Roomy EXCEPT !.code = 12]})

TheSubjects(a) ==
  CASE a \in {"meaning", "caps"} -> {}
    [] a = "calls" -> UNION {[1 .. k -> {"a", "b"}] : k \in 0 .. 3} \cup {<<"CR", "LF", "a">>}
    [] OTHER -> {<<>>, <<"a">>, <<"a", "b">>, <<"a", "a", "b">>}

-----------------------------------------------------------------------------
(* Disturbed tables: one field of one region changed, or one region gone.  *)

Without(table, i) ==
  LET up == At(table, i).parent
      moved(r) == CASE r.parent = i -> [r EXCEPT !.parent = up]
                    [] r.parent > i -> [r EXCEPT !.parent = @ - 1]
                    [] OTHER -> r
  IN  [j \in 1 .. (Len(table) - 1) |-> moved(IF j <= i THEN table[j] ELSE table[j + 1])]

Changed(table, i) ==
  LET r == table[i]
      kinds == {"RkRoot", "RkGroup", "RkBranch", "RkAlt", "RkRepeat"}
  IN  {[r EXCEPT !.kind = k] : k \in kinds} \cup {[r EXCEPT !.parent = q] : q \in -1 .. 2}
        \cup {[r EXCEPT !.lo = l] : l \in {r.lo - 1, r.lo + 1} \cap Nat}
        \cup {[r EXCEPT !.hi = h] : h \in {r.hi - 1, r.hi + 1} \cap Nat}

TheTables(a, p) ==
  IF a # "regions" THEN {}
  ELSE {<<>>} \cup {Without(p.regions, i) : i \in 1 .. (Len(p.regions) - 1)}
         \cup {[p.regions EXCEPT ![i] = r] :
                 <<i, r>> \in UNION {{i} \X Changed(p.regions, i) : i \in DOMAIN p.regions}}

-----------------------------------------------------------------------------
(* Disturbed certificates: up to two of the numbers off by one, one growth *)
(* base lost, a total dropped, the class claimed better, or a price        *)
(* missing.                                                                *)

Off(cert0, s, by) ==
  IF s.of = "call"
  THEN [cert0 EXCEPT ![s.q].coef[s.d] = @ + by]
  ELSE [cert0 EXCEPT !.prices[s.i][s.q].coef[s.d] = @ + by]

Sites(p) ==
  [of : {"call"}, i : {0}, q : {"cost", "stack", "trail", "mem"}, d : {0, 1}]
    \cup [of : {"region"}, i : 0 .. (Len(p.regions) - 1),
          q : {"work", "outs", "stack", "trail"}, d : {0, 1}]

Coef(cert0, s) ==
  IF s.of = "call" THEN cert0[s.q].coef[s.d] ELSE cert0.prices[s.i][s.q].coef[s.d]

Nudged(p, cert0) ==
  {Off(cert0, s, by) : <<s, by>> \in
     {x \in Sites(p) \X {-1, 1} : Coef(cert0, x[1]) + x[2] >= 0}}

TheClaims(a, p, cert0) ==
  IF a # "claims" THEN {}
  ELSE Nudged(p, cert0)
         \cup UNION {Nudged(p, c) : c \in {Off(cert0, s, 1) : s \in Sites(p)}}
         \cup {[cert0 EXCEPT ![q] = Pricing!Zero] : q \in {"cost", "stack", "trail", "mem"}}
         \cup {[cert0 EXCEPT ![q].base = b] : q \in {"cost", "mem"}, b \in {0, 2}}
         \cup {[cert0 EXCEPT !.complexity = "CcLinear"],
               [cert0 EXCEPT !.complexity = "CcLinear", !.cost.coef[2] = @ + 1],
               [cert0 EXCEPT !.prices = [i \in DOMAIN @ \ {0} |-> @[i]]]}

-----------------------------------------------------------------------------
(* Properties.                                                             *)

\* The generator has just handed out its program.
Emitted == stage = "done" /\ err = "none" /\ answer = "none" /\ step = "idle"

Written ==
  [code |-> code, reps |-> reps, ncap |-> Groups(tree), crfirst |-> crfirst,
   nregs |-> CountRegs(Groups(tree), Len(reps)), pike |-> FALSE]

CallOn(subject, mopts) == Ample(Written, subject, mopts)

Probes == UNION {[1 .. k -> {"a", "b"}] : k \in 0 .. 3}
            \cup {<<"CR">>, <<"CR", "LF">>, <<"a", "CR">>, <<"CR", "b">>}

\* What the program matches is what the tree says, with the same preference
\* and the same captures, whichever form each repetition was given: the
\* promise generate, walk_repeat and walk_lowered make together.
MeaningKept ==
  aim = "meaning" /\ Emitted => \A s \in Probes, m \in {{}, {"NOTEMPTY"}} : \A b \in 0 .. Len(s) :
    LET c == CallOn(s, m)
    IN  FirstOf(c, b, <<Opening(c, b)>>) = TreeAnswer(tree, c, endanchored, b)

\* Every program handed out is one the matchers may run: its addresses are in
\* range and its splits and jumps all patched (no target is left at zero).
EmittedWellFormed ==
  Emitted => /\ WellFormed(ForMatch(Written))
             /\ patches = <<>> /\ jobs = <<>>
             /\ \A p \in DOMAIN code :
                  /\ code[p].op \in {"OpJump", "OpSplit"} => code[p].arg > 0
                  /\ code[p].op = "OpSplit" => code[p].alt > 0

\* The pre-check on the tree and the lockstep matcher's own test on the
\* program agree (compiler.py, on assertions in size_node): a program written
\* from a tree without blockers is eligible if nothing was left in counter
\* form, and no other is.
PrecheckAgrees ==
  Emitted => (Pricing!Eligible(Written) <=> (SizeOf(tree).blockers = {} /\ Predicted))

\* scan_first may only err towards "yes": a program it says cannot begin with
\* a CR matches nothing at a CR, so stepping over the LF after it is sound.
CrFirstSound ==
  (Emitted /\ ~crfirst) => \A s \in Probes : \A b \in 0 .. (Len(s) - 1) :
    (At(s, b) = "CR" /\ ~endanchored) =>
       TreeAnswer(tree, CallOn(s, {}), FALSE, b).status = "NO_MATCH"

Covers(i, j) == regions[i].lo <= regions[j].lo /\ regions[j].hi <= regions[i].hi

\* The region table is the tree certificates are checked against: parents come
\* first and enclose, siblings follow one another without overlap, only the
\* root has no parent, and it covers the program.
RegionsNest ==
  Emitted =>
    /\ regions[1] = [kind |-> "RkRoot", parent |-> NONE, lo |-> 0, hi |-> Len(code)]
    /\ \A j \in 2 .. Len(regions) :
         LET i == regions[j].parent + 1
         IN  /\ i \in 1 .. (j - 1) /\ Covers(i, j)
             /\ regions[j].kind # "RkBranch" => regions[j].lo < regions[j].hi
    /\ \A j, k \in 2 .. Len(regions) :
         (j < k /\ regions[j].parent = regions[k].parent) => regions[j].hi <= regions[k].lo

\* No walk that has not been refused is past a cap.
InsideCaps ==
  err = "none" => /\ Len(code) <= caps.code /\ Len(regions) <= caps.regions
                  /\ Len(reps) <= caps.reps /\ Len(jobs) <= caps.jobs
                  /\ Len(patches) <= caps.patches /\ used <= caps.fuel

\* The dry run and the walk are two calculations of one program; where they
\* describe the same one they agree to the last entry, and no walk runs dry.
NeverInternal == err # "E_INTERNAL"

\* A lowered candidate was cleared by the dry run, so writing it cannot fail;
\* a pattern with nothing to lower fails exactly when it did not fit.
ClearedIsWritten ==
  stage = "done" =>
    /\ lowdec = "LOWERED" => err = "none"
    /\ lowdec = "NOT_NEEDED" =>
         (err = "none" <=> \A c \in CapNames \ {"regs", "fuel"} : fit[c] <= caps[c])

Value(poly, n) == PolyAt(poly, n)
Lengths == 0 .. 4

\* No pattern makes the engine contradict itself: the caps decide exactly, what
\* was cleared is written, the table the generator wrote describes its code, and
\* what the analyzer claims the checker accepts (program.py reports E_INTERNAL
\* otherwise).
NoContradiction ==
  InsideCaps /\ NeverInternal /\ ClearedIsWritten /\ answer # "E_INTERNAL"

\* A certificate the checker accepted, whoever wrote it and over whichever
\* region table, bounds every run: work, stack, undo trail and memory
\* (certificate.py, its opening promise).
AcceptedBounds ==
  has /\ phase # "idle" =>
    LET n == Len(call.subj)
    IN  /\ cost <= Value(cert.cost, n) /\ peak <= Value(cert.mem, n)
        /\ stackpeak <= Value(cert.stack, n) /\ Len(trail) <= Value(cert.trail, n)

\* The memory an accepted certificate names pays for the arrays its stack and
\* its trail size (charge_call's coherence rule), so that a context that
\* reserves them up front stays inside it.
MemoryPays ==
  has /\ phase = "idle" => \A n \in Lengths :
    (prog.nregs + 2 * (2 * (prog.ncap + 1))) * REG_SIZE
      + GrowthCap(Value(cert.stack, n)) * BT_SIZE
      + GrowthCap(Value(cert.trail, n)) * UNDO_SIZE <= Value(cert.mem, n)

\* Nobody's accepted claim is below what the analyzer found for the same code,
\* at any length: the search is as tight as its rules allow.
NoneTighter ==
  (has /\ phase = "idle" /\ honest.config # "none") => \A q \in Pricing!Totals, n \in Lengths :
    Value(cert[q], n) >= Value(honest[q], n)

\* The choice of matcher and the two certificates go together: a pattern sent
\* to the lockstep matcher has its closed form unless that form overflowed, no
\* other has one, and a lowered program is always sent there.
RoutedRight ==
  answer = "compiled" /\ tried = "nothing" /\ phase = "idle" =>
    /\ haspike => prog.pike
    /\ prog.pike /\ ~haspike =>
         \E q \in {"cost", "mem"}, d \in Degrees : Pricing!PikeCert(prog)[q].coef[d] > Cap
    /\ Lowering => prog.pike

\* Whatever code generation hands out is sound: well formed, its regions
\* nested, and with the tests made on the tree and on the program agreeing.
ProgramSound ==
  EmittedWellFormed /\ RegionsNest /\ PrecheckAgrees /\ CrFirstSound /\ RoutedRight

\* Whatever the checker accepts is a promise kept: it bounds every run, pays
\* for its arrays, and is nowhere below the honest one.
ClaimsBound == AcceptedBounds /\ MemoryPays /\ NoneTighter
=============================================================================
