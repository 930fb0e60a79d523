-------------------------------- MODULE Tree --------------------------------
(***************************************************************************)
(* The syntax tree of a pattern, and what compiling it is predicted to     *)
(* come to (size_node and plan_lowering of engine/compiler.py).  A tree is *)
(* an arena: a sequence of nodes, the root first, each naming its children *)
(* by index in order.                                                      *)
(***************************************************************************)
EXTENDS Program, SequencesExt

\* The caps of engine/spec.py, as one record, so that a run may try many.
CapNames == {"code", "regions", "reps", "regs", "jobs", "patches", "fuel"}

LeafOps == EaterOps \cup AssertOps
Kinds == {"Nil", "Leaf", "Concat", "Alt", "Group", "Repeat"}

\* A leaf has an opcode and the bytes it eats; a group its number, zero when
\* it captures nothing; a repetition its bounds and preference.
Nodes == [kind : Kinds, op : LeafOps \cup {"none"}, set : SUBSET Bytes,
          val : Nat, lo : Nat, hi : Nat \cup {NONE}, greedy : BOOLEAN,
          kids : Seq(Nat)]

IsTree(t) ==
  /\ t \in Seq(Nodes) /\ Len(t) > 0
  /\ \A n \in DOMAIN t : ToSet(t[n].kids) \subseteq (n + 1) .. Len(t)

Groups(t) == Cardinality({t[n].val : n \in {m \in DOMAIN t : t[m].kind = "Group"}} \ {0})

SumOf(s) == FoldLeft(LAMBDA x, y : x + y, 0, s)
MaxOf(s) == Max({0} \cup ToSet(s))

-----------------------------------------------------------------------------
(* The dry run: the size of what each node compiles to once every counted  *)
(* repetition is written out.                                              *)

IsStar(nd) == nd.lo = 0 /\ nd.hi = NONE
IsOption(nd) == nd.lo = 0 /\ nd.hi = 1
IsOnce(nd) == nd.lo = 1 /\ nd.hi = 1
Canonical(nd) == IsStar(nd) \/ IsOption(nd) \/ IsOnce(nd)

\* How often a repetition's body is written, the instructions, regions and
\* counters around it, and the visits its own job takes.
Spelling(nd) ==
  CASE IsOnce(nd)   -> [copies |-> 1, extra |-> 0, opened |-> 0, counters |-> 0, own |-> 2]
    [] IsOption(nd) -> [copies |-> 1, extra |-> 1, opened |-> 1, counters |-> 0, own |-> 2]
    [] nd.hi = NONE -> [copies |-> nd.lo + 1, extra |-> 4, opened |-> 1, counters |-> 1,
                        own |-> IF nd.lo = 0 THEN 2 ELSE nd.lo + 3]
    [] OTHER -> [copies |-> nd.hi, extra |-> nd.hi - nd.lo, opened |-> nd.hi - nd.lo,
                 counters |-> 0, own |-> nd.hi + 2]

Unit == [code |-> 0, regions |-> 0, reps |-> 0, visits |-> 1, depth |-> 1,
         patches |-> 0, nullable |-> FALSE, blockers |-> {}, needs |-> FALSE]

LeafSize(nd) ==
  [Unit EXCEPT !.code = 1, !.nullable = nd.op \in AssertOps,
               !.blockers = IF nd.op = "OpBsr" THEN {"BSR"} ELSE {}]

\* Siblings in a row, of which an alternation keeps one jump each waiting.
RowSize(nd, kids) ==
  LET n == Len(kids)
      alt == nd.kind = "Alt"
      of(F(_)) == [i \in 1 .. n |-> F(kids[i])]
      waiting(i) == IF alt THEN i - 1 ELSE 0
      split == alt /\ n > 1
  IN  [code |-> SumOf(of(LAMBDA k : k.code)) + (IF split THEN 2 * (n - 1) ELSE 0),
       regions |-> SumOf(of(LAMBDA k : k.regions)) + (IF split THEN n + 1 ELSE 0),
       reps |-> SumOf(of(LAMBDA k : k.reps)),
       visits |-> 1 + SumOf(of(LAMBDA k : k.visits)) + n,
       depth |-> MaxOf(of(LAMBDA k : k.depth)) + 1,
       patches |-> MaxOf([i \in 1 .. n |-> waiting(i) + kids[i].patches]),
       nullable |-> IF alt THEN \E i \in 1 .. n : kids[i].nullable
                    ELSE \A i \in 1 .. n : kids[i].nullable,
       blockers |-> UNION {kids[i].blockers : i \in 1 .. n},
       needs |-> \E i \in 1 .. n : kids[i].needs]

GroupSize(nd, kids) ==
  LET body == IF kids = <<>> THEN [Unit EXCEPT !.visits = 0, !.depth = 0, !.nullable = TRUE]
              ELSE kids[1]
      code == body.code + (IF nd.val # 0 THEN 2 ELSE 0)
  IN  [body EXCEPT !.code = code, !.visits = @ + 2, !.depth = @ + 1,
                   !.regions = @ + (IF code # 0 THEN 1 ELSE 0)]

\* Repeated zero times, nothing under it is compiled.
RepeatSize(nd, body) ==
  LET how == Spelling(nd)
  IN  IF nd.hi = 0 THEN [Unit EXCEPT !.nullable = TRUE]
      ELSE [code |-> how.copies * body.code + how.extra,
            regions |-> how.copies * body.regions + how.opened,
            reps |-> how.copies * body.reps + how.counters,
            visits |-> how.copies * body.visits + how.own,
            depth |-> body.depth + 1, patches |-> body.patches,
            nullable |-> nd.lo = 0 \/ body.nullable,
            blockers |-> body.blockers
                           \cup (IF nd.hi = NONE /\ body.nullable THEN {"NULLABLE"} ELSE {}),
            needs |-> body.needs \/ ~Canonical(nd)]

SizeNode(nd, kids) ==
  CASE nd.kind = "Nil" -> [Unit EXCEPT !.nullable = TRUE]
    [] nd.kind = "Leaf" -> LeafSize(nd)
    [] nd.kind \in {"Concat", "Alt"} -> RowSize(nd, kids)
    [] nd.kind = "Group" -> GroupSize(nd, kids)
    [] nd.kind = "Repeat" -> RepeatSize(nd, kids[1])

\* Children before parents: `done` holds the sizes of the nodes after this one.
SizeOf(t) ==
  LET add(nd, done) ==
        LET at == Len(t) - Len(done)
        IN  <<SizeNode(nd, [i \in DOMAIN nd.kids |-> done[nd.kids[i] - at]])>> \o done
  IN  FoldRight(add, t, <<>>)[1]

-----------------------------------------------------------------------------
(* The decision: lower the whole pattern, or leave it in counter form.     *)

CountRegs(ncap, nrep) == 2 * (ncap + 1) + 2 * nrep

\* What the walk is predicted to reach, entry by entry of the caps.
FitVector(t, endanchored) ==
  LET root == SizeOf(t)
  IN  [code |-> root.code + (IF endanchored THEN 2 ELSE 1),
       regions |-> root.regions + 1, reps |-> root.reps,
       regs |-> CountRegs(Groups(t), root.reps), jobs |-> root.depth,
       patches |-> root.patches, fuel |-> root.visits]

\* Exactly at a cap is a fit, one past it the fallback.
Fits(fit, caps) == \A c \in CapNames : fit[c] <= caps[c]

Decision(t, fit, caps) ==
  LET root == SizeOf(t)
  IN  CASE ~root.needs -> "NOT_NEEDED"
        [] root.needs /\ root.blockers # {} -> "BLOCKED"
        [] root.needs /\ root.blockers = {} /\ Fits(fit, caps) -> "LOWERED"
        [] OTHER -> "CAPPED"
=============================================================================
