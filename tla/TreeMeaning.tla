---------------------------- MODULE TreeMeaning ----------------------------
(***************************************************************************)
(* What a syntax tree matches, said on the tree: every way it can match    *)
(* from a position, the preferred first.  No program, stack or counter     *)
(* register is involved; code generation is held to it.  RECURSIVE         *)
(* operators keep this module to the model checker's runs.                 *)
(***************************************************************************)
EXTENDS Tree, Expected

-----------------------------------------------------------------------------
(* Trees put together from smaller ones, for the runs that compile some.    *)

Leaf(op, set) == <<[kind |-> "Leaf", op |-> op, set |-> set, val |-> 0, lo |-> 0,
                    hi |-> 0, greedy |-> TRUE, kids |-> <<>>]>>
Nil == <<[Leaf("OpChar", {})[1] EXCEPT !.kind = "Nil", !.op = "none"]>>

Shift(t, by) == [n \in DOMAIN t |->
                   [t[n] EXCEPT !.kids = [i \in DOMAIN @ |-> @[i] + by]]]

\* A node over the given trees, its children's nodes after its own.
Over(node, parts) ==
  LET start[i \in 1 .. (Len(parts) + 1)] ==
        IF i = 1 THEN 2 ELSE start[i - 1] + Len(parts[i - 1])
  IN  <<[node EXCEPT !.kids = [i \in DOMAIN parts |-> start[i]]]>>
        \o FlattenSeq([i \in DOMAIN parts |-> Shift(parts[i], start[i] - 1)])

Node(kind) == [Nil[1] EXCEPT !.kind = kind]
Cat(parts) == Over(Node("Concat"), parts)
Or(parts) == Over(Node("Alt"), parts)
Cap1(n, parts) == Over([Node("Group") EXCEPT !.val = n], parts)
Times(lo, hi, greedy, t) ==
  Over([Node("Repeat") EXCEPT !.lo = lo, !.hi = hi, !.greedy = greedy], <<t>>)

A == Leaf("OpChar", {"a"})
B == Leaf("OpChar", {"b"})

-----------------------------------------------------------------------------
(* What they match.                                                        *)

Then(outcomes, F(_)) == FlattenSeq([i \in DOMAIN outcomes |-> F(outcomes[i])])

RECURSIVE Ways(_, _, _, _), Row(_, _, _, _), Again(_, _, _, _, _)

\* One after another, from the k-th on.
Row(t, c, kids, at) ==
  IF kids = <<>> THEN <<at>>
  ELSE Then(Ways(t, c, Head(kids), at), LAMBDA o : Row(t, c, Tail(kids), o))

\* A repetition that has been round `count` times.  An iteration without a
\* maximum that ate nothing is the last, once the minimum is met.
Again(t, c, n, at, count) ==
  LET nd == t[n]
      onward(o) == IF nd.hi = NONE /\ o.pos = at.pos /\ count + 1 >= nd.lo
                   THEN <<o>> ELSE Again(t, c, n, o, count + 1)
      more == Then(Ways(t, c, nd.kids[1], at), onward)
  IN  CASE count < nd.lo -> more
        [] count >= nd.lo /\ nd.hi # NONE /\ count >= nd.hi -> <<at>>
        [] OTHER -> IF nd.greedy THEN Append(more, at) ELSE <<at>> \o more

Ways(t, c, n, at) ==
  LET nd == t[n]
      inst == [op |-> nd.op, arg |-> 0, alt |-> 0, set |-> nd.set]
      eaten == Eats(c, inst, at.pos)
      entered == [at EXCEPT !.regs[2 * nd.val] = at.pos]
      leave(o) == <<[o EXCEPT !.regs[2 * nd.val + 1] = o.pos]>>
  IN  CASE nd.kind = "Nil" -> <<at>>
        [] nd.kind = "Leaf" /\ nd.op \in AssertOps ->
             IF Holds(c, nd.op, at.pos) THEN <<at>> ELSE <<>>
        [] nd.kind = "Leaf" /\ nd.op \in EaterOps ->
             IF eaten = 0 THEN <<>> ELSE <<[at EXCEPT !.pos = @ + eaten]>>
        [] nd.kind = "Concat" -> Row(t, c, nd.kids, at)
        [] nd.kind = "Alt" -> Then(nd.kids, LAMBDA k : Ways(t, c, k, at))
        [] nd.kind = "Group" ->
             IF nd.val = 0 THEN Row(t, c, nd.kids, at)
             ELSE Then(Row(t, c, nd.kids, entered), leave)
        [] nd.kind = "Repeat" -> Again(t, c, n, at, 0)

\* The answer of an attempt at `began`, as FirstOf gives it for a program.
TreeAnswer(t, c, endanchored, began) ==
  LET blank == [pos |-> began, regs |-> [i \in 0 .. (Novec(c.re) - 1) |-> UNSET]]
      good(o) == (endanchored => o.pos = Size(c)) /\ ~RefusesEmpty(c, began, o.pos)
      found == SelectSeq(Ways(t, c, 1, blank), good)
  IN  IF found = <<>> THEN NoAnswer
      ELSE [status |-> "MATCHED",
            ov |-> [i \in DOMAIN found[1].regs |->
                      CASE i = 0 -> began [] i = 1 -> found[1].pos
                        [] OTHER -> found[1].regs[i]]]
=============================================================================
