----------------------------- MODULE ContextRun -----------------------------
(***************************************************************************)
(* A caller that creates contexts over one another and matches on them:    *)
(* patterns of both paths and one nobody could price, limits at and just   *)
(* below what creation needs, and requests at and past the ceilings.       *)
(***************************************************************************)
EXTENDS Context, Patterns

Bounded(re, kind, n) == ReBound(re, kind, "default", n).value

\* Limits that cover a call on the longest subject.
Exactly(re, n) ==
  [re |-> re, mcfg |-> "default", maxlen |-> n,
   costlimit |-> LET a == Bounded(re, "cost", n)
                     b == Bounded(re, "mem", n) IN IF a > b THEN a ELSE b,
   stacklimit |-> Bounded(re, "stack", n), memlimit |-> Bounded(re, "mem", n)]

SmallCreations ==
  LET creations == {Exactly(re, n) : re \in {Counted, Restore, Lines}, n \in {1, 3}}
                     \cup {Exactly(Bsr, 1), Exactly(Star, 1)}
      tight == {Exactly(Counted, 1), Exactly(Restore, 3)}
  IN  creations
      \cup {[c EXCEPT !.memlimit = @ - 1] : c \in tight}
      \cup {[c EXCEPT !.costlimit = c.memlimit - 1] : c \in tight}
      \cup {[Exactly(Lines, 1) EXCEPT !.mcfg = "memo"], Exactly(Lines, 5)}

Request(s, b, x, y) ==
  [subj |-> s, start |-> b, mopts |-> {}, costlimit |-> x, stacklimit |-> y]

SmallRequests ==
  {Request(s, 0, x, y) :
     s \in {<<"a">>, <<"a", "b", "a">>, <<"CR", "LF", "a">>, <<>>},
     x \in {100, 1000, 20000}, y \in {0, 16}}
  \cup {Request(s, 1, 1000, 16) : s \in {<<>>, <<"CR", "LF", "a">>}}

\* What the caller sees of the context.
Promise ==
  INSTANCE ContextPromise WITH
    armed <- IF ~ctx.ready THEN <<>>
             ELSE <<[re |-> ctx.re, maxlen |-> ctx.maxlen, costcap |-> ctx.costcap,
                     stackcap |-> ctx.stackcap, memcap |-> ctx.memcap]>>,
    pending <- IF serving THEN <<call>> ELSE <<>>,
    out <- IF serving THEN <<>>
           ELSE <<[status |-> result, mem |-> use.mem,
                   ov |-> IF result = "MATCHED" THEN ov ELSE <<>>]>>

\* The context keeps its promise, through any sequence of creations, refused
\* creations and calls: nothing an earlier call or an earlier context left in
\* the scratch changes a later answer, and nothing outgrows the reservation.
Kept == Promise!PromiseSpec
=============================================================================
