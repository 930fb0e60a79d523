------------------------------ MODULE Program ------------------------------
(***************************************************************************)
(* What the two matchers of pcre-vera share: the compiled pattern `Re`,    *)
(* the arguments of one match call, and the questions either matcher asks  *)
(* of the subject.  A program is what engine/compiler.py emits: a sequence *)
(* of instructions addressed from zero, and a table of repetitions.        *)
(*                                                                         *)
(* Bytes are the few the engine tells apart: bytes of a word, the halves   *)
(* of a CRLF, one further Unicode-style newline ("VT" stands for 0x0B,     *)
(* 0x0C and 0x85) and one byte that is none of these.  OpChar, OpCharCI,   *)
(* OpClass and OpAny differ only in the set of bytes they accept, so an    *)
(* instruction carries that set.                                           *)
(***************************************************************************)
EXTENDS Integers, Sequences, FiniteSets

WordBytes == {"a", "b", "c", "d"}
Bytes == WordBytes \cup {"CR", "LF", "VT", "-"}

\* 0xFFFFFFFF in the code, as an unset register and as an open upper bound.
UNSET == -1
NONE == -1

GROW_MIN == 4
GROW_FACTOR == 2
BT_SIZE == 12
UNDO_SIZE == 8
REG_SIZE == 4

Larger(a, b) == IF a < b THEN b ELSE a

Statuses == {"NO_MATCH", "MATCHED", "RESOURCE_EXCEEDED", "BAD_INPUT"}

EaterOps == {"OpChar", "OpCharCI", "OpClass", "OpAny", "OpAnyNoNL", "OpBsr"}
AssertOps == {"OpCirc", "OpCircM", "OpDoll", "OpDollE", "OpDollM", "OpSod",
              "OpEod", "OpEodn", "OpWordB", "OpNotWordB"}
RepOps == {"OpRepZero", "OpRepEnter", "OpRepLoop", "OpRepNext"}
Ops == EaterOps \cup AssertOps \cup RepOps
         \cup {"OpSplit", "OpJump", "OpSave", "OpAccept"}

NewlineTypes == {"LF", "CR", "CRLF", "ANY", "ANYCRLF"}
MatchOptions == {"NOTBOL", "NOTEOL", "NOTEMPTY", "NOTEMPTY_ATSTART", "ANCHORED"}

\* Every array of the engine is addressed from zero.
At(s, i) == s[i + 1]

-----------------------------------------------------------------------------
(* The compiled pattern.                                                   *)

Insts == [op : Ops, arg : Nat, alt : Nat, set : SUBSET Bytes]
Reps == [lo : Nat, hi : Nat \cup {NONE}, greedy : BOOLEAN,
         head : Nat, body : Nat, after : Nat]

\* A bound: base^n times a polynomial in n + 1, n the length of the subject.
Degrees == 0 .. 4
Polys == [base : Nat, coef : [Degrees -> Nat]]
Certs == [cost : Polys, stack : Polys, trail : Polys, mem : Polys]

Res == [code : Seq(Insts), reps : Seq(Reps), ncap : Nat, nregs : Nat,
        nltype : NewlineTypes, bsr : {"UNICODE", "ANYCRLF"},
        anchored : BOOLEAN, hascrlf : BOOLEAN, crfirst : BOOLEAN,
        pike : BOOLEAN, hascert : BOOLEAN, cert : Certs]

Novec(re) == 2 * (re.ncap + 1)

\* A repetition's counter follows the capture slots, its entry mark the counter.
CountSlot(re, r) == Novec(re) + 2 * r
EntrySlot(re, r) == Novec(re) + 2 * r + 1

Slots(re) == 0 .. (re.nregs - 1)

\* Where control may go from address p without leaving the program.
Successors(re, p) ==
  LET inst == At(re.code, p)
  IN  CASE inst.op = "OpAccept" -> {}
        [] inst.op = "OpJump"   -> {inst.arg}
        [] inst.op = "OpSplit"  -> {inst.arg, inst.alt}
        [] inst.op = "OpRepLoop" -> {At(re.reps, inst.arg).body,
                                     At(re.reps, inst.arg).after}
        [] inst.op = "OpRepNext" -> {At(re.reps, inst.arg).head,
                                     At(re.reps, inst.arg).after}
        [] OTHER -> {p + 1}

\* What compilation guarantees of every program it hands out.
WellFormed(re) ==
  /\ re \in Res
  /\ Len(re.code) > 0
  /\ re.nregs = Novec(re) + 2 * Len(re.reps)
  /\ \A p \in 0 .. (Len(re.code) - 1) :
       LET inst == At(re.code, p)
       IN  /\ inst.op \in RepOps => inst.arg < Len(re.reps)
           /\ inst.op = "OpSave" => inst.arg < Novec(re)
           /\ Successors(re, p) \subseteq 0 .. (Len(re.code) - 1)
  /\ \A r \in 0 .. (Len(re.reps) - 1) :
       LET rep == At(re.reps, r)
       IN  {rep.head, rep.body, rep.after} \subseteq 0 .. (Len(re.code) - 1)

-----------------------------------------------------------------------------
(* One call: a pattern, a subject, a start offset, the match options and   *)
(* the caller's three limits.                                              *)

CallTypes ==
  [re : Res, subj : Seq(Bytes), start : Nat, mopts : SUBSET MatchOptions,
   costlimit : Nat, stacklimit : Nat, memlimit : Nat]

Size(c) == Len(c.subj)
Anchored(c) == c.re.anchored \/ "ANCHORED" \in c.mopts
Crlfish(re) == re.nltype \in {"CRLF", "ANYCRLF", "ANY"}

\* pcre2's bumpalong rule: do not start a match between a CR and its LF when
\* the convention makes them one newline and the pattern spells neither out.
SplitsCrlf(c, at) ==
  /\ Crlfish(c.re) /\ ~c.re.hascrlf /\ c.re.crfirst
  /\ at > 0 /\ at < Size(c)
  /\ At(c.subj, at - 1) = "CR"
  /\ At(c.subj, at) = "LF"

RefusesEmpty(c, began, pos) ==
  /\ pos = began
  /\ \/ "NOTEMPTY" \in c.mopts
     \/ ("NOTEMPTY_ATSTART" \in c.mopts /\ began = c.start)

-----------------------------------------------------------------------------
(* Where a newline starts, where one ends, and what \R eats.               *)

CrLfAt(s, pos) ==
  pos + 1 < Len(s) /\ At(s, pos) = "CR" /\ At(s, pos + 1) = "LF"

\* Length of the newline that starts at pos, zero if none does.
NewlineAt(s, pos, nl) ==
  IF pos >= Len(s) THEN 0
  ELSE CASE nl \in {"LF", "CR"} -> IF At(s, pos) = nl THEN 1 ELSE 0
         [] nl = "CRLF" -> IF CrLfAt(s, pos) THEN 2 ELSE 0
         [] OTHER -> IF CrLfAt(s, pos) THEN 2
                     ELSE IF At(s, pos) \in {"CR", "LF"}
                               \/ (nl = "ANY" /\ At(s, pos) = "VT")
                          THEN 1 ELSE 0

\* Length of the newline that ends just before pos, zero if none does.
NewlineBefore(s, pos, nl) ==
  IF pos = 0 THEN 0
  ELSE LET crlf == pos >= 2 /\ CrLfAt(s, pos - 2)
       IN  CASE nl \in {"LF", "CR"} -> IF At(s, pos - 1) = nl THEN 1 ELSE 0
             [] nl = "CRLF" -> IF crlf THEN 2 ELSE 0
             [] OTHER -> IF crlf THEN 2
                         ELSE IF At(s, pos - 1) \in {"CR", "LF"}
                                   \/ (nl = "ANY" /\ At(s, pos - 1) = "VT")
                              THEN 1 ELSE 0

BsrAt(s, pos, bsr) ==
  NewlineAt(s, pos, IF bsr = "ANYCRLF" THEN "ANYCRLF" ELSE "ANY")

AtLineEnd(s, pos, nl) ==
  \/ pos >= Len(s)
  \/ /\ NewlineAt(s, pos, nl) # 0
     /\ pos + NewlineAt(s, pos, nl) = Len(s)

WordEdge(s, pos) ==
  LET before == pos > 0 /\ At(s, pos - 1) \in WordBytes
      after  == pos < Len(s) /\ At(s, pos) \in WordBytes
  IN  before # after

-----------------------------------------------------------------------------
(* What an instruction asks of the subject.                                *)

\* How many bytes a consuming instruction eats at pos; zero is a failure.
Eats(c, inst, pos) ==
  CASE inst.op = "OpBsr" -> BsrAt(c.subj, pos, c.re.bsr)
    [] inst.op = "OpAnyNoNL" ->
         IF pos < Size(c) /\ NewlineAt(c.subj, pos, c.re.nltype) = 0 THEN 1 ELSE 0
    [] OTHER -> IF pos < Size(c) /\ At(c.subj, pos) \in inst.set THEN 1 ELSE 0

\* Does an assertion hold at pos?
Holds(c, op, pos) ==
  LET s == c.subj
      nl == c.re.nltype
      bol == "NOTBOL" \notin c.mopts
      eol == "NOTEOL" \notin c.mopts
  IN  CASE op = "OpCirc"  -> pos = 0 /\ bol
        [] op = "OpCircM" -> IF pos = 0 THEN bol
                             ELSE pos # Len(s) /\ NewlineBefore(s, pos, nl) # 0
        [] op = "OpDoll"  -> eol /\ AtLineEnd(s, pos, nl)
        [] op = "OpDollE" -> eol /\ pos = Len(s)
        [] op = "OpDollM" -> IF pos < Len(s) THEN NewlineAt(s, pos, nl) # 0 ELSE eol
        [] op = "OpSod"   -> pos = 0
        [] op = "OpEod"   -> pos = Len(s)
        [] op = "OpEodn"  -> AtLineEnd(s, pos, nl)
        [] op = "OpWordB" -> WordEdge(s, pos)
        [] op = "OpNotWordB" -> ~WordEdge(s, pos)

\* The capacity a full array takes when it grows (TIR-SPEC.md section 11.3).
GrownCap(oldcap, maxv) ==
  LET doubled == IF GROW_FACTOR * oldcap > GROW_MIN THEN GROW_FACTOR * oldcap
                 ELSE GROW_MIN
  IN  IF doubled > maxv THEN maxv ELSE doubled

\* The value of a bound for a subject of n bytes.  A base of one is answered
\* before any power is taken (bound_pow).
PolyAt(p, n) ==
  LET r == n + 1
      growth == IF p.base = 1 THEN 1 ELSE p.base ^ n
  IN  growth * (p.coef[0] + r * (p.coef[1] + r * (p.coef[2]
                    + r * (p.coef[3] + r * p.coef[4]))))

\* A doubling array that ever holds n entries ends no larger than this.
GrowthCap(n) == IF n = 0 THEN 0 ELSE GROW_MIN + GROW_FACTOR * n

-----------------------------------------------------------------------------
(***************************************************************************)
(* What a match promises, said without a stack, an undo trail, thread      *)
(* lists or charges: the leftmost start offset that matches, and there the *)
(* first accepting path in the order of preference the program lists its   *)
(* alternatives in.  Both matchers are held to it.                         *)
(***************************************************************************)
\* The configurations one instruction leads to, the preferred one first.
Arms(c, pc, pos, regs) ==
  LET inst == At(c.re.code, pc)
      rep == At(c.re.reps, inst.arg)
      on(target, rs) == [pc |-> target, pos |-> pos, regs |-> rs]
      count == regs[CountSlot(c.re, inst.arg)]
      again == [regs EXCEPT ![CountSlot(c.re, inst.arg)] = count + 1]
      spins == rep.hi = NONE /\ regs[EntrySlot(c.re, inst.arg)] = pos
                 /\ count + 1 >= rep.lo
      bodyThenAfter == IF rep.greedy
                       THEN <<on(rep.body, regs), on(rep.after, regs)>>
                       ELSE <<on(rep.after, regs), on(rep.body, regs)>>
  IN  CASE inst.op \in EaterOps ->
             IF Eats(c, inst, pos) = 0 THEN <<>>
             ELSE <<[pc |-> pc + 1, pos |-> pos + Eats(c, inst, pos),
                     regs |-> regs]>>
        [] inst.op \in AssertOps ->
             IF Holds(c, inst.op, pos) THEN <<on(pc + 1, regs)>> ELSE <<>>
        [] inst.op = "OpJump" -> <<on(inst.arg, regs)>>
        [] inst.op = "OpSplit" -> <<on(inst.arg, regs), on(inst.alt, regs)>>
        [] inst.op = "OpSave" -> <<on(pc + 1, [regs EXCEPT ![inst.arg] = pos])>>
        [] inst.op = "OpRepZero" ->
             <<on(pc + 1, [regs EXCEPT ![CountSlot(c.re, inst.arg)] = 0])>>
        [] inst.op = "OpRepEnter" ->
             <<on(pc + 1, [regs EXCEPT ![EntrySlot(c.re, inst.arg)] = pos])>>
        [] inst.op = "OpRepLoop" ->
             IF count < rep.lo THEN <<on(rep.body, regs)>>
             ELSE IF rep.hi # NONE /\ count >= rep.hi
                  THEN <<on(rep.after, regs)>> ELSE bodyThenAfter
        [] inst.op = "OpRepNext" ->
             <<on(IF spins THEN rep.after ELSE rep.head, again)>>
        [] inst.op = "OpAccept" -> <<>>

\* The start offset tried after `at`, by pcre2's bumpalong.
NextStart(c, at) == IF SplitsCrlf(c, at + 1) THEN at + 2 ELSE at + 1

\* The configuration an attempt at `at` begins in.
Opening(c, at) ==
  [pc |-> 0, pos |-> at, regs |-> [i \in Slots(c.re) |-> UNSET]]
=============================================================================
