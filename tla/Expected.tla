------------------------------ MODULE Expected ------------------------------
(***************************************************************************)
(* The answer of a call, computed outright from Program's Arms.  RECURSIVE *)
(* operators keep this module to the model checker's runs.                 *)
(***************************************************************************)
EXTENDS Program

NoAnswer == [status |-> "NO_MATCH", ov |-> <<>>]

\* The registers an accepted path delivers.
Delivered(c, regs, began, pos) ==
  [i \in 0 .. (Novec(c.re) - 1) |->
     CASE i = 0 -> began [] i = 1 -> pos [] OTHER -> regs[i]]

\* The first answer among configurations in order of preference.
RECURSIVE FirstOf(_, _, _)
FirstOf(c, began, todo) ==
  IF todo = <<>> THEN NoAnswer
  ELSE LET here == Head(todo)
           rest == Tail(todo)
       IN  IF At(c.re.code, here.pc).op = "OpAccept"
             /\ ~RefusesEmpty(c, began, here.pos)
           THEN [status |-> "MATCHED",
                 ov |-> Delivered(c, here.regs, began, here.pos)]
           ELSE FirstOf(c, began, Arms(c, here.pc, here.pos, here.regs) \o rest)

RECURSIVE Leftmost(_, _)
Leftmost(c, at) ==
  LET here == FirstOf(c, at, <<Opening(c, at)>>)
  IN  IF here.status = "MATCHED" \/ Anchored(c) \/ at >= Size(c) THEN here
      ELSE Leftmost(c, NextStart(c, at))

\* The answer of a call that no limit cuts short.
ExpectedAnswer(c) == Leftmost(c, c.start)
=============================================================================
