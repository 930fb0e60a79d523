---------------------------- MODULE PikeAnswers ----------------------------
(***************************************************************************)
(* The lockstep matcher against Expected, the answer preference defines    *)
(* and the backtracking matcher is held to.                                *)
(***************************************************************************)
EXTENDS PikeVM, Expected, Patterns

\* The closed form covers this call.
Covered ==
  /\ PolyAt(PikeCert(Re).cost, Size(call)) <= call.costlimit
  /\ PolyAt(PikeCert(Re).mem, Size(call)) <= call.memlimit

\* On a program it accepts, a call answers what the program's order of preference defines,
\* captures included; or it runs out of a limit, and then the certificate did
\* not cover it.
AnswersExpected ==
  phase = "done" /\ result # "BAD_INPUT" =>
    LET want == ExpectedAnswer(call)
    IN  \/ result = "RESOURCE_EXCEEDED" /\ ~Covered
        \/ result = "NO_MATCH" /\ want.status = "NO_MATCH"
        \/ result = "MATCHED" /\ want.status = "MATCHED" /\ ov = want.ov
=============================================================================
