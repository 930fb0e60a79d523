---------------------------- MODULE BtSemantics ----------------------------
(***************************************************************************)
(* The backtracking matcher against Expected, the answer the program's     *)
(* order of preference defines, and against the certificates the compiler  *)
(* issued for these programs.                                              *)
(***************************************************************************)
EXTENDS BtRefinement, Expected, Patterns

BtCalls == MatchCalls \cup LongCalls

\* The certificate covers this call: it claims no more than the caller allows
\* and than an array may hold.
Covered ==
  LET claim(kind) == PolyAt(Re.cert[kind], Size(call))
  IN  /\ Re.hascert
      /\ claim("cost") <= call.costlimit /\ claim("mem") <= call.memlimit
      /\ claim("stack") <= call.stacklimit /\ claim("stack") <= MaxStack
      /\ claim("trail") <= MaxTrail

\* A call answers what the program's order of preference defines,
\* captures included; or it runs out of a limit, and then the certificate did
\* not cover it.  The answer is all or nothing: a call that does not match
\* leaves no offset behind.
AnswersExpected ==
  phase = "done" /\ result # "BAD_INPUT" =>
    /\ LET want == ExpectedAnswer(call)
       IN  \/ result = "RESOURCE_EXCEEDED" /\ ~Covered
           \/ result = "NO_MATCH" /\ want.status = "NO_MATCH"
           \/ result = "MATCHED" /\ want.status = "MATCHED" /\ ov = want.ov
    /\ result # "MATCHED" => \A i \in DOMAIN ov : ov[i] = UNSET

\* A run never spends, stacks, records or holds more than the certificate the
\* program carries claims for a subject of its length.
WithinCertificate ==
  phase \in Live \cup {"done"} /\ result # "BAD_INPUT" /\ Re.hascert =>
    LET claim(kind) == PolyAt(Re.cert[kind], Size(call))
    IN  /\ cost <= claim("cost") /\ peak <= claim("mem")
        /\ stackpeak <= claim("stack") /\ Len(trail) <= claim("trail")
=============================================================================
