----------------------------- MODULE Certificate -----------------------------
(***************************************************************************)
(* What a caller may ask a compiled pattern before running it: the cost,   *)
(* the backtrack stack and the memory of a call on a subject of a given    *)
(* length (engine/accessors.py, with the arithmetic of engine/bounds.py).  *)
(* The answers come from the certificate of the matcher that will run.     *)
(***************************************************************************)
EXTENDS PikePrice

CONSTANTS
  Cap,        \* the largest counter, 2^53 - 1 in the code
  Ceiling,    \* tir.types.CEILING, the most bytes any array may hold
  MaxLength   \* spec.MAX_LENGTH, the longest subject

ASSUME CertificateAssumption ==
  Cap \in Nat /\ Ceiling \in Nat /\ MaxLength \in Nat

Found(value) == [ok |-> TRUE, value |-> value]
Exceeds == [ok |-> FALSE, value |-> 0]

\* A value no counter holds is no bound.  Every factor is at least one, so the
\* total is past the cap whenever a partial result is.
PolyValue(p, n) ==
  LET nothing == \A d \in Degrees : p.coef[d] = 0
  IN  IF nothing THEN Found(0)
      ELSE IF PolyAt(p, n) > Cap THEN Exceeds ELSE Found(PolyAt(p, n))

\* The certificate of the path that will run, and whether it carries one.
HasPick(re) ==
  IF re.pike THEN \A d \in {0, 1} : PikeCert(re).cost.coef[d] <= Cap
  ELSE re.hascert
Picked(re) == IF re.pike THEN PikeCert(re) ELSE re.cert

CertBound(cert, kind, n) ==
  LET ceiling == CASE kind = "cost"  -> Cap
                   [] kind = "stack" -> Ceiling \div BT_SIZE
                   [] kind = "mem"   -> Ceiling
      out == PolyValue(cert[kind], n)
  IN  IF out.ok /\ out.value > ceiling THEN Exceeds ELSE out

\* A request that is not well formed is refused before the certificate is
\* looked at; "default" is the only configuration there is.
ReBound(re, kind, mcfg, n) ==
  LET bound == CertBound(Picked(re), kind, n)
  IN  CASE mcfg # "default" \/ n > MaxLength -> [status |-> "BAD_INPUT", value |-> 0]
        [] mcfg = "default" /\ n <= MaxLength /\ (~HasPick(re) \/ ~bound.ok) ->
             [status |-> "EXCEEDS_BUDGET", value |-> 0]
        [] OTHER -> [status |-> "OK", value |-> bound.value]
=============================================================================
