--------------------------- MODULE ContextPromise ---------------------------
(***************************************************************************)
(* What a match context promises its caller, without scratch or matchers:  *)
(* creation is decided by what the accessors answer and nothing else; a    *)
(* request inside the ceilings of a created context gets the answer the    *)
(* pattern's order of preference defines, or runs out of a limit that the  *)
(* certificate does not cover; any other request is bad input.             *)
(***************************************************************************)
EXTENDS Certificate, Expected

CONSTANTS Creations, Requests

VARIABLES
  armed,    \* what the context was last created for: one record, or none
  pending,  \* the call being served, if there is one
  out       \* what the last call returned, unless one is pending

vars == <<armed, pending, out>>

Reply(status, ov, mem) == <<[status |-> status, ov |-> ov, mem |-> mem]>>

\* Creation can be planned from the accessors: their refusal is its refusal,
\* and their number is all the limits have to cover.
Create(c) ==
  LET asked == ReBound(c.re, "mem", c.mcfg, c.maxlen)
      covered == asked.value <= c.memlimit /\ asked.value <= c.costlimit
      status == IF asked.status # "OK" THEN asked.status
                ELSE IF covered THEN "OK" ELSE "RESOURCE_EXCEEDED"
  IN  /\ pending = <<>>
      /\ armed' = IF status # "OK" THEN <<>>
                  ELSE <<[re |-> c.re, maxlen |-> c.maxlen,
                          costcap |-> c.costlimit, stackcap |-> c.stacklimit,
                          memcap |-> asked.value]>>
      /\ out' = Reply(status, <<>>, out[1].mem)
      /\ UNCHANGED pending

Fits(r) ==
  /\ armed # <<>>
  /\ Len(r.subj) <= armed[1].maxlen
  /\ r.costlimit <= armed[1].costcap /\ r.stacklimit <= armed[1].stackcap

Ask(r) ==
  /\ pending = <<>> /\ Fits(r)
  /\ pending' = <<[re |-> armed[1].re, subj |-> r.subj, start |-> r.start,
                   mopts |-> r.mopts, costlimit |-> r.costlimit,
                   stacklimit |-> r.stacklimit, memlimit |-> armed[1].memcap]>>
  /\ out' = <<>>
  /\ UNCHANGED armed

Reject(r) ==
  /\ pending = <<>> /\ ~Fits(r)
  /\ out' = Reply("BAD_INPUT", <<>>, 0)
  /\ UNCHANGED <<armed, pending>>

\* Limits the certificate covers for this subject are limits that suffice.
Covered(c) ==
  /\ c.costlimit >= PolyAt(Picked(c.re).cost, Len(c.subj))
  /\ c.stacklimit >= PolyAt(Picked(c.re).stack, Len(c.subj))

Answer ==
  /\ pending # <<>>
  /\ pending' = <<>>
  /\ UNCHANGED armed
  /\ LET c == pending[1]
         want == ExpectedAnswer(c)
     IN  \/ /\ c.start > Len(c.subj)
            /\ out' = Reply("BAD_INPUT", <<>>, c.memlimit)
         \/ /\ c.start <= Len(c.subj)
            /\ out' = Reply(want.status,
                            IF want.status = "MATCHED" THEN want.ov ELSE <<>>,
                            c.memlimit)
         \/ /\ c.start <= Len(c.subj)
            /\ ~Covered(c)
            /\ out' = Reply("RESOURCE_EXCEEDED", <<>>, c.memlimit)

Init == armed = <<>> /\ pending = <<>> /\ out = Reply("NO_MATCH", <<>>, 0)

Next ==
  \/ \E c \in Creations : Create(c)
  \/ \E r \in Requests : Ask(r) \/ Reject(r)
  \/ Answer

PromiseSpec == Init /\ [][Next]_vars
=============================================================================
