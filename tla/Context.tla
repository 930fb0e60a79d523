------------------------------- MODULE Context -------------------------------
(***************************************************************************)
(* The preallocated match context of engine/context.py.  Creation asks     *)
(* re_mem what a call on the longest subject may hold, reserves exactly    *)
(* that, and a call then runs on the reserved scratch: it may lower the    *)
(* limits the context was created with and may not raise them.             *)
(*                                                                         *)
(* A context outlives its calls and may be created again over itself, so   *)
(* what one call leaves in the scratch is what the next one finds.  The    *)
(* two matchers run on it as they are, BtVM and PikeVM.                    *)
(***************************************************************************)
EXTENDS Certificate

CONSTANTS
  Creations,  \* the arguments ctx_create may be called with
  Requests,   \* the arguments ctx_match may be called with
  MaxMade     \* how many calls the caller makes

VARIABLES
  ctx,        \* the scalar fields of the context
  serving,    \* ctx_match has entered a matcher and not yet returned
  made,       \* calls made so far
  call, phase, result, ov, use, pos,                   \* either matcher
  pc, attempt, regs, bt, btcap, trail, trailcap, mark, \* the backtracking one
  cost, mem, peak, stackpeak,
  heap, seen, into, next, mh, seeding                  \* the lockstep one

btvars == <<pc, attempt, regs, bt, btcap, trail, trailcap, mark, cost, mem,
            peak, stackpeak>>
pikevars == <<heap, seen, into, next, mh, seeding>>
vars == <<ctx, serving, made, call, phase, result, ov, use, pos, btvars, pikevars>>

MaxStack == Ceiling \div BT_SIZE
MaxTrail == Ceiling \div UNDO_SIZE

Bt == INSTANCE BtVM WITH Calls <- {}
Pike == INSTANCE PikeVM WITH Calls <- {}, MaxCode <- 64, MaxOvec <- 16

Idle == ~serving /\ made < MaxMade

-----------------------------------------------------------------------------
(* ctx_create.                                                             *)

\* Mutation: the trail is left to grow.
TrailCapNone(re, n) == 0

\* The capacity of every array of the path that will run; the others stay empty.
BtCap(re, n) == GrowthCap(PolyValue(re.cert.stack, n).value)
TrailCap(re, n) == GrowthCap(PolyValue(re.cert.trail, n).value)

\* Mutation: the result store is forgotten.
HeldWithoutAnswer(re, n) ==
  IF re.pike THEN Pike!Setup([re |-> re]) + Reserved(re)
  ELSE Bt!Setup([re |-> re]) + BtCap(re, n) * BT_SIZE + TrailCap(re, n) * UNDO_SIZE

\* What the arrays come to, the result store included.
Held(re, n) ==
  LET answer == Novec(re) * REG_SIZE
  IN  answer + IF re.pike THEN Pike!Setup([re |-> re]) + Reserved(re)
               ELSE Bt!Setup([re |-> re]) + BtCap(re, n) * BT_SIZE
                      + TrailCap(re, n) * UNDO_SIZE

\* The first refusal that applies, or OK.
Verdict(c) ==
  LET asked == ReBound(c.re, "mem", c.mcfg, c.maxlen)
      unsized == ~c.re.pike /\ ( \/ ~PolyValue(c.re.cert.stack, c.maxlen).ok
                                 \/ ~PolyValue(c.re.cert.trail, c.maxlen).ok )
  IN  IF asked.status # "OK" THEN asked.status
      ELSE IF \/ unsized
              \/ Held(c.re, c.maxlen) > Cap
              \/ Held(c.re, c.maxlen) > asked.value
           THEN "EXCEEDS_BUDGET"
           ELSE IF asked.value > c.memlimit \/ asked.value > c.costlimit
                THEN "RESOURCE_EXCEEDED" ELSE "OK"

\* A refusal leaves the context not ready and otherwise as it was; success
\* replaces it wholesale, arrays included.
Create(c) ==
  LET resident == ReBound(c.re, "mem", c.mcfg, c.maxlen).value
  IN  /\ Idle
      /\ made' = made + 1
      /\ result' = Verdict(c)
      /\ IF Verdict(c) = "OK"
         THEN /\ ctx' = [ready |-> TRUE, re |-> c.re, maxlen |-> c.maxlen,
                         costcap |-> c.costlimit, stackcap |-> c.stacklimit,
                         memcap |-> resident,
                         slack |-> resident - Held(c.re, c.maxlen)]
              /\ regs' = <<>> /\ bt' = <<>> /\ trail' = <<>>
              /\ btcap' = IF c.re.pike THEN 0 ELSE BtCap(c.re, c.maxlen)
              /\ trailcap' = IF c.re.pike THEN 0 ELSE TrailCap(c.re, c.maxlen)
              /\ heap' = Pike!Stale(IF c.re.pike THEN PikeRoom(c.re) ELSE Pike!NoCaps)
              /\ seen' = {}
         ELSE /\ ctx' = [ctx EXCEPT !.ready = FALSE]
              /\ UNCHANGED <<regs, bt, trail, btcap, trailcap, heap, seen>>
      /\ UNCHANGED <<serving, call, phase, ov, use, pos, pc, attempt, mark, cost,
                     mem, peak, stackpeak, into, next, mh, seeding>>

-----------------------------------------------------------------------------
(* ctx_match.                                                              *)

\* Mutation: a call may raise the cost limit of its context.
AdmitsAnyCost(r) ==
  /\ ctx.ready
  /\ Len(r.subj) <= ctx.maxlen
  /\ r.stacklimit <= ctx.stackcap

\* A call the context was not sized for never reaches a matcher.
Admits(r) ==
  /\ ctx.ready
  /\ Len(r.subj) <= ctx.maxlen
  /\ r.costlimit <= ctx.costcap
  /\ r.stacklimit <= ctx.stackcap

Refuse(r) ==
  /\ Idle /\ ~Admits(r)
  /\ made' = made + 1
  /\ result' = "BAD_INPUT"
  /\ use' = Bt!NoUse
  /\ UNCHANGED <<ctx, serving, call, phase, ov, pos, btvars, pikevars>>

\* The memory limit of the run is the reservation.
Serve(r) ==
  LET c == [re |-> ctx.re, subj |-> r.subj, start |-> r.start, mopts |-> r.mopts,
            costlimit |-> r.costlimit, stacklimit |-> r.stacklimit,
            memlimit |-> ctx.memcap]
  IN  /\ Idle /\ Admits(r)
      /\ made' = made + 1
      /\ serving' = TRUE
      /\ \/ /\ ctx.re.pike
            /\ Pike!Enter(c, heap.cap)
            /\ UNCHANGED btvars
         \/ /\ ~ctx.re.pike
            /\ Bt!Enter(c, btcap, trailcap)
            /\ UNCHANGED pikevars
      /\ UNCHANGED ctx

BtStep ==
  /\ serving /\ ~call.re.pike
  /\ Bt!Run
  /\ UNCHANGED <<ctx, serving, made, pikevars>>

PikeStep ==
  /\ serving /\ call.re.pike
  /\ Pike!Run
  /\ UNCHANGED <<ctx, serving, made, btvars>>

\* The memory a call on a context reports is the reservation, whatever ran.
Deliver ==
  /\ serving /\ phase = "done"
  /\ serving' = FALSE
  /\ use' = [use EXCEPT !.mem = ctx.memcap]
  /\ UNCHANGED <<ctx, made, call, phase, result, ov, pos, btvars, pikevars>>

-----------------------------------------------------------------------------
Init ==
  /\ ctx = [ready |-> FALSE, re |-> NONE, maxlen |-> 0, costcap |-> 0,
            stackcap |-> 0, memcap |-> 0, slack |-> 0]
  /\ serving = FALSE /\ made = 0
  /\ call = NONE /\ phase = "idle" /\ result = "NO_MATCH"
  /\ ov = <<>> /\ use = Bt!NoUse /\ pos = 0
  /\ pc = 0 /\ attempt = 0 /\ mark = 0
  /\ regs = <<>> /\ bt = <<>> /\ btcap = 0 /\ trail = <<>> /\ trailcap = 0
  /\ cost = 0 /\ mem = 0 /\ peak = 0 /\ stackpeak = 0
  /\ heap = Pike!Stale(Pike!NoCaps) /\ seen = {} /\ into = "clist"
  /\ next = 0 /\ mh = NONE /\ seeding = TRUE

\* The caller has made the calls it wanted.
Enough == ~serving /\ made = MaxMade /\ UNCHANGED vars

Next ==
  \/ \E c \in Creations : Create(c)
  \/ \E r \in Requests : Refuse(r) \/ Serve(r)
  \/ BtStep \/ PikeStep \/ Deliver
  \/ Enough

Spec == Init /\ [][Next]_vars

-----------------------------------------------------------------------------
(* Properties.                                                             *)

\* The reservation is the number re_mem names, to the byte, and no array of it
\* is larger than the engine may ever hold.
ReservationExact ==
  LET weight(a) == heap.cap[a] * EntrySize(a)
      setup == IF ctx.re.pike THEN Pike!Setup([re |-> ctx.re])
               ELSE Bt!Setup([re |-> ctx.re])
      arrays == btcap * BT_SIZE + trailcap * UNDO_SIZE
                  + weight("clist") + weight("nlist") + weight("stk")
                  + weight("pool") + weight("rc") + weight("free")
  IN  ctx.ready =>
        /\ Novec(ctx.re) * REG_SIZE + setup + arrays + ctx.slack
             = ReBound(ctx.re, "mem", "default", ctx.maxlen).value
        /\ ctx.slack >= 0
        /\ btcap <= MaxStack /\ trailcap <= MaxTrail

\* A call on a context allocates nothing: no array grows while it is served.
ReservationStands ==
  [][serving => UNCHANGED <<btcap, trailcap>> /\ heap'.cap = heap.cap]_vars
=============================================================================
