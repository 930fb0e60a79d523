----------------------------- MODULE PikePrice -----------------------------
(***************************************************************************)
(* What compilation decides about the lockstep matcher of engine/pike.py   *)
(* from the program alone: whether it may run there, how much each array   *)
(* may have to hold, and the closed form of its cost and memory.           *)
(***************************************************************************)
EXTENDS Program

Arrays == {"clist", "nlist", "stk", "pool", "rc", "free"}
TH_SIZE == 8
SLOT_SIZE == 4
EntrySize(a) == IF a \in {"clist", "nlist", "stk"} THEN TH_SIZE ELSE SLOT_SIZE
Words(re) == Len(re.code) \div 8 + 1

-----------------------------------------------------------------------------
(* Which programs may run here, and what a run may cost.                   *)

\* Addresses reachable from `froms` without eating a byte, in k steps.
Unfed(re, froms) ==
  LET eats(p) == At(re.code, p).op \in EaterOps
      reach[k \in 0 .. Len(re.code)] ==
        IF k = 0 THEN froms
        ELSE LET sofar == reach[k - 1]
             IN  sofar \cup UNION {Successors(re, p) : p \in {q \in sofar : ~eats(q)}}
  IN  reach[Len(re.code)]

\* Mutation: an iteration always eats.
HollowNever(re, r) == FALSE

\* pike_hollow: can this star complete an iteration without eating?
Hollow(re, r) == At(re.reps, r).after - 1 \in Unfed(re, {At(re.reps, r).body})

\* pike_ok: every repetition a pure star over a body that eats, and no \R.
Eligible(re) ==
  /\ \A r \in 0 .. (Len(re.reps) - 1) :
       At(re.reps, r).lo = 0 /\ At(re.reps, r).hi = NONE /\ ~Hollow(re, r)
  /\ \A p \in 0 .. (Len(re.code) - 1) : At(re.code, p).op # "OpBsr"

-----------------------------------------------------------------------------
(* Capacities and prices.                                                  *)

\* Mutation: one block for each of the two lists.
PikeRoomTight(re) ==
  LET size == Len(re.code)
  IN  [a \in Arrays |->
         CASE a \in {"clist", "nlist"} -> GrowthCap(size)
           [] a = "stk" -> GrowthCap(2 * size)
           [] a = "pool" -> 2 * Novec(re)
           [] OTHER -> 2]

\* pike_room: the capacity each array may reach, from counts of the program.
PikeRoom(re) ==
  LET size == Len(re.code)
      blocks == 4 * size + 2
  IN  [a \in Arrays |->
         CASE a \in {"clist", "nlist"} -> GrowthCap(size)
           [] a = "stk" -> GrowthCap(2 * size)
           [] a = "pool" -> GrowthCap(blocks * Novec(re))
           [] OTHER -> GrowthCap(blocks)]

Reserved(re) ==
  LET held(a) == PikeRoom(re)[a] * EntrySize(a)
  IN  held("clist") + held("nlist") + held("stk") + held("rc") + held("free")
        + held("pool")

\* pike_price: the closed form, linear in n + 1, that is its certificate.
PikeCert(re) ==
  LET block == Novec(re) * REG_SIZE
      saves == Cardinality({p \in 1 .. Len(re.code) : re.code[p].op = "OpSave"})
      setup == 2 * block + Words(re)
      position == 2 * Len(re.code) + (saves + 2) * block + Words(re)
      line(c0, c1) ==
        [base |-> 1, coef |-> [d \in Degrees |-> CASE d = 0 -> c0
                                                   [] d = 1 -> c1
                                                   [] OTHER -> 0]]
  IN  [cost |-> line(setup + 3 * Reserved(re), position),
       stack |-> line(0, 0), trail |-> line(0, 0),
       mem |-> line(setup + 2 * Reserved(re), 0)]
=============================================================================
