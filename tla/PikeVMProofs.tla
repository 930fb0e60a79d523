---------------------------- MODULE PikeVMProofs ----------------------------
(***************************************************************************)
(* The capture pool of the lockstep matcher, for every set of calls of     *)
(* well-formed programs: a block's count is the number of its holders, a   *)
(* block nobody holds is free, once, and a shared block is never written.  *)
(***************************************************************************)
EXTENDS PikeVM, ProgramProofs

-----------------------------------------------------------------------------
(* The books.  A handler may have popped a thread and not yet parked it:   *)
(* `hand` counts the holds it has in hand.                                 *)

Values == Nat \cup {UNSET}

Heaps ==
  [clist : Seq(Threads(Re)), nlist : Seq(Threads(Re)), stk : Seq(Threads(Re)),
   pool : Seq(Values), rc : Seq(Nat), free : Seq(Nat),
   cap : [Arrays -> Nat], cost : Nat, mem : Nat, peak : Nat, ok : BOOLEAN]

Hands == [Nat -> Nat]
NoHand == [b \in Nat |-> 0]
More(hand, b) == [hand EXCEPT ![b] = @ + 1]
Less(hand, b) == [hand EXCEPT ![b] = @ - 1]

Matches == Nat \cup {NONE}
Blocks(h) == 0 .. (Len(h.rc) - 1)

\* The threads of a list from the lo-th on that hold block b.
Holders(list, lo, b) == {k \in lo .. Len(list) : list[k].h = b}
Held(list, lo, b) == Cardinality(Holders(list, lo, b))
One(x, y) == IF x = y THEN 1 ELSE 0

\* Every hold on block b: the part of clist not stepped yet, nlist, the
\* closure's stack, the recorded match m, and what is in hand.
Owed(h, lo, m, hand, b) ==
  Held(h.clist, lo, b) + Held(h.nlist, 1, b) + Held(h.stk, 1, b)
    + One(m, b) + hand[b]

\* What the pool says: a block that does not exist counts no holder.
Tally(h, b) == IF b < Len(h.rc) THEN h.rc[b + 1] ELSE 0

Counted(h, lo, m, hand) == \A b \in Nat : Tally(h, b) = Owed(h, lo, m, hand, b)

FreeRight(h) ==
  /\ \A k \in 1 .. Len(h.free) : h.free[k] \in Blocks(h)
  /\ \A j, k \in 1 .. Len(h.free) : h.free[j] = h.free[k] => j = k
  /\ \A b \in Blocks(h) : h.rc[b + 1] = 0 <=> \E k \in 1 .. Len(h.free) : h.free[k] = b

Books(h, lo, m, hand) ==
  /\ Counted(h, lo, m, hand)
  /\ FreeRight(h)
  /\ Len(h.pool) = Len(h.rc) * Width

\* The books of a heap that no limit has refused are right.
Good(h, lo, m, hand) == h \in Heaps /\ (h.ok => Books(h, lo, m, hand))

-----------------------------------------------------------------------------
(* The inductive invariant.                                                *)

\* A thread in a list waits on an instruction that eats, or accepts.
Parked(h) ==
  /\ \A k \in 1 .. Len(h.clist) : Instr(h.clist[k].pc).op \in EaterOps \cup {"OpAccept"}
  /\ \A k \in 1 .. Len(h.nlist) : Instr(h.nlist[k].pc).op \in EaterOps \cup {"OpAccept"}

IInv ==
  /\ call \in Calls
  /\ phase \in Live \cup {"idle", "done"}
  /\ heap \in Heaps
  /\ pos \in Nat /\ next \in Nat /\ into \in {"clist", "nlist"} /\ mh \in Matches
  /\ phase \in {"seed", "closure", "clear", "step"} => heap.ok
  /\ phase \in {"seed", "clear"} \/ (phase = "closure" /\ into = "clist") => next = 0
  /\ phase \in Live => Good(heap, Unstepped, mh, NoHand)
  /\ Running => Parked(heap)

-----------------------------------------------------------------------------
(* Counting the holders of a block in a list.                              *)

LEMMA HoldersFinite ==
  ASSUME NEW list, Len(list) \in Nat, NEW lo \in Nat, NEW b
  PROVE  IsFiniteSet(Holders(list, lo, b)) /\ Held(list, lo, b) \in Nat
<1>1. IsFiniteSet(lo .. Len(list))
  BY FS_Interval
<1>2. Holders(list, lo, b) \subseteq lo .. Len(list)
  BY DEF Holders
<1>3. QED BY <1>1, <1>2, FS_Subset, FS_CardinalityType DEF Held

\* Past the end of a list nothing is held.
LEMMA HeldPast ==
  ASSUME NEW list, Len(list) \in Nat, NEW lo \in Nat, lo > Len(list), NEW b
  PROVE  Held(list, lo, b) = 0
<1>1. Holders(list, lo, b) = {}
  BY DEF Holders
<1>2. QED BY <1>1, FS_EmptySet DEF Held

\* Where no hold is counted, no thread holds the block.
LEMMA HeldNone ==
  ASSUME NEW list, Len(list) \in Nat, NEW lo \in Nat, NEW b, Held(list, lo, b) = 0
  PROVE  \A k \in lo .. Len(list) : list[k].h # b
<1>1. Holders(list, lo, b) = {}
  BY HoldersFinite, FS_EmptySet DEF Held
<1>2. QED BY <1>1 DEF Holders

\* One more thread at the end of a list.
LEMMA HeldAppend ==
  ASSUME NEW S, NEW list \in Seq(S), NEW e \in S, NEW lo \in Nat \ {0}, NEW b,
         lo <= Len(list) + 1
  PROVE  Held(Append(list, e), lo, b) = Held(list, lo, b) + One(e.h, b)
<1> DEFINE q == Append(list, e)
           n == Len(list)
<1>1. /\ n \in Nat /\ Len(q) = n + 1 /\ q[n + 1] = e
      /\ \A k \in 1 .. n : q[k] = list[k]
  BY AppendProperties, LenProperties
<1> HIDE DEF q
<1>2. IsFiniteSet(Holders(list, lo, b)) /\ Held(list, lo, b) \in Nat
  BY <1>1, HoldersFinite
<1>3. n + 1 \notin Holders(list, lo, b)
  BY <1>1 DEF Holders
<1>4. CASE e.h = b
  <2>1. Holders(q, lo, b) = Holders(list, lo, b) \cup {n + 1}
    BY <1>1, <1>4 DEF Holders
  <2>2. QED BY ZenonT(40), <1>2, <1>3, <1>4, <2>1, FS_AddElement DEF Held, One, q
<1>5. CASE e.h # b
  <2>1. Holders(q, lo, b) = Holders(list, lo, b)
    BY <1>1, <1>5 DEF Holders
  <2>2. QED BY <1>2, <1>5, <2>1 DEF Held, One, q
<1>6. QED BY <1>4, <1>5

\* The first counted thread of a list, and the others.
LEMMA HeldStep ==
  ASSUME NEW list, Len(list) \in Nat, NEW lo \in Nat, lo <= Len(list), NEW b
  PROVE  Held(list, lo, b) = Held(list, lo + 1, b) + One(list[lo].h, b)
<1>1. IsFiniteSet(Holders(list, lo + 1, b)) /\ Held(list, lo + 1, b) \in Nat
  BY HoldersFinite
<1>2. lo \notin Holders(list, lo + 1, b)
  BY DEF Holders
<1>3. CASE list[lo].h = b
  <2>1. Holders(list, lo, b) = Holders(list, lo + 1, b) \cup {lo}
    BY <1>3 DEF Holders
  <2>2. QED BY ZenonT(40), <1>1, <1>2, <1>3, <2>1, FS_AddElement DEF Held, One
<1>4. CASE list[lo].h # b
  <2>1. Holders(list, lo, b) = Holders(list, lo + 1, b)
    BY <1>4 DEF Holders
  <2>2. QED BY <1>1, <1>4, <2>1 DEF Held, One
<1>5. QED BY <1>3, <1>4

\* The last thread of a list, and the others.
LEMMA HeldPop ==
  ASSUME NEW S, NEW list \in Seq(S), list # <<>>, NEW b
  PROVE  Held(list, 1, b) = Held(SubSeq(list, 1, Len(list) - 1), 1, b)
                              + One(list[Len(list)].h, b)
<1> DEFINE q == SubSeq(list, 1, Len(list) - 1)
           n == Len(list)
<1>1. /\ n \in Nat \ {0} /\ Len(q) = n - 1
      /\ \A k \in 1 .. (n - 1) : q[k] = list[k]
  BY AllButLast
<1> HIDE DEF q
<1>2. IsFiniteSet(Holders(q, 1, b)) /\ Held(q, 1, b) \in Nat
  BY <1>1, HoldersFinite
<1>3. n \notin Holders(q, 1, b)
  BY <1>1 DEF Holders
<1>4. CASE list[n].h = b
  <2>1. Holders(list, 1, b) = Holders(q, 1, b) \cup {n}
    BY <1>1, <1>4 DEF Holders
  <2>2. QED BY <1>2, <1>3, <1>4, <2>1, FS_AddElement DEF Held, One, q
<1>5. CASE list[n].h # b
  <2>1. Holders(list, 1, b) = Holders(q, 1, b)
    BY <1>1, <1>5 DEF Holders
  <2>2. QED BY <1>2, <1>5, <2>1 DEF Held, One, q
<1>6. QED BY <1>4, <1>5

-----------------------------------------------------------------------------
(* Hands.                                                                  *)

\* Taking a hold in hand and giving it up.
LEMMA HandTaken ==
  ASSUME NEW hand \in Hands, NEW b \in Nat
  PROVE  /\ More(hand, b) \in Hands
         /\ \A c \in Nat : More(hand, b)[c] = hand[c] + One(b, c)
BY DEF Hands, More, One

LEMMA HandGiven ==
  ASSUME NEW hand \in Hands, NEW b \in Nat, hand[b] > 0
  PROVE  /\ Less(hand, b) \in Hands
         /\ \A c \in Nat : Less(hand, b)[c] = hand[c] - One(b, c)
BY DEF Hands, Less, One

\* A hold taken and given up again leaves the hand as it was.
LEMMA HandBack ==
  ASSUME NEW hand \in Hands, NEW b \in Nat
  PROVE  Less(More(hand, b), b) = hand
<1>1. More(hand, b) \in Hands /\ More(hand, b)[b] > 0
  <2>1. More(hand, b) \in Hands /\ \A c \in Nat : More(hand, b)[c] = hand[c] + One(b, c)
    BY HandTaken
  <2>2. hand[b] \in Nat /\ One(b, b) = 1
    BY DEF Hands, One
  <2>3. QED BY <2>1, <2>2
<1> DEFINE l == Less(More(hand, b), b)
<1>2. l \in [Nat -> Nat] /\ hand \in [Nat -> Nat]
  BY <1>1, HandGiven DEF Hands
<1>3. \A c \in Nat : l[c] = hand[c]
  <2> TAKE c \in Nat
  <2>1. l[c] = More(hand, b)[c] - One(b, c)
    BY <1>1, HandGiven
  <2>2. More(hand, b)[c] = hand[c] + One(b, c)
    BY HandTaken
  <2>3. hand[c] \in Nat /\ One(b, c) \in Nat
    BY DEF One, Hands
  <2> HIDE DEF l
  <2>4. QED BY <2>1, <2>2, <2>3
<1> HIDE DEF l
<1>4. l = hand
  BY <1>2, <1>3
<1>5. QED BY <1>4 DEF l

LEMMA EmptyHand == NoHand \in Hands /\ \A c \in Nat : NoHand[c] = 0
BY DEF NoHand, Hands

-----------------------------------------------------------------------------
(* Heaps.  A helper that was refused leaves a heap whose arrays no longer   *)
(* matter; one that was not changes the array it is for and no other.      *)

Lists == {"clist", "nlist", "stk"}

\* The entries an array may hold.
Entries(a) ==
  IF a \in Lists THEN Threads(Re)
  ELSE IF a = "pool" THEN Values ELSE Nat

\* r's arrays are h's, but for those in X.
Kept(h, r, X) ==
  /\ "clist" \notin X => r.clist = h.clist
  /\ "nlist" \notin X => r.nlist = h.nlist
  /\ "stk" \notin X => r.stk = h.stk
  /\ "pool" \notin X => r.pool = h.pool
  /\ "rc" \notin X => r.rc = h.rc
  /\ "free" \notin X => r.free = h.free

\* A call's figures are natural numbers.
LEMMA CallFigures ==
  ASSUME call \in Calls
  PROVE  /\ Width \in Nat \ {0} /\ Block \in Nat
         /\ call.memlimit \in Nat /\ call.costlimit \in Nat
         /\ WellFormed(Re) /\ Len(Re.code) \in Nat \ {0}
         /\ Words(Re) \in Nat /\ Setup(call) \in Nat
         /\ \A a \in Arrays : Portable(a) \in Nat /\ EntrySize(a) \in {4, 8}
<1>1. /\ call \in CallTypes /\ WellFormed(Re) /\ Re \in Res
      /\ MaxCode \in Nat /\ MaxOvec \in Nat
  BY PikeCallsAssumption, PikeBoundsAssumption DEF Re, WellFormed
<1>2. Re.ncap \in Nat /\ Len(Re.code) \in Nat /\ Len(Re.code) > 0
  BY <1>1 DEF WellFormed, Res
<1>3. Width \in Nat \ {0} /\ Block \in Nat
  BY SMTT(30), <1>2 DEF Width, Novec, Block, REG_SIZE
<1>4. call.memlimit \in Nat /\ call.costlimit \in Nat
  BY <1>1 DEF CallTypes
<1>5. Words(Re) \in Nat
  <2> DEFINE n == Len(Re.code)
             d == n \div 8
  <2>1. Words(Re) = d + 1
    BY DEF Words
  <2>2. n \in Nat
    BY <1>2
  <2> HIDE DEF n
  <2>3. d \in Nat
    BY <2>2
  <2> HIDE DEF d
  <2>4. QED BY <2>1, <2>3
<1>6. Setup(call) \in Nat
  BY <1>3, <1>5 DEF Setup, Width, Re, REG_SIZE
<1>7. ASSUME NEW a \in Arrays
      PROVE  Portable(a) \in Nat /\ EntrySize(a) \in {4, 8}
  <2> DEFINE live == LiveBlocks
  <2>1. live \in Nat
    BY <1>1 DEF LiveBlocks
  <2>2. live * MaxOvec \in Nat
    BY <1>1, <2>1
  <2>3. \A n \in Nat : GrowthCap(n) \in Nat
    BY DEF GrowthCap, GROW_MIN, GROW_FACTOR
  <2>4. GrowthCap(MaxCode) \in Nat /\ GrowthCap(2 * MaxCode) \in Nat
    BY <1>1, <2>3
  <2>5. GrowthCap(live) \in Nat /\ GrowthCap(live * MaxOvec) \in Nat
    BY <2>1, <2>2, <2>3
  <2>6. Portable(a) \in Nat
    BY <2>4, <2>5 DEF Portable, Arrays
  <2>7. QED BY <2>6 DEF EntrySize, TH_SIZE, SLOT_SIZE
<1>8. QED BY <1>1, <1>2, <1>3, <1>4, <1>5, <1>6, <1>7

\* Charging for a growth touches no array.
LEMMA RoomKeeps ==
  ASSUME call \in Calls, NEW h \in Heaps, NEW a \in Arrays
  PROVE  /\ Room(h, a) \in Heaps
         /\ Kept(h, Room(h, a), {})
         /\ Room(h, a).ok => h.ok
<1> DEFINE cap == h.cap[a]
           newcap == GrownCap(cap, Portable(a))
           taken == newcap * EntrySize(a)
           held == cap * EntrySize(a)
           total == h.mem + taken
           grown == [h EXCEPT !.cap[a] = newcap, !.cost = @ + taken + held,
                              !.mem = total - held,
                              !.peak = IF total > @ THEN total ELSE @]
           refused == [h EXCEPT !.ok = FALSE]
<1>1. refused \in Heaps /\ Kept(h, refused, {}) /\ ~refused.ok
  BY DEF Heaps, Kept
<1>2. /\ Portable(a) \in Nat /\ EntrySize(a) \in {4, 8} /\ cap \in Nat
      /\ h.cost \in Nat /\ h.mem \in Nat /\ h.peak \in Nat
      /\ call.memlimit \in Nat /\ call.costlimit \in Nat
  BY CallFigures DEF Heaps
<1>3. Len(h[a]) \in Nat
  BY SMTT(30) DEF Heaps, Arrays
<1>4. ASSUME ~(Len(h[a]) < cap), Len(h[a]) < Portable(a)
      PROVE  grown \in Heaps /\ Kept(h, grown, {}) /\ (grown.ok <=> h.ok)
  <2>1. cap <= Portable(a)
    BY <1>2, <1>3, <1>4
  <2>2. newcap \in Nat /\ cap <= newcap
    BY <1>2, <2>1, GrownCapGrows
  <2> HIDE DEF cap, newcap
  <2>3. taken \in Nat /\ held \in Nat /\ held <= taken
    BY <1>2, <2>2
  <2> HIDE DEF taken, held
  <2>4. /\ h.cost + taken + held \in Nat /\ total - held \in Nat /\ total \in Nat
    BY <1>2, <2>3
  <2> HIDE DEF total
  <2>5. [h.cap EXCEPT ![a] = newcap] \in [Arrays -> Nat]
    BY <2>2 DEF Heaps
  <2>6. QED BY <1>2, <2>2, <2>4, <2>5 DEF Heaps, Kept
<1>5. Kept(h, h, {})
  BY DEF Kept
<1>6. \/ Room(h, a) = h
      \/ Room(h, a) = refused
      \/ ~(Len(h[a]) < cap) /\ Len(h[a]) < Portable(a) /\ Room(h, a) = grown
  BY <1>2, <1>3 DEF Room
<1> HIDE DEF grown, refused
<1>7. QED BY <1>1, <1>4, <1>5, <1>6

\* A push that was not refused appends to its array and leaves the others.
LEMMA PushKeeps ==
  ASSUME call \in Calls, NEW h \in Heaps, NEW a \in Arrays, NEW e \in Entries(a)
  PROVE  /\ Push(h, a, e) \in Heaps
         /\ Push(h, a, e).ok =>
              /\ h.ok
              /\ Kept(h, Push(h, a, e), {a})
              /\ Push(h, a, e)[a] = Append(h[a], e)
<1> DEFINE r == Room(h, a)
           s == [r EXCEPT ![a] = Append(@, e)]
<1>1. r \in Heaps /\ Kept(h, r, {}) /\ (r.ok => h.ok)
  BY RoomKeeps
<1>2. Push(h, a, e) = IF r.ok THEN s ELSE r
  BY DEF Push
<1> HIDE DEF r
<1>3. r[a] = h[a]
  BY <1>1 DEF Kept, Arrays
<1>4. s \in Heaps /\ Kept(r, s, {a}) /\ s[a] = Append(r[a], e) /\ s.ok = r.ok
  <2>1. CASE a = "clist"
    <3>1. r.clist \in Seq(Threads(Re)) /\ Append(r.clist, e) \in Seq(Threads(Re))
      BY <1>1, <2>1 DEF Heaps, Entries, Lists
    <3>2. s = [r EXCEPT !.clist = Append(r.clist, e)]
      BY <2>1
    <3> HIDE DEF s
    <3>3. QED BY <1>1, <2>1, <3>1, <3>2 DEF Heaps, Kept
  <2>2. CASE a = "nlist"
    <3>1. r.nlist \in Seq(Threads(Re)) /\ Append(r.nlist, e) \in Seq(Threads(Re))
      BY <1>1, <2>2 DEF Heaps, Entries, Lists
    <3>2. s = [r EXCEPT !.nlist = Append(r.nlist, e)]
      BY <2>2
    <3> HIDE DEF s
    <3>3. QED BY <1>1, <2>2, <3>1, <3>2 DEF Heaps, Kept
  <2>3. CASE a = "stk"
    <3>1. r.stk \in Seq(Threads(Re)) /\ Append(r.stk, e) \in Seq(Threads(Re))
      BY <1>1, <2>3 DEF Heaps, Entries, Lists
    <3>2. s = [r EXCEPT !.stk = Append(r.stk, e)]
      BY <2>3
    <3> HIDE DEF s
    <3>3. QED BY <1>1, <2>3, <3>1, <3>2 DEF Heaps, Kept
  <2>4. CASE a = "pool"
    <3>1. r.pool \in Seq(Values) /\ Append(r.pool, e) \in Seq(Values)
      BY <1>1, <2>4 DEF Heaps, Entries, Lists
    <3>2. s = [r EXCEPT !.pool = Append(r.pool, e)]
      BY <2>4
    <3> HIDE DEF s
    <3>3. QED BY <1>1, <2>4, <3>1, <3>2 DEF Heaps, Kept
  <2>5. CASE a = "rc"
    <3>1. r.rc \in Seq(Nat) /\ Append(r.rc, e) \in Seq(Nat)
      BY <1>1, <2>5 DEF Heaps, Entries, Lists
    <3>2. s = [r EXCEPT !.rc = Append(r.rc, e)]
      BY <2>5
    <3> HIDE DEF s
    <3>3. QED BY <1>1, <2>5, <3>1, <3>2 DEF Heaps, Kept
  <2>6. CASE a = "free"
    <3>1. r.free \in Seq(Nat) /\ Append(r.free, e) \in Seq(Nat)
      BY <1>1, <2>6 DEF Heaps, Entries, Lists
    <3>2. s = [r EXCEPT !.free = Append(r.free, e)]
      BY <2>6
    <3> HIDE DEF s
    <3>3. QED BY <1>1, <2>6, <3>1, <3>2 DEF Heaps, Kept
  <2>7. QED BY <2>1, <2>2, <2>3, <2>4, <2>5, <2>6 DEF Arrays
<1> HIDE DEF s
<1>5. Kept(h, s, {a})
  BY <1>1, <1>4 DEF Kept
<1>6. QED BY <1>1, <1>2, <1>3, <1>4, <1>5

\* Paying touches no array.
LEMMA PayKeeps ==
  ASSUME call \in Calls, NEW h \in Heaps, NEW work \in Nat
  PROVE  /\ Pay(h, work) \in Heaps
         /\ Kept(h, Pay(h, work), {})
         /\ Pay(h, work).ok => h.ok
<1>1. h.cost + work \in Nat
  BY DEF Heaps
<1>2. QED BY <1>1 DEF Pay, Heaps, Kept

-----------------------------------------------------------------------------
(* Moving a hold from one place to another keeps the books right.          *)

Moved(h, lo, m, hand, h2, lo2, m2, hand2) ==
  \A b \in Nat : Owed(h2, lo2, m2, hand2, b) = Owed(h, lo, m, hand, b)

LEMMA OneBit == \A x, y : One(x, y) \in Nat
BY DEF One

LEMMA HoldsCounted ==
  ASSUME NEW h \in Heaps, NEW lo \in Nat \ {0}, NEW hand \in Hands, NEW b \in Nat
  PROVE  /\ Held(h.clist, lo, b) \in Nat /\ Held(h.nlist, 1, b) \in Nat
         /\ Held(h.stk, 1, b) \in Nat /\ hand[b] \in Nat
<1>1. Len(h.clist) \in Nat /\ Len(h.nlist) \in Nat /\ Len(h.stk) \in Nat
  BY DEF Heaps
<1>2. /\ Held(h.clist, lo, b) \in Nat
      /\ Held(h.nlist, 1, b) \in Nat
      /\ Held(h.stk, 1, b) \in Nat
  BY <1>1, HoldersFinite
<1>3. QED BY <1>2 DEF Hands

LEMMA BooksMoved ==
  ASSUME NEW h, NEW lo, NEW m, NEW hand, NEW h2, NEW lo2, NEW m2, NEW hand2,
         Books(h, lo, m, hand), Kept(h, h2, Lists),
         Moved(h, lo, m, hand, h2, lo2, m2, hand2)
  PROVE  Books(h2, lo2, m2, hand2)
<1>1. h2.rc = h.rc /\ h2.free = h.free /\ h2.pool = h.pool
  BY DEF Kept, Lists
<1>2. Counted(h2, lo2, m2, hand2)
  BY <1>1 DEF Books, Counted, Moved, Tally
<1>3. FreeRight(h2)
  BY <1>1 DEF Books, FreeRight, Blocks
<1>4. QED BY <1>1, <1>2, <1>3 DEF Books

\* Paying.
LEMMA PayGood ==
  ASSUME call \in Calls, NEW h, NEW lo, NEW m, NEW hand, Good(h, lo, m, hand),
         NEW work \in Nat
  PROVE  Good(Pay(h, work), lo, m, hand)
<1> DEFINE r == Pay(h, work)
<1>1. h \in Heaps /\ r \in Heaps /\ Kept(h, r, {}) /\ (r.ok => h.ok)
  BY PayKeeps DEF Good
<1> HIDE DEF r
<1>2. Moved(h, lo, m, hand, r, lo, m, hand) /\ Kept(h, r, Lists)
  BY <1>1 DEF Moved, Owed, Kept
<1>3. QED BY <1>1, <1>2, BooksMoved DEF Good, r

\* Deferring a thread gives up the hold in hand.
LEMMA DeferGood ==
  ASSUME call \in Calls, NEW h, NEW lo \in Nat \ {0}, NEW m, NEW hand \in Hands,
         Good(h, lo, m, hand), NEW p \in 0 .. (Len(Re.code) - 1), NEW b \in Nat,
         hand[b] > 0
  PROVE  /\ Good(Defer(h, p, b), lo, m, Less(hand, b))
         /\ Defer(h, p, b).ok => h.ok /\ Kept(h, Defer(h, p, b), {"stk"})
<1> DEFINE e == [pc |-> p, h |-> b]
           r == Defer(h, p, b)
<1>1. h \in Heaps /\ e \in Threads(Re) /\ e \in Entries("stk") /\ "stk" \in Arrays
  BY DEF Good, Threads, Entries, Lists, Arrays
<1>2. r \in Heaps /\ (r.ok => h.ok /\ Kept(h, r, {"stk"}) /\ r.stk = Append(h.stk, e))
  BY <1>1, PushKeeps DEF Defer
<1>3. e.h = b
  OBVIOUS
<1> HIDE DEF r, e
<1>4. ASSUME r.ok PROVE Moved(h, lo, m, hand, r, lo, m, Less(hand, b))
  <2> SUFFICES ASSUME NEW c \in Nat
               PROVE  Owed(r, lo, m, Less(hand, b), c) = Owed(h, lo, m, hand, c)
    BY DEF Moved
  <2>1. r.clist = h.clist /\ r.nlist = h.nlist /\ r.stk = Append(h.stk, e)
    BY <1>2, <1>4 DEF Kept
  <2>2. h.stk \in Seq(Threads(Re)) /\ Len(h.stk) \in Nat
    BY <1>1 DEF Heaps
  <2>3. Held(r.stk, 1, c) = Held(h.stk, 1, c) + One(b, c)
    <3>1. Held(Append(h.stk, e), 1, c) = Held(h.stk, 1, c) + One(e.h, c)
      BY <1>1, <2>2, HeldAppend
    <3>2. QED BY <1>3, <2>1, <3>1
  <2>4. Less(hand, b)[c] = hand[c] - One(b, c)
    BY HandGiven
  <2>5. /\ Held(h.clist, lo, c) \in Nat /\ Held(h.nlist, 1, c) \in Nat
        /\ Held(h.stk, 1, c) \in Nat /\ hand[c] \in Nat
    BY <1>1, HoldsCounted
  <2>6. One(b, c) \in Nat /\ One(m, c) \in Nat
    BY OneBit
  <2>7. QED BY SMTT(30), <1>1, <2>1, <2>3, <2>4, <2>5, <2>6 DEF Owed
<1>5. r.ok => Kept(h, r, Lists)
  BY <1>2 DEF Kept, Lists
<1>6. r.ok => Books(r, lo, m, Less(hand, b))
  BY <1>2, <1>4, <1>5, BooksMoved DEF Good
<1>7. QED BY <1>2, <1>6 DEF Good, r

\* A list with one more thread, unless the push was refused.
Grown(h, r, list, p, b) ==
  r.ok => /\ h.ok /\ Kept(h, r, {list})
          /\ r[list] = Append(h[list], [pc |-> p, h |-> b])

\* Parking a thread does too.
LEMMA ParkGood ==
  ASSUME call \in Calls, NEW h, NEW lo \in Nat \ {0}, NEW m, NEW hand \in Hands,
         Good(h, lo, m, hand), NEW p \in 0 .. (Len(Re.code) - 1), NEW b \in Nat,
         hand[b] > 0, NEW list \in {"clist", "nlist"}, list = "clist" => lo = 1
  PROVE  /\ Good(Park(h, list, p, b), lo, m, Less(hand, b))
         /\ Grown(h, Park(h, list, p, b), list, p, b)
<1> DEFINE e == [pc |-> p, h |-> b]
           r == Park(h, list, p, b)
<1>1. h \in Heaps /\ e \in Threads(Re) /\ e \in Entries(list) /\ list \in Arrays
  BY DEF Good, Threads, Entries, Lists, Arrays
<1>2. r \in Heaps /\ (r.ok => h.ok /\ Kept(h, r, {list}) /\ r[list] = Append(h[list], e))
  BY <1>1, PushKeeps DEF Park
<1>3. e.h = b
  OBVIOUS
<1> HIDE DEF r, e
<1>4. ASSUME r.ok PROVE Moved(h, lo, m, hand, r, lo, m, Less(hand, b))
  <2> SUFFICES ASSUME NEW c \in Nat
               PROVE  Owed(r, lo, m, Less(hand, b), c) = Owed(h, lo, m, hand, c)
    BY DEF Moved
  <2>1. /\ h.clist \in Seq(Threads(Re)) /\ Len(h.clist) \in Nat
        /\ h.nlist \in Seq(Threads(Re)) /\ Len(h.nlist) \in Nat
    BY <1>1 DEF Heaps
  <2>2. Less(hand, b)[c] = hand[c] - One(b, c)
    BY HandGiven
  <2>3. CASE list = "clist"
    <3>1. r.clist = Append(h.clist, e) /\ r.nlist = h.nlist /\ r.stk = h.stk
      BY <1>2, <1>4, <2>3 DEF Kept
    <3>2. lo = 1 /\ Held(r.clist, 1, c) = Held(h.clist, 1, c) + One(b, c)
      <4>1. Held(Append(h.clist, e), 1, c) = Held(h.clist, 1, c) + One(e.h, c)
        BY <1>1, <2>1, HeldAppend
      <4>2. QED BY <1>3, <2>3, <3>1, <4>1
    <3>3. /\ Held(h.clist, lo, c) \in Nat /\ Held(h.nlist, 1, c) \in Nat
          /\ Held(h.stk, 1, c) \in Nat /\ hand[c] \in Nat
      BY <1>1, HoldsCounted
    <3>4. One(b, c) \in Nat /\ One(m, c) \in Nat
      BY OneBit
    <3>5. QED BY SMTT(30), <2>2, <3>1, <3>2, <3>3, <3>4 DEF Owed
  <2>4. CASE list = "nlist"
    <3>1. r.nlist = Append(h.nlist, e) /\ r.clist = h.clist /\ r.stk = h.stk
      BY <1>2, <1>4, <2>4 DEF Kept
    <3>2. Held(r.nlist, 1, c) = Held(h.nlist, 1, c) + One(b, c)
      <4>1. Held(Append(h.nlist, e), 1, c) = Held(h.nlist, 1, c) + One(e.h, c)
        BY <1>1, <2>1, HeldAppend
      <4>2. QED BY <1>3, <3>1, <4>1
    <3>3. /\ Held(h.clist, lo, c) \in Nat /\ Held(h.nlist, 1, c) \in Nat
          /\ Held(h.stk, 1, c) \in Nat /\ hand[c] \in Nat
      BY <1>1, HoldsCounted
    <3>4. One(b, c) \in Nat /\ One(m, c) \in Nat
      BY OneBit
    <3>5. QED BY SMTT(30), <2>2, <3>1, <3>2, <3>3, <3>4 DEF Owed
  <2>5. QED BY <2>3, <2>4
<1>5. r.ok => Kept(h, r, Lists)
  BY <1>2 DEF Kept, Lists
<1>6. r.ok => Books(r, lo, m, Less(hand, b))
  BY <1>2, <1>4, <1>5, BooksMoved DEF Good
<1>7. QED BY <1>2, <1>6 DEF Good, Grown, r, e

\* Popping the closure's stack takes the thread's hold in hand.
LEMMA PopGood ==
  ASSUME NEW lo \in Nat \ {0}, NEW hand \in Hands, Good(heap, lo, mh, hand), heap.stk # <<>>
  PROVE  /\ Closing.pc \in 0 .. (Len(Re.code) - 1) /\ Closing.h \in Nat
         /\ Good(Popped, lo, mh, More(hand, Closing.h))
         /\ Popped.ok = heap.ok /\ Kept(heap, Popped, {"stk"})
<1> DEFINE s == SubSeq(heap.stk, 1, Len(heap.stk) - 1)
           b == Closing.h
           r == Popped
<1>1. heap \in Heaps /\ heap.stk \in Seq(Threads(Re))
  BY DEF Good, Heaps
<1>2. s \in Seq(Threads(Re)) /\ Closing \in Threads(Re)
  BY <1>1, AllButLast DEF Closing
<1>3. Closing.pc \in 0 .. (Len(Re.code) - 1) /\ b \in Nat
  BY <1>2 DEF Threads
<1>4. r = [heap EXCEPT !.stk = s]
  BY DEF Popped
<1>5. \A c : Held(heap.stk, 1, c) = Held(s, 1, c) + One(b, c)
  BY <1>1, HeldPop DEF Closing
<1> HIDE DEF s, r
<1>6. r \in Heaps /\ r.ok = heap.ok /\ Kept(heap, r, {"stk"}) /\ r.stk = s
  BY <1>1, <1>2, <1>4 DEF Heaps, Kept
<1> HIDE DEF b
<1>7. Moved(heap, lo, mh, hand, r, lo, mh, More(hand, b))
  <2> SUFFICES ASSUME NEW c \in Nat
               PROVE  Owed(r, lo, mh, More(hand, b), c) = Owed(heap, lo, mh, hand, c)
    BY DEF Moved
  <2>1. r.clist = heap.clist /\ r.nlist = heap.nlist
    BY <1>6 DEF Kept
  <2>2. More(hand, b)[c] = hand[c] + One(b, c)
    BY <1>3, HandTaken
  <2>3. Held(r.stk, 1, c) \in Nat /\ Held(heap.stk, 1, c) = Held(r.stk, 1, c) + One(b, c)
    BY <1>5, <1>6, HoldsCounted
  <2>4. /\ Held(heap.clist, lo, c) \in Nat /\ Held(heap.nlist, 1, c) \in Nat
        /\ Held(heap.stk, 1, c) \in Nat /\ hand[c] \in Nat
    BY <1>1, HoldsCounted
  <2>5. One(b, c) \in Nat /\ One(mh, c) \in Nat
    BY OneBit
  <2> DEFINE k == Held(r.stk, 1, c)
             l == Held(heap.stk, 1, c)
             x == One(b, c)
             v == hand[c]
             u == More(hand, b)[c]
             w == Held(heap.clist, lo, c) + Held(heap.nlist, 1, c)
             z == One(mh, c)
  <2>6. w \in Nat
    BY <2>4
  <2>7. Owed(r, lo, mh, More(hand, b), c) = w + k + z + u /\ Owed(heap, lo, mh, hand, c) = w + l + z + v
    BY SMTT(30), <2>1 DEF Owed
  <2>8. k \in Nat /\ l = k + x /\ u = v + x /\ x \in Nat /\ v \in Nat /\ z \in Nat
    BY <2>2, <2>3, <2>4, <2>5
  <2> HIDE DEF k, l, x, v, u, w, z
  <2>9. w + k + z + u = w + l + z + v
    BY <2>6, <2>8
  <2>10. QED BY <2>7, <2>9
<1>8. Kept(heap, r, Lists)
  BY <1>6 DEF Kept, Lists
<1>9. heap.ok => Books(r, lo, mh, More(hand, b))
  BY <1>7, <1>8, BooksMoved DEF Good
<1>10. QED BY <1>3, <1>6, <1>9 DEF Good, r, b

\* Stepping a thread of clist takes its hold in hand.
LEMMA StepGood ==
  ASSUME NEW h, NEW lo \in Nat \ {0}, NEW m, NEW hand \in Hands, Good(h, lo, m, hand),
         lo <= Len(h.clist)
  PROVE  /\ h.clist[lo].pc \in 0 .. (Len(Re.code) - 1) /\ h.clist[lo].h \in Nat
         /\ Good(h, lo + 1, m, More(hand, h.clist[lo].h))
<1> DEFINE b == h.clist[lo].h
<1>1. h \in Heaps /\ h.clist \in Seq(Threads(Re)) /\ Len(h.clist) \in Nat
  BY DEF Good, Heaps
<1>2. h.clist[lo] \in Threads(Re)
  BY <1>1, ElementOfSeq
<1>3. h.clist[lo].pc \in 0 .. (Len(Re.code) - 1) /\ b \in Nat
  BY <1>2 DEF Threads
<1>4. \A c : Held(h.clist, lo, c) = Held(h.clist, lo + 1, c) + One(b, c)
  BY <1>1, HeldStep
<1> HIDE DEF b
<1>5. Moved(h, lo, m, hand, h, lo + 1, m, More(hand, b))
  <2> SUFFICES ASSUME NEW c \in Nat
               PROVE  Owed(h, lo + 1, m, More(hand, b), c) = Owed(h, lo, m, hand, c)
    BY DEF Moved
  <2>1. More(hand, b)[c] = hand[c] + One(b, c)
    BY <1>3, HandTaken
  <2>2. /\ Held(h.clist, lo + 1, c) \in Nat
        /\ Held(h.clist, lo, c) = Held(h.clist, lo + 1, c) + One(b, c)
    BY <1>1, <1>4, HoldersFinite
  <2>3. /\ Held(h.clist, lo, c) \in Nat /\ Held(h.nlist, 1, c) \in Nat
        /\ Held(h.stk, 1, c) \in Nat /\ hand[c] \in Nat
    BY <1>1, HoldsCounted
  <2>4. One(b, c) \in Nat /\ One(m, c) \in Nat
    BY OneBit
  <2> DEFINE x == Held(h.clist, lo + 1, c)
             y == Held(h.nlist, 1, c)
             z == Held(h.stk, 1, c)
             u == One(m, c)
             v == One(b, c)
             w == hand[c]
  <2>5. Owed(h, lo + 1, m, More(hand, b), c) = x + y + z + u + (w + v)
    BY SMTT(30), <2>1 DEF Owed
  <2>6. Owed(h, lo, m, hand, c) = (x + v) + y + z + u + w
    BY SMTT(30), <2>2 DEF Owed
  <2>7. x \in Nat /\ y \in Nat /\ z \in Nat /\ u \in Nat /\ v \in Nat /\ w \in Nat
    BY <2>2, <2>3, <2>4
  <2> HIDE DEF x, y, z, u, v, w
  <2>8. QED BY <2>5, <2>6, <2>7
<1>6. Kept(h, h, Lists)
  BY DEF Kept
<1>7. h.ok => Books(h, lo + 1, m, More(hand, b))
  BY <1>5, <1>6, BooksMoved DEF Good
<1>8. QED BY <1>1, <1>3, <1>7 DEF Good, b

\* The recorded match is given up into the hand, and taken from it.
LEMMA MatchGood ==
  ASSUME NEW h, NEW lo \in Nat \ {0}, NEW hand \in Hands, NEW b \in Nat
  PROVE  /\ Good(h, lo, b, hand) => Good(h, lo, NONE, More(hand, b))
         /\ Good(h, lo, NONE, hand) /\ hand[b] > 0 => Good(h, lo, b, Less(hand, b))
<1>1. Kept(h, h, Lists)
  BY DEF Kept
<1>2. \A c \in Nat : NONE # c
  BY DEF NONE
<1>3. ASSUME h \in Heaps PROVE Moved(h, lo, b, hand, h, lo, NONE, More(hand, b))
  <2> SUFFICES ASSUME NEW c \in Nat
               PROVE  Owed(h, lo, NONE, More(hand, b), c) = Owed(h, lo, b, hand, c)
    BY DEF Moved
  <2>1. More(hand, b)[c] = hand[c] + One(b, c)
    BY HandTaken
  <2>2. One(NONE, c) = 0
    BY <1>2 DEF One
  <2>3. /\ Held(h.clist, lo, c) \in Nat /\ Held(h.nlist, 1, c) \in Nat
        /\ Held(h.stk, 1, c) \in Nat /\ hand[c] \in Nat
    BY <1>3, HoldsCounted
  <2>4. One(b, c) \in Nat /\ One(NONE, c) \in Nat
    BY OneBit
  <2>5. QED BY SMTT(30), <1>3, <2>1, <2>2, <2>3, <2>4 DEF Owed
<1>4. ASSUME h \in Heaps, hand[b] > 0
      PROVE  Moved(h, lo, NONE, hand, h, lo, b, Less(hand, b))
  <2> SUFFICES ASSUME NEW c \in Nat
               PROVE  Owed(h, lo, b, Less(hand, b), c) = Owed(h, lo, NONE, hand, c)
    BY DEF Moved
  <2>1. Less(hand, b)[c] = hand[c] - One(b, c)
    BY <1>4, HandGiven
  <2>2. One(NONE, c) = 0
    BY <1>2 DEF One
  <2>3. /\ Held(h.clist, lo, c) \in Nat /\ Held(h.nlist, 1, c) \in Nat
        /\ Held(h.stk, 1, c) \in Nat /\ hand[c] \in Nat
    BY <1>4, HoldsCounted
  <2>4. One(b, c) \in Nat /\ One(NONE, c) \in Nat
    BY OneBit
  <2>5. QED BY SMTT(30), <1>4, <2>1, <2>2, <2>3, <2>4 DEF Owed
<1>5. QED BY <1>1, <1>3, <1>4, BooksMoved DEF Good

-----------------------------------------------------------------------------
(* Counting a holder more, and one less.                                   *)

\* A block in hand exists, and its count says so.
LEMMA HandKnown ==
  ASSUME NEW h, NEW lo \in Nat \ {0}, NEW m, NEW hand \in Hands, Good(h, lo, m, hand),
         h.ok, NEW b \in Nat, hand[b] > 0
  PROVE  /\ h \in Heaps /\ Len(h.rc) \in Nat /\ b \in Blocks(h)
         /\ h.rc[b + 1] \in Nat /\ h.rc[b + 1] = Owed(h, lo, m, hand, b)
         /\ h.rc[b + 1] >= hand[b]
<1>1. h \in Heaps /\ Len(h.rc) \in Nat /\ h.rc \in Seq(Nat)
  BY DEF Good, Heaps
<1>2. Tally(h, b) = Owed(h, lo, m, hand, b)
  BY DEF Good, Books, Counted
<1>3. /\ Held(h.clist, lo, b) \in Nat /\ Held(h.nlist, 1, b) \in Nat
      /\ Held(h.stk, 1, b) \in Nat /\ hand[b] \in Nat /\ One(m, b) \in Nat
  BY <1>1, HoldsCounted, OneBit
<1>4. Owed(h, lo, m, hand, b) \in Nat /\ Owed(h, lo, m, hand, b) >= hand[b]
  BY SMTT(30), <1>3 DEF Owed
<1>5. b < Len(h.rc)
  <2>1. Owed(h, lo, m, hand, b) > 0
    BY <1>3, <1>4
  <2>2. QED BY <1>1, <1>2, <1>4, <2>1 DEF Tally
<1>6. b \in Blocks(h) /\ h.rc[b + 1] \in Nat
  BY <1>1, <1>5 DEF Blocks
<1>7. QED BY <1>1, <1>2, <1>4, <1>5, <1>6 DEF Tally

\* A heap in which block b counts n holders and the rest is as it was.
Recounted(h, r, b, n) ==
  /\ r.rc \in Seq(Nat) /\ Len(r.rc) = Len(h.rc) /\ r.rc[b + 1] = n
  /\ \A c \in Blocks(h) : c # b => r.rc[c + 1] = h.rc[c + 1]

LEMMA CountSet ==
  ASSUME NEW h \in Heaps, NEW b \in Blocks(h), NEW n \in Nat
  PROVE  /\ [h EXCEPT !.rc[b + 1] = n] \in Heaps
         /\ Kept(h, [h EXCEPT !.rc[b + 1] = n], {"rc"})
         /\ [h EXCEPT !.rc[b + 1] = n].ok = h.ok
         /\ Recounted(h, [h EXCEPT !.rc[b + 1] = n], b, n)
<1> DEFINE rc == [h.rc EXCEPT ![b + 1] = n]
           r == [h EXCEPT !.rc[b + 1] = n]
<1>1. h.rc \in Seq(Nat) /\ Len(h.rc) \in Nat /\ b + 1 \in 1 .. Len(h.rc)
  BY DEF Heaps, Blocks
<1>2. /\ rc \in Seq(Nat) /\ Len(rc) = Len(h.rc) /\ rc[b + 1] = n
      /\ \A k \in 1 .. Len(h.rc) : k # b + 1 => rc[k] = h.rc[k]
  BY <1>1, ExceptSeq
<1>3. r = [h EXCEPT !.rc = rc]
  BY DEF Heaps
<1> HIDE DEF rc, r
<1>4. r \in Heaps /\ Kept(h, r, {"rc"}) /\ r.ok = h.ok /\ r.rc = rc
  BY <1>2, <1>3 DEF Heaps, Kept
<1>5. Recounted(h, r, b, n)
  <2>1. ASSUME NEW c \in Blocks(h), c # b PROVE rc[c + 1] = h.rc[c + 1]
    <3>1. c + 1 \in 1 .. Len(h.rc) /\ c + 1 # b + 1
      BY <1>1, <2>1 DEF Blocks
    <3>2. QED BY <1>2, <3>1
  <2>2. QED BY <1>2, <1>4, <2>1 DEF Recounted
<1>6. QED BY <1>4, <1>5 DEF r

\* Owing b one holder more or less.
LEMMA OwedHand ==
  ASSUME NEW h \in Heaps, NEW lo \in Nat \ {0}, NEW m, NEW hand \in Hands, NEW b \in Nat,
         NEW r, Kept(h, r, {"rc", "free", "pool"}), NEW c \in Nat
  PROVE  /\ Owed(r, lo, m, More(hand, b), c) = Owed(h, lo, m, hand, c) + One(b, c)
         /\ hand[b] > 0 =>
              Owed(r, lo, m, Less(hand, b), c) = Owed(h, lo, m, hand, c) - One(b, c)
         /\ Owed(h, lo, m, hand, c) \in Nat
<1>1. r.clist = h.clist /\ r.nlist = h.nlist /\ r.stk = h.stk
  BY DEF Kept
<1>2. More(hand, b)[c] = hand[c] + One(b, c)
  BY HandTaken
<1>3. hand[b] > 0 => Less(hand, b)[c] = hand[c] - One(b, c)
  BY HandGiven
<1>4. /\ Held(h.clist, lo, c) \in Nat /\ Held(h.nlist, 1, c) \in Nat
      /\ Held(h.stk, 1, c) \in Nat /\ hand[c] \in Nat
  BY HoldsCounted
<1>5. One(b, c) \in Nat /\ One(m, c) \in Nat
  BY OneBit
<1>6. QED BY SMTT(30), <1>1, <1>2, <1>3, <1>4, <1>5 DEF Owed

LEMMA OneIs ==
  \A x, y : (x = y => One(x, y) = 1) /\ (x # y => One(x, y) = 0)
BY DEF One

\* Sharing a block.
LEMMA ShareGood ==
  ASSUME NEW h, NEW lo \in Nat \ {0}, NEW m, NEW hand \in Hands, Good(h, lo, m, hand),
         NEW b \in Nat, hand[b] > 0
  PROVE  /\ Good(Share(h, b), lo, m, More(hand, b))
         /\ Share(h, b).ok => h.ok /\ Kept(h, Share(h, b), {"rc"})
<1>1. CASE ~h.ok
  BY <1>1 DEF Share, Good
<1>2. CASE h.ok
  <2> DEFINE n == h.rc[b + 1] + 1
             r == [h EXCEPT !.rc[b + 1] = n]
  <2>1. /\ h \in Heaps /\ Len(h.rc) \in Nat /\ b \in Blocks(h)
        /\ h.rc[b + 1] \in Nat /\ h.rc[b + 1] = Owed(h, lo, m, hand, b)
        /\ h.rc[b + 1] >= hand[b]
    BY <1>2, HandKnown
  <2>2. Share(h, b) = r
    BY <1>2 DEF Share
  <2>3. n \in Nat /\ n > 0 /\ h.rc[b + 1] # 0
    <3>1. hand[b] \in Nat
      BY DEF Hands
    <3>2. QED BY <2>1, <3>1
  <2> HIDE DEF n
  <2>4. r \in Heaps /\ Kept(h, r, {"rc"}) /\ r.ok = h.ok /\ Recounted(h, r, b, n)
    BY <2>1, <2>3, CountSet
  <2> HIDE DEF r
  <2>5. Counted(r, lo, m, More(hand, b))
    <3> SUFFICES ASSUME NEW c \in Nat
                 PROVE  Tally(r, c) = Owed(r, lo, m, More(hand, b), c)
      BY DEF Counted
    <3>1. Owed(r, lo, m, More(hand, b), c) = Owed(h, lo, m, hand, c) + One(b, c)
      <4>1. Kept(h, r, {"rc", "free", "pool"})
        BY <2>4 DEF Kept
      <4>2. QED BY <2>1, <4>1, OwedHand
    <3>2. Tally(h, c) = Owed(h, lo, m, hand, c)
      BY <1>2 DEF Good, Books, Counted
    <3>3. CASE c = b
      <4>1. Tally(r, c) = n /\ One(b, c) = 1
        BY <2>1, <2>4, <3>3, OneIs DEF Tally, Recounted, Blocks
      <4>2. QED BY <2>1, <3>1, <3>3, <4>1 DEF n
    <3>4. CASE c # b
      <4>1. Tally(r, c) = Tally(h, c) /\ One(b, c) = 0
        BY <2>1, <2>4, <3>4, OneIs DEF Tally, Recounted, Blocks
      <4>2. Owed(h, lo, m, hand, c) \in Nat
        BY <2>1, <2>4, OwedHand DEF Kept
      <4>3. QED BY <3>1, <3>2, <4>1, <4>2
    <3>5. QED BY <3>3, <3>4
  <2>6. FreeRight(r)
    <3>1. r.free = h.free /\ Blocks(r) = Blocks(h)
      BY <2>4 DEF Kept, Recounted, Blocks
    <3>2. FreeRight(h)
      BY <1>2 DEF Good, Books
    <3>3. \A c \in Blocks(h) : r.rc[c + 1] = 0 <=> h.rc[c + 1] = 0
      <4> SUFFICES ASSUME NEW c \in Blocks(h) PROVE r.rc[c + 1] = 0 <=> h.rc[c + 1] = 0
        OBVIOUS
      <4>1. c = b => r.rc[c + 1] = n
        BY <2>4 DEF Recounted
      <4>2. c # b => r.rc[c + 1] = h.rc[c + 1]
        BY <2>4 DEF Recounted
      <4>3. QED BY <2>3, <4>1, <4>2
    <3>4. QED BY <3>1, <3>2, <3>3 DEF FreeRight
  <2>7. Len(r.pool) = Len(r.rc) * Width
    BY <1>2, <2>4 DEF Good, Books, Kept, Recounted
  <2>8. QED BY <1>2, <2>2, <2>4, <2>5, <2>6, <2>7 DEF Good, Books
<1>3. QED BY <1>1, <1>2

\* Dropping a block gives up the hold in hand; with the last hold the block
\* goes on the free list.
LEMMA DropGood ==
  ASSUME call \in Calls, NEW h, NEW lo \in Nat \ {0}, NEW m, NEW hand \in Hands,
         Good(h, lo, m, hand), NEW b \in Nat, hand[b] > 0
  PROVE  /\ Good(Drop(h, b), lo, m, Less(hand, b))
         /\ Drop(h, b).ok => h.ok /\ Kept(h, Drop(h, b), {"rc", "free"})
<1>1. CASE ~h.ok
  BY <1>1 DEF Drop, Good
<1>2. CASE h.ok
  <2> DEFINE n == h.rc[b + 1] - 1
             less == [h EXCEPT !.rc[b + 1] = n]
             r == Drop(h, b)
             k == Len(h.free) + 1
  <2>1. /\ h \in Heaps /\ Len(h.rc) \in Nat /\ b \in Blocks(h)
        /\ h.rc[b + 1] \in Nat /\ h.rc[b + 1] = Owed(h, lo, m, hand, b)
        /\ h.rc[b + 1] >= hand[b]
    BY <1>2, HandKnown
  <2>2. n \in Nat /\ b # NONE /\ h.rc[b + 1] # 0
    <3>1. hand[b] \in Nat
      BY DEF Hands
    <3>2. QED BY <2>1, <3>1 DEF NONE
  <2>3. less \in Heaps /\ Kept(h, less, {"rc"}) /\ less.ok = h.ok /\ Recounted(h, less, b, n)
    BY <2>1, <2>2, CountSet
  <2>4. r = IF less.rc[b + 1] = 0 THEN Push(less, "free", b) ELSE less
    BY <1>2, <2>2 DEF Drop
  <2> HIDE DEF less
  <2>5. r = IF n = 0 THEN Push(less, "free", b) ELSE less
    BY <2>3, <2>4 DEF Recounted
  <2>6. h.free \in Seq(Nat) /\ Len(h.free) \in Nat /\ less.free = h.free
    BY <2>1, <2>3 DEF Heaps, Kept
  <2> HIDE DEF n, r
  <2>7. /\ r \in Heaps
        /\ r.ok => /\ Kept(less, r, {"free"})
                   /\ r.free = IF n = 0 THEN Append(h.free, b) ELSE h.free
    <3>1. CASE n = 0
      <4>1. "free" \in Arrays /\ b \in Entries("free")
        BY DEF Arrays, Entries, Lists
      <4> DEFINE p == Push(less, "free", b)
      <4>2. p \in Heaps /\ (p.ok => Kept(less, p, {"free"}) /\ p.free = Append(less.free, b))
        BY <2>3, <4>1, PushKeeps
      <4> HIDE DEF p
      <4>3. r = p
        BY <2>5, <3>1 DEF p
      <4>4. QED BY <2>6, <3>1, <4>2, <4>3
    <3>2. CASE n # 0
      BY <2>3, <2>5, <2>6, <3>2 DEF Kept
    <3>3. QED BY <3>1, <3>2
  <2>8. ASSUME r.ok PROVE Books(r, lo, m, Less(hand, b))
    <3>1. r.rc = less.rc /\ Kept(h, r, {"rc", "free"}) /\ Recounted(h, r, b, n)
      BY <2>3, <2>7, <2>8 DEF Kept, Recounted
    <3>2. Counted(r, lo, m, Less(hand, b))
      <4> SUFFICES ASSUME NEW c \in Nat
                   PROVE  Tally(r, c) = Owed(r, lo, m, Less(hand, b), c)
        BY DEF Counted
      <4>1. /\ Owed(r, lo, m, Less(hand, b), c) = Owed(h, lo, m, hand, c) - One(b, c)
            /\ Owed(h, lo, m, hand, c) \in Nat
        <5>1. Kept(h, r, {"rc", "free", "pool"})
          BY <3>1 DEF Kept
        <5>2. QED BY <2>1, <5>1, OwedHand
      <4>2. Tally(h, c) = Owed(h, lo, m, hand, c)
        BY <1>2 DEF Good, Books, Counted
      <4>3. CASE c = b
        <5>1. Tally(r, c) = n /\ One(b, c) = 1
          BY <2>1, <3>1, <4>3, OneIs DEF Tally, Recounted, Blocks
        <5>2. QED BY <2>1, <4>1, <4>3, <5>1 DEF n
      <4>4. CASE c # b
        <5>1. Tally(r, c) = Tally(h, c) /\ One(b, c) = 0
          BY <2>1, <3>1, <4>4, OneIs DEF Tally, Recounted, Blocks
        <5>2. QED BY <4>1, <4>2, <5>1
      <4>5. QED BY <4>3, <4>4
    <3>3. FreeRight(h) /\ Blocks(r) = Blocks(h)
      BY <1>2, <3>1 DEF Good, Books, Recounted, Blocks
    <3>4. \A c \in Blocks(h) : r.rc[c + 1] = IF c = b THEN n ELSE h.rc[c + 1]
      BY <3>1 DEF Recounted
    <3>5. \A j \in 1 .. Len(h.free) : h.free[j] # b
      BY <2>1, <2>2, <3>3 DEF FreeRight
    <3>6. FreeRight(r)
      <4>1. CASE n = 0
        <5>1. r.free = Append(h.free, b)
          BY <2>7, <2>8, <4>1
        <5>2. /\ Len(r.free) = k /\ r.free[k] = b
              /\ \A j \in 1 .. Len(h.free) : r.free[j] = h.free[j]
          BY <2>6, <5>1, AppendProperties
        <5>3. \A j \in 1 .. Len(r.free) : j = k \/ j \in 1 .. Len(h.free)
          BY <2>6, <5>2
        <5>4. \A j \in 1 .. Len(r.free) : r.free[j] \in Blocks(r)
          BY <2>1, <3>3, <5>2, <5>3 DEF FreeRight
        <5>5. \A i, j \in 1 .. Len(r.free) : r.free[i] = r.free[j] => i = j
          BY <3>3, <3>5, <5>2, <5>3 DEF FreeRight
        <5>6. ASSUME NEW c \in Blocks(r)
              PROVE  r.rc[c + 1] = 0 <=> \E j \in 1 .. Len(r.free) : r.free[j] = c
          <6>1. CASE c = b
            <7>1. r.rc[c + 1] = 0
              BY <3>3, <3>4, <4>1, <6>1
            <7>2. k \in 1 .. Len(r.free)
              BY <2>6, <5>2
            <7>3. QED BY <5>2, <6>1, <7>1, <7>2
          <6>2. CASE c # b
            <7>1. r.rc[c + 1] = 0 <=> \E j \in 1 .. Len(h.free) : h.free[j] = c
              BY <3>3, <3>4, <6>2 DEF FreeRight
            <7>2. \A j \in 1 .. Len(h.free) : j \in 1 .. Len(r.free)
              BY <2>6, <5>2
            <7>3. QED BY <5>2, <5>3, <6>2, <7>1, <7>2
          <6>3. QED BY <6>1, <6>2
        <5> HIDE DEF k
        <5>7. QED BY <5>4, <5>5, <5>6 DEF FreeRight
      <4>2. CASE n # 0
        <5>1. r.free = h.free
          BY <2>7, <2>8, <4>2
        <5>2. \A c \in Blocks(h) : r.rc[c + 1] = 0 <=> h.rc[c + 1] = 0
          BY <2>2, <3>4, <4>2
        <5>3. QED BY <3>3, <5>1, <5>2 DEF FreeRight
      <4>3. QED BY <4>1, <4>2
    <3>7. Len(r.pool) = Len(r.rc) * Width
      BY <1>2, <3>1 DEF Good, Books, Kept, Recounted
    <3>8. QED BY <3>2, <3>6, <3>7 DEF Books
  <2>9. r.ok => Kept(h, r, {"rc", "free"})
    BY <2>3, <2>7 DEF Kept
  <2>10. QED BY <1>2, <2>7, <2>8, <2>9 DEF Good, r
<1>3. QED BY <1>1, <1>2

LEMMA DropNone == \A h : Drop(h, NONE) = h
BY DEF Drop

-----------------------------------------------------------------------------
(* Taking a block: from the free list, or at the end of a wider pool.      *)

\* r is h with a pool k slots wider.
Wider(h, r, k) ==
  /\ r \in Heaps
  /\ r.ok => /\ h.ok
             /\ Kept(h, r, {"pool"})
             /\ Len(r.pool) = Len(h.pool) + k
             /\ \A s \in 1 .. Len(h.pool) : r.pool[s] = h.pool[s]

LEMMA WiderByOne ==
  ASSUME call \in Calls, NEW h \in Heaps, NEW k \in Nat, NEW g, Wider(h, g, k)
  PROVE  Wider(h, Push(g, "pool", UNSET), k + 1)
<1> DEFINE r == Push(g, "pool", UNSET)
<1>1. g \in Heaps /\ "pool" \in Arrays /\ UNSET \in Entries("pool")
  BY DEF Wider, Arrays, Entries, Lists, Values
<1>2. r \in Heaps /\ (r.ok => /\ g.ok /\ Kept(g, r, {"pool"})
                              /\ r.pool = Append(g.pool, UNSET))
  BY <1>1, PushKeeps
<1>3. g.pool \in Seq(Values) /\ h.pool \in Seq(Values)
  BY <1>1 DEF Heaps
<1>4. UNSET \in Values /\ Len(g.pool) \in Nat /\ Len(h.pool) \in Nat
  BY <1>3, LenProperties DEF Values
<1>5. /\ Len(Append(g.pool, UNSET)) = Len(g.pool) + 1
      /\ \A s \in 1 .. Len(g.pool) : Append(g.pool, UNSET)[s] = g.pool[s]
  BY <1>3, <1>4, AppendProperties
<1> HIDE DEF r
<1>6. r.ok => Kept(h, r, {"pool"})
  BY <1>2 DEF Wider, Kept
<1>7. ASSUME r.ok
      PROVE  /\ Len(r.pool) = Len(h.pool) + (k + 1)
             /\ \A s \in 1 .. Len(h.pool) : r.pool[s] = h.pool[s]
  <2>1. /\ Len(g.pool) = Len(h.pool) + k
        /\ \A s \in 1 .. Len(h.pool) : g.pool[s] = h.pool[s]
    BY <1>2, <1>7 DEF Wider
  <2>2. Len(r.pool) = Len(g.pool) + 1
    BY <1>2, <1>5, <1>7
  <2>3. r.pool = Append(g.pool, UNSET)
    BY <1>2, <1>7
  <2>4. Len(r.pool) = Len(h.pool) + (k + 1)
    <3> DEFINE x == Len(h.pool)
               y == Len(g.pool)
    <3>1. x \in Nat /\ y \in Nat /\ y = x + k /\ Len(r.pool) = y + 1
      BY <1>4, <2>1, <2>2
    <3> HIDE DEF x, y
    <3>2. Len(r.pool) = x + (k + 1)
      BY <3>1
    <3>3. QED BY <3>2 DEF x
  <2>5. ASSUME NEW s \in 1 .. Len(h.pool) PROVE r.pool[s] = h.pool[s]
    <3>1. s \in 1 .. Len(g.pool)
      BY <1>4, <2>1
    <3>2. QED BY <1>5, <2>1, <2>3, <3>1
  <2>6. QED BY <2>4, <2>5
<1>8. r.ok => h.ok
  BY <1>2 DEF Wider
<1>9. QED BY <1>2, <1>6, <1>7, <1>8 DEF Wider, r

\* A pool is widened slot by slot.
LEMMA WidenedSteps ==
  ASSUME call \in Calls, NEW h
  PROVE  \E filled : /\ Widened(h) = filled[Width]
                     /\ \A k \in 0 .. Width :
                          filled[k] = IF k = 0 THEN h ELSE Push(filled[k - 1], "pool", UNSET)
<1> DEFINE F(f, n) == f = [k \in 0 .. n |->
                             IF k = 0 THEN h ELSE Push(f[k - 1], "pool", UNSET)]
           S == {n \in Nat : \E f : F(f, n)}
<1>1. 0 \in S
  <2> DEFINE f == [k \in 0 .. 0 |-> h]
  <2>1. F(f, 0)
    OBVIOUS
  <2>2. QED BY <2>1
<1>2. ASSUME NEW n \in Nat, n \in S PROVE n + 1 \in S
  <2>1. PICK f : F(f, n)
    BY <1>2
  <2> DEFINE g == [k \in 0 .. (n + 1) |->
                     IF k = n + 1 THEN Push(f[n], "pool", UNSET) ELSE f[k]]
             e == [k \in 0 .. (n + 1) |->
                     IF k = 0 THEN h ELSE Push(g[k - 1], "pool", UNSET)]
  <2>2. \A k \in 0 .. n : f[k] = IF k = 0 THEN h ELSE Push(f[k - 1], "pool", UNSET)
    BY <2>1
  <2>3. ASSUME NEW k \in 0 .. (n + 1) PROVE g[k] = e[k]
    <3>1. CASE k = n + 1
      <4>1. k - 1 \in 0 .. (n + 1) /\ k - 1 # n + 1 /\ k - 1 = n /\ k # 0
        BY <3>1
      <4>2. g[k] = Push(f[n], "pool", UNSET) /\ g[k - 1] = f[n]
        BY <3>1, <4>1
      <4>3. e[k] = Push(g[k - 1], "pool", UNSET)
        BY <4>1
      <4>4. QED BY <4>2, <4>3
    <3>2. CASE k # n + 1 /\ k # 0
      <4>1. k \in 0 .. n /\ k - 1 \in 0 .. (n + 1) /\ k - 1 # n + 1
        BY <3>2
      <4>2. g[k] = f[k] /\ g[k - 1] = f[k - 1]
        BY <3>2, <4>1
      <4>3. QED BY <2>2, <3>2, <4>1, <4>2
    <3>3. CASE k = 0
      <4>1. 0 \in 0 .. n /\ 0 # n + 1
        OBVIOUS
      <4>2. QED BY <2>2, <3>3, <4>1
    <3>4. QED BY <3>1, <3>2, <3>3
  <2>4. g = e
    BY <2>3
  <2>5. F(g, n + 1)
    BY <2>4
  <2> HIDE DEF g
  <2>6. n + 1 \in Nat /\ \E f0 : F(f0, n + 1)
    <3> HIDE DEF F
    <3>1. QED BY <2>5
  <2> HIDE DEF F
  <2>7. QED BY <2>6
<1>3. Nat \subseteq S
  <2> HIDE DEF S
  <2>1. QED BY <1>1, <1>2, NatInd
<1>4. Width \in Nat
  BY CallFigures
<1>5. \E f : F(f, Width)
  BY <1>3, <1>4
<1> DEFINE filled == CHOOSE f : F(f, Width)
<1>6. F(filled, Width)
  BY <1>5
<1>7. Widened(h) = filled[Width]
  BY DEF Widened
<1> HIDE DEF filled, S
<1>8. \A k \in 0 .. Width : filled[k] = IF k = 0 THEN h ELSE Push(filled[k - 1], "pool", UNSET)
  BY <1>6
<1> HIDE DEF F
<1>9. QED BY <1>7, <1>8

LEMMA WidenedIs ==
  ASSUME call \in Calls, NEW h \in Heaps
  PROVE  Wider(h, Widened(h), Width)
<1>4. Width \in Nat
  BY CallFigures
<1>7. PICK filled :
        /\ Widened(h) = filled[Width]
        /\ \A k \in 0 .. Width : filled[k] = IF k = 0 THEN h ELSE Push(filled[k - 1], "pool", UNSET)
  BY WidenedSteps
<1>8. \A k \in 0 .. Width : filled[k] = IF k = 0 THEN h ELSE Push(filled[k - 1], "pool", UNSET)
  BY <1>7
<1> DEFINE T == {k \in Nat : k <= Width => Wider(h, filled[k], k)}
<1>9. 0 \in T
  <2>1. filled[0] = h
    BY <1>4, <1>8
  <2>2. Len(h.pool) \in Nat
    BY DEF Heaps
  <2>3. QED BY <2>1, <2>2 DEF Wider, Kept
<1>10. ASSUME NEW k \in Nat, k \in T PROVE k + 1 \in T
  <2> SUFFICES ASSUME k + 1 <= Width PROVE Wider(h, filled[k + 1], k + 1)
    OBVIOUS
  <2>1. Wider(h, filled[k], k)
    BY <1>4, <1>10
  <2>2. filled[k + 1] = Push(filled[k], "pool", UNSET)
    BY <1>4, <1>8
  <2>3. QED BY <2>1, <2>2, WiderByOne
<1>11. Nat \subseteq T
  <2> HIDE DEF T
  <2>1. QED BY <1>9, <1>10, NatInd
<1>12. QED BY <1>4, <1>7, <1>11

\* The pool keeps the slots it has.
Extends(h, r) ==
  /\ Len(h.pool) <= Len(r.pool)
  /\ \A s \in 1 .. Len(h.pool) : r.pool[s] = h.pool[s]

\* t is a heap and a block taken from h: nobody held the block.
Took(h, t, lo, m, hand) ==
  /\ t.block \in Nat
  /\ Good(t.heap, lo, m, More(hand, t.block))
  /\ t.heap.ok => /\ Kept(h, t.heap, {"pool", "rc", "free"})
                  /\ Extends(h, t.heap)
                  /\ t.block \in Blocks(t.heap)
                  /\ Owed(h, lo, m, hand, t.block) = 0

LEMMA TakeFree ==
  ASSUME call \in Calls, NEW h, NEW lo \in Nat \ {0}, NEW m, NEW hand \in Hands,
         Good(h, lo, m, hand), h.ok, h.free # <<>>
  PROVE  Took(h, Take(h), lo, m, hand)
<1> DEFINE k == Len(h.free)
           b == h.free[k]
           s == SubSeq(h.free, 1, k - 1)
           q == [h EXCEPT !.free = s]
           r == [q EXCEPT !.rc[b + 1] = 1]
<1>1. h \in Heaps /\ h.free \in Seq(Nat) /\ h.rc \in Seq(Nat) /\ Len(h.rc) \in Nat
  BY DEF Good, Heaps
<1>2. /\ s \in Seq(Nat) /\ Len(s) = k - 1 /\ k \in Nat \ {0} /\ b \in Nat
      /\ \A i \in 1 .. (k - 1) : s[i] = h.free[i]
  BY <1>1, AllButLast
<1>3. Take(h) = [heap |-> r, block |-> b]
  BY <1>1 DEF Take, Heaps
<1>4. FreeRight(h) /\ Counted(h, lo, m, hand) /\ Len(h.pool) = Len(h.rc) * Width
  BY DEF Good, Books
<1>5. k \in 1 .. Len(h.free)
  BY <1>2
<1>6. b \in Blocks(h) /\ h.rc[b + 1] = 0
  BY <1>4, <1>5 DEF FreeRight
<1> HIDE DEF s
<1>7. q \in Heaps /\ Kept(h, q, {"free"}) /\ q.ok = h.ok /\ q.free = s /\ q.rc = h.rc
  BY ZenonT(40), <1>1, <1>2 DEF Heaps, Kept
<1> HIDE DEF q
<1>8. b \in Blocks(q)
  BY <1>6, <1>7 DEF Blocks
<1>9. r \in Heaps /\ Kept(q, r, {"rc"}) /\ r.ok = q.ok /\ Recounted(q, r, b, 1)
  BY ZenonT(40), <1>7, <1>8, CountSet
<1> HIDE DEF r, k, b
<1>10. /\ Kept(h, r, {"rc", "free"}) /\ r.ok /\ r.free = s
       /\ Len(r.rc) = Len(h.rc) /\ r.rc[b + 1] = 1 /\ Blocks(r) = Blocks(h)
       /\ \A c \in Blocks(h) : c # b => r.rc[c + 1] = h.rc[c + 1]
  BY <1>7, <1>9 DEF Kept, Recounted, Blocks
<1>11. ASSUME NEW c \in Nat
       PROVE  /\ Tally(r, c) = Owed(r, lo, m, More(hand, b), c)
              /\ c = b => Owed(h, lo, m, hand, c) = 0
  <2>1. /\ Owed(r, lo, m, More(hand, b), c) = Owed(h, lo, m, hand, c) + One(b, c)
        /\ Owed(h, lo, m, hand, c) \in Nat
    <3>1. Kept(h, r, {"rc", "free", "pool"})
      BY <1>10 DEF Kept
    <3>2. QED BY <1>1, <1>2, <3>1, OwedHand
  <2>2. Tally(h, c) = Owed(h, lo, m, hand, c)
    BY <1>4 DEF Counted
  <2>3. CASE c = b
    <3>1. Tally(r, c) = 1 /\ Tally(h, c) = 0 /\ One(b, c) = 1
      BY <1>1, <1>2, <1>6, <1>10, <2>3, OneIs DEF Tally, Blocks
    <3>2. QED BY <2>1, <2>2, <2>3, <3>1
  <2>4. CASE c # b
    <3>1. Tally(r, c) = Tally(h, c) /\ One(b, c) = 0
      BY <1>1, <1>2, <1>10, <2>4, OneIs DEF Tally, Blocks
    <3>2. QED BY <2>1, <2>2, <2>4, <3>1
  <2>5. QED BY <2>3, <2>4
<1>12. FreeRight(r)
  <2>1. ASSUME NEW i \in 1 .. (k - 1) PROVE i \in 1 .. k /\ i # k /\ s[i] # b
    <3>1. i \in 1 .. k /\ k \in 1 .. k /\ i # k /\ s[i] = h.free[i]
      BY <1>2
    <3>2. h.free[i] # h.free[k]
      BY <1>4, <3>1 DEF FreeRight, k
    <3>3. QED BY <3>1, <3>2 DEF b
  <2>2. Len(r.free) = k - 1 /\ \A i \in 1 .. (k - 1) : r.free[i] = h.free[i]
    BY <1>2, <1>10
  <2>3. \A i \in 1 .. Len(r.free) : r.free[i] \in Blocks(r)
    BY <1>4, <1>10, <2>1, <2>2 DEF FreeRight, k
  <2>4. \A i, j \in 1 .. Len(r.free) : r.free[i] = r.free[j] => i = j
    BY <1>4, <2>1, <2>2 DEF FreeRight, k
  <2>5. ASSUME NEW c \in Blocks(r)
        PROVE  r.rc[c + 1] = 0 <=> \E i \in 1 .. Len(r.free) : r.free[i] = c
    <3>1. CASE c = b
      BY <1>10, <2>1, <2>2, <3>1
    <3>2. CASE c # b
      <4>1. r.rc[c + 1] = 0 <=> \E i \in 1 .. Len(h.free) : h.free[i] = c
        BY <1>4, <1>10, <3>2 DEF FreeRight
      <4>2. \A i \in 1 .. Len(h.free) : i = k \/ i \in 1 .. (k - 1)
        BY <1>2 DEF k
      <4>3. h.free[k] = b
        BY DEF b
      <4>4. QED BY <2>1, <2>2, <3>2, <4>1, <4>2, <4>3 DEF k
    <3>3. QED BY <3>1, <3>2
  <2>6. QED BY <2>3, <2>4, <2>5 DEF FreeRight
<1>13. Len(r.pool) = Len(r.rc) * Width /\ r.pool = h.pool /\ Len(h.pool) \in Nat
  BY SMTT(30), <1>1, <1>4, <1>10 DEF Kept, Heaps
<1>14. Good(r, lo, m, More(hand, b))
  BY <1>7, <1>9, <1>11, <1>12, <1>13 DEF Good, Books, Counted
<1>15. Kept(h, r, {"pool", "rc", "free"}) /\ Extends(h, r)
  BY <1>10, <1>13 DEF Kept, Extends
<1>16. QED BY <1>2, <1>3, <1>6, <1>10, <1>11, <1>14, <1>15 DEF Took

LEMMA TakeFresh ==
  ASSUME call \in Calls, NEW h, NEW lo \in Nat \ {0}, NEW m, NEW hand \in Hands,
         Good(h, lo, m, hand), h.ok, h.free = <<>>
  PROVE  Took(h, Take(h), lo, m, hand)
<1> DEFINE b == Len(h.rc)
           q == Push(h, "rc", 1)
           r == Widened(q)
<1>1. h \in Heaps /\ h.rc \in Seq(Nat) /\ b \in Nat /\ Len(h.free) = 0
  BY DEF Good, Heaps
<1>2. Take(h) = [heap |-> r, block |-> b]
  BY DEF Take
<1>3. FreeRight(h) /\ Counted(h, lo, m, hand) /\ Len(h.pool) = b * Width
  BY DEF Good, Books
<1>4. q \in Heaps /\ (q.ok => Kept(h, q, {"rc"}) /\ q.rc = Append(h.rc, 1))
  <2> DEFINE e == 1
             p == Push(h, "rc", e)
  <2>1. "rc" \in Arrays /\ e \in Entries("rc")
    BY DEF Arrays, Entries, Lists
  <2> HIDE DEF e
  <2>2. p \in Heaps /\ (p.ok => Kept(h, p, {"rc"}) /\ p.rc = Append(h.rc, e))
    BY <1>1, <2>1, PushKeeps
  <2>3. q = p /\ e = 1
    BY DEF e
  <2> HIDE DEF p, q
  <2>4. QED BY <2>2, <2>3
<1>5. /\ Len(Append(h.rc, 1)) = b + 1 /\ Append(h.rc, 1)[b + 1] = 1
      /\ \A c \in 1 .. b : Append(h.rc, 1)[c] = h.rc[c]
  BY <1>1, AppendProperties
<1> HIDE DEF q
<1>6. Wider(q, r, Width)
  BY <1>4, WidenedIs
<1> HIDE DEF r, b
<1>7. r \in Heaps
  BY <1>6 DEF Wider
<1>8. ASSUME r.ok
      PROVE  /\ Books(r, lo, m, More(hand, b))
             /\ Kept(h, r, {"pool", "rc", "free"}) /\ Extends(h, r) /\ b \in Blocks(r)
             /\ Owed(h, lo, m, hand, b) = 0
  <2>1. q.ok /\ Kept(h, q, {"rc"}) /\ q.rc = Append(h.rc, 1) /\ q.pool = h.pool
    BY <1>4, <1>6, <1>8 DEF Wider, Kept
  <2>2. /\ Kept(h, r, {"rc", "pool"}) /\ r.rc = Append(h.rc, 1)
        /\ Len(r.pool) = Len(h.pool) + Width
        /\ \A s \in 1 .. Len(h.pool) : r.pool[s] = h.pool[s]
    BY <1>6, <1>8, <2>1 DEF Wider, Kept
  <2>3. Width \in Nat /\ Len(h.pool) \in Nat
    BY <1>1, CallFigures DEF Heaps
  <2>4. Len(r.rc) = b + 1
    BY <1>5, <2>2
  <2>5. Len(r.pool) = Len(r.rc) * Width
    <3>1. (b + 1) * Width = b * Width + Width
      BY <1>1, <2>3
    <3>2. QED BY <1>3, <2>2, <2>4, <3>1
  <2>6. ASSUME NEW c \in Nat
        PROVE  /\ Tally(r, c) = Owed(r, lo, m, More(hand, b), c)
               /\ c = b => Owed(h, lo, m, hand, c) = 0
    <3>1. /\ Owed(r, lo, m, More(hand, b), c) = Owed(h, lo, m, hand, c) + One(b, c)
          /\ Owed(h, lo, m, hand, c) \in Nat
      <4>1. Kept(h, r, {"rc", "free", "pool"})
        BY <2>2 DEF Kept
      <4>2. QED BY <1>1, <4>1, OwedHand
    <3>2. Tally(h, c) = Owed(h, lo, m, hand, c)
      BY <1>3 DEF Counted
    <3>3. CASE c = b
      <4>1. Tally(r, c) = 1 /\ Tally(h, c) = 0 /\ One(b, c) = 1
        BY <1>1, <1>5, <2>2, <2>4, <3>3, OneIs DEF Tally, b
      <4>2. QED BY <3>1, <3>2, <3>3, <4>1
    <3>4. CASE c # b
      <4>1. Tally(r, c) = Tally(h, c) /\ One(b, c) = 0
        <5>1. c < b => c + 1 \in 1 .. b
          BY <1>1
        <5>2. b = Len(h.rc)
          BY DEF b
        <5>3. QED BY <1>1, <1>5, <2>2, <2>4, <3>4, <5>1, <5>2, OneIs DEF Tally
      <4>2. QED BY <3>1, <3>2, <3>4, <4>1
    <3>5. QED BY <3>3, <3>4
  <2>7. FreeRight(r)
    <3>1. r.free = h.free /\ \A i \in 1 .. Len(r.free) : FALSE
      BY <1>1, <2>2 DEF Kept
    <3>2. ASSUME NEW c \in Blocks(r) PROVE r.rc[c + 1] # 0
      <4>1. c = b \/ (c \in Blocks(h) /\ c + 1 \in 1 .. b)
        BY <1>1, <2>4 DEF Blocks, b
      <4>2. CASE c = b
        BY <1>5, <2>2, <4>2
      <4>3. CASE c \in Blocks(h) /\ c + 1 \in 1 .. b
        <5>1. h.rc[c + 1] # 0
          BY <1>1, <1>3, <4>3 DEF FreeRight
        <5>2. QED BY <1>5, <2>2, <4>3, <5>1
      <4>4. QED BY <4>1, <4>2, <4>3
    <3>3. QED BY <3>1, <3>2 DEF FreeRight
  <2>8. b \in Blocks(r)
    BY <1>1, <2>4 DEF Blocks
  <2>9. Kept(h, r, {"pool", "rc", "free"}) /\ Extends(h, r)
    BY <2>2, <2>3 DEF Kept, Extends
  <2>10. Counted(r, lo, m, More(hand, b)) /\ Owed(h, lo, m, hand, b) = 0
    BY <1>1, <2>6 DEF Counted
  <2>11. QED BY <2>5, <2>7, <2>8, <2>9, <2>10 DEF Books
<1>9. QED BY <1>1, <1>2, <1>7, <1>8 DEF Took, Good

LEMMA TakeGood ==
  ASSUME call \in Calls, NEW h, NEW lo \in Nat \ {0}, NEW m, NEW hand \in Hands,
         Good(h, lo, m, hand), h.ok
  PROVE  Took(h, Take(h), lo, m, hand)
BY TakeFree, TakeFresh

-----------------------------------------------------------------------------
(* The slots of a block, and writing them.                                 *)

LEMMA SlotsApart ==
  ASSUME call \in Calls, NEW b \in Nat, NEW c \in Nat, NEW j \in 0 .. (Width - 1),
         NEW k \in 0 .. (Width - 1)
  PROVE  /\ Slot(b, j) \in Nat \ {0}
         /\ Slot(b, j) \in Slot(b, 0) .. Slot(b, Width - 1)
         /\ Slot(b, j) = Slot(c, k) => b = c /\ j = k
         /\ b # c => Slot(b, j) \notin Slot(c, 0) .. Slot(c, Width - 1)
         /\ \A n \in Nat : b < n => Slot(b, j) <= n * Width
<1> DEFINE W == Width
<1>1. W \in Nat \ {0}
  BY CallFigures
<1>2. j \in 0 .. (W - 1) /\ k \in 0 .. (W - 1)
  OBVIOUS
<1>3. /\ Slot(b, j) = b * W + j + 1 /\ Slot(c, k) = c * W + k + 1
      /\ Slot(b, 0) = b * W + 0 + 1 /\ Slot(b, W - 1) = b * W + (W - 1) + 1
      /\ Slot(c, 0) = c * W + 0 + 1 /\ Slot(c, W - 1) = c * W + (W - 1) + 1
  BY DEF Slot
<1> HIDE DEF W
<1>4. ASSUME NEW x \in Nat, NEW y \in Nat, x < y
      PROVE  x * W + W <= y * W
  <2>1. PICK d \in Nat : y = x + 1 + d
    <3>1. y - x - 1 \in Nat /\ y = x + 1 + (y - x - 1)
      BY <1>4
    <3>2. QED BY <3>1
  <2>2. y * W = x * W + W + d * W
    BY <1>1, <2>1
  <2>3. d * W \in Nat /\ x * W \in Nat
    BY <1>1
  <2>4. QED BY <1>1, <2>2, <2>3
<1>5. /\ b < c => b * W + W <= c * W
      /\ c < b => c * W + W <= b * W
      /\ \A n \in Nat : b < n => b * W + W <= n * W
  BY <1>4
<1> DEFINE x == b * W
           y == c * W
<1>6. x \in Nat /\ y \in Nat
  BY <1>1
<1>7. /\ Slot(b, j) = x + j + 1 /\ Slot(c, k) = y + k + 1
      /\ Slot(b, 0) = x + 1 /\ Slot(b, W - 1) = x + W
      /\ Slot(c, 0) = y + 1 /\ Slot(c, W - 1) = y + W
  BY <1>1, <1>3, <1>6
<1>8. /\ b < c => x + W <= y
      /\ c < b => y + W <= x
      /\ \A n \in Nat : b < n => x + W <= n * W
  BY <1>5
<1> HIDE DEF x, y
<1>9. Slot(b, j) \in Nat \ {0} /\ Slot(b, j) \in Slot(b, 0) .. Slot(b, W - 1)
  BY <1>1, <1>2, <1>6, <1>7
<1>10. Slot(b, j) = Slot(c, k) => b = c /\ j = k
  <2>1. CASE b = c
    <3>1. x = y
      BY <2>1 DEF x, y
    <3>2. QED BY <1>1, <1>2, <1>6, <1>7, <2>1, <3>1
  <2>2. CASE b < c
    BY <1>1, <1>2, <1>6, <1>7, <1>8, <2>2
  <2>3. CASE c < b
    BY <1>1, <1>2, <1>6, <1>7, <1>8, <2>3
  <2>4. QED BY <2>1, <2>2, <2>3
<1>11. b # c => Slot(b, j) \notin Slot(c, 0) .. Slot(c, W - 1)
  BY <1>1, <1>2, <1>6, <1>7, <1>8
<1>12. ASSUME NEW n \in Nat, b < n PROVE Slot(b, j) <= n * W
  <2>1. n * W \in Nat
    BY <1>1
  <2> DEFINE z == n * W
  <2>2. x + W <= z /\ z \in Nat
    BY <1>8, <1>12, <2>1
  <2> HIDE DEF z
  <2>3. Slot(b, j) <= z
    BY <1>1, <1>2, <1>6, <1>7, <2>2
  <2>4. QED BY <2>3 DEF z
<1>13. QED BY <1>9, <1>10, <1>11, <1>12 DEF W

\* A block that is held outside the hand.
Kin(h, lo, m, c) == Owed(h, lo, m, NoHand, c) > 0

\* The captures of every block held outside the hand are as they were.
Spared(h, r, lo, m) ==
  \A c \in Nat : Kin(h, lo, m, c) =>
    \A j \in 0 .. (Width - 1) : r.pool[Slot(c, j)] = h.pool[Slot(c, j)]

LEMMA KinKnown ==
  ASSUME call \in Calls, NEW h, NEW lo \in Nat \ {0}, NEW m, NEW hand \in Hands,
         Good(h, lo, m, hand), h.ok, NEW c \in Nat, Kin(h, lo, m, c)
  PROVE  /\ c \in Blocks(h) /\ h.rc[c + 1] > hand[c] /\ hand[c] \in Nat
         /\ Owed(h, lo, m, hand, c) > 0
         /\ h.rc[c + 1] \in Nat
         /\ \A j \in 0 .. (Width - 1) : Slot(c, j) \in 1 .. Len(h.pool)
<1>1. h \in Heaps /\ Len(h.rc) \in Nat /\ h.rc \in Seq(Nat)
  BY DEF Good, Heaps
<1>2. Tally(h, c) = Owed(h, lo, m, hand, c) /\ Len(h.pool) = Len(h.rc) * Width
  BY DEF Good, Books, Counted
<1>3. /\ Held(h.clist, lo, c) \in Nat /\ Held(h.nlist, 1, c) \in Nat
      /\ Held(h.stk, 1, c) \in Nat /\ hand[c] \in Nat /\ One(m, c) \in Nat
      /\ NoHand[c] = 0
  BY <1>1, HoldsCounted, OneBit, EmptyHand
<1> DEFINE t == Held(h.clist, lo, c) + Held(h.nlist, 1, c) + Held(h.stk, 1, c) + One(m, c)
<1>4. t \in Nat /\ t > 0 /\ Owed(h, lo, m, hand, c) = t + hand[c]
  BY <1>3 DEF Kin, Owed
<1> HIDE DEF t
<1>5. Owed(h, lo, m, hand, c) > hand[c] /\ Owed(h, lo, m, hand, c) \in Nat
  BY <1>3, <1>4
<1>6. c < Len(h.rc)
  BY <1>1, <1>2, <1>3, <1>5 DEF Tally
<1>7. c \in Blocks(h) /\ h.rc[c + 1] > hand[c] /\ h.rc[c + 1] \in Nat
  BY <1>1, <1>2, <1>5, <1>6 DEF Tally, Blocks
<1>8. ASSUME NEW j \in 0 .. (Width - 1) PROVE Slot(c, j) \in 1 .. Len(h.pool)
  BY <1>1, <1>2, <1>6, SlotsApart
<1>9. QED BY <1>3, <1>5, <1>7, <1>8

LEMMA ExtendsSpares ==
  ASSUME call \in Calls, NEW h, NEW lo \in Nat \ {0}, NEW m, NEW hand \in Hands,
         Good(h, lo, m, hand), h.ok, NEW r, Extends(h, r)
  PROVE  Spared(h, r, lo, m)
<1> SUFFICES ASSUME NEW c \in Nat, Kin(h, lo, m, c), NEW j \in 0 .. (Width - 1)
             PROVE  r.pool[Slot(c, j)] = h.pool[Slot(c, j)]
  BY DEF Spared
<1>1. Slot(c, j) \in 1 .. Len(h.pool)
  BY KinKnown
<1>2. QED BY <1>1 DEF Extends

\* A handle in hand given up for another.
LEMMA HandSwap ==
  ASSUME NEW hand \in Hands, NEW b \in Nat, NEW f \in Nat
  PROVE  Less(More(More(hand, b), f), b) = More(hand, f)
<1> DEFINE g == More(hand, b)
           x == Less(More(g, f), b)
           y == More(hand, f)
<1>1. g \in Hands /\ \A c \in Nat : g[c] = hand[c] + One(b, c)
  BY HandTaken
<1>2. More(g, f) \in Hands /\ \A c \in Nat : More(g, f)[c] = g[c] + One(f, c)
  BY <1>1, HandTaken
<1>3. \A c \in Nat : hand[c] \in Nat /\ g[c] \in Nat
  BY <1>1 DEF Hands
<1>4. One(b, b) = 1 /\ \A c \in Nat : One(b, c) \in Nat /\ One(f, c) \in Nat
  BY OneIs, OneBit
<1>5. More(g, f)[b] > 0
  BY <1>1, <1>2, <1>3, <1>4
<1>6. x \in Hands /\ \A c \in Nat : x[c] = More(g, f)[c] - One(b, c)
  BY <1>2, <1>5, HandGiven
<1>7. y \in Hands /\ \A c \in Nat : y[c] = hand[c] + One(f, c)
  BY HandTaken
<1> HIDE DEF x, y, g
<1>8. ASSUME NEW c \in Nat PROVE x[c] = y[c]
  <2>1. /\ x[c] = More(g, f)[c] - One(b, c) /\ More(g, f)[c] = g[c] + One(f, c)
        /\ g[c] = hand[c] + One(b, c) /\ y[c] = hand[c] + One(f, c)
    BY <1>1, <1>2, <1>6, <1>7
  <2>2. QED BY <1>3, <1>4, <2>1
<1>9. x = y
  BY <1>6, <1>7, <1>8 DEF Hands
<1>10. QED BY <1>9 DEF x, y, g

\* A heap whose pool is rewritten in place.
LEMMA Rewritten ==
  ASSUME NEW h \in Heaps, NEW pool \in Seq(Values), Len(pool) = Len(h.pool)
  PROVE  /\ [h EXCEPT !.pool = pool] \in Heaps
         /\ [h EXCEPT !.pool = pool].ok = h.ok
         /\ [h EXCEPT !.pool = pool].pool = pool
         /\ Kept(h, [h EXCEPT !.pool = pool], {"pool"})
         /\ \A lo, m, hand : Good(h, lo, m, hand) => Good([h EXCEPT !.pool = pool], lo, m, hand)
<1> DEFINE r == [h EXCEPT !.pool = pool]
<1>1. r \in Heaps /\ r.ok = h.ok /\ r.pool = pool /\ Kept(h, r, {"pool"})
  BY DEF Heaps, Kept
<1> HIDE DEF r
<1>2. ASSUME NEW lo, NEW m, NEW hand, Good(h, lo, m, hand)
      PROVE  Good(r, lo, m, hand)
  <2>1. r.clist = h.clist /\ r.nlist = h.nlist /\ r.stk = h.stk /\ r.rc = h.rc /\ r.free = h.free
    BY <1>1 DEF Kept
  <2>2. Counted(h, lo, m, hand) => Counted(r, lo, m, hand)
    BY <2>1 DEF Counted, Tally, Owed
  <2>3. FreeRight(h) => FreeRight(r)
    BY <2>1 DEF FreeRight, Blocks
  <2>4. QED BY <1>1, <1>2, <2>1, <2>2, <2>3 DEF Good, Books
<1>3. QED BY <1>1, <1>2 DEF r

\* What a write leaves: the block in hand is the thread's own, and no other
\* holder sees a difference.
Wrote(h, w, lo, m, hand) ==
  /\ w.block \in Nat
  /\ Good(w.heap, lo, m, More(hand, w.block))
  /\ w.heap.ok => /\ h.ok /\ Kept(h, w.heap, {"pool", "rc", "free"})
                  /\ Spared(h, w.heap, lo, m)

LEMMA WriteOwn ==
  ASSUME call \in Calls, NEW h, NEW lo \in Nat \ {0}, NEW m, NEW hand \in Hands,
         NEW b \in Nat, Good(h, lo, m, More(hand, b)), NEW k \in 0 .. (Width - 1),
         NEW value \in Nat, ~(h.ok /\ h.rc[b + 1] > 1)
  PROVE  Wrote(h, Write(h, b, k, value), lo, m, hand)
<1> DEFINE w == Write(h, b, k, value)
           s == Slot(b, k)
           pool == [h.pool EXCEPT ![s] = value]
           r == [h EXCEPT !.pool = pool]
<1>1. w = [heap |-> IF h.ok THEN [h EXCEPT !.pool[s] = value] ELSE h, block |-> b]
  BY DEF Write
<1>2. CASE ~h.ok
  <2>1. w = [heap |-> h, block |-> b]
    BY <1>1, <1>2
  <2> HIDE DEF w
  <2>2. w.heap = h /\ w.block = b
    BY <2>1
  <2>3. QED BY <1>2, <2>2 DEF Wrote, w
<1>3. CASE h.ok
  <2>1. More(hand, b) \in Hands /\ hand[b] \in Nat /\ More(hand, b)[b] = hand[b] + 1
    <3>1. More(hand, b) \in Hands /\ \A c \in Nat : More(hand, b)[c] = hand[c] + One(b, c)
      BY HandTaken
    <3>2. One(b, b) = 1 /\ hand[b] \in Nat
      BY OneIs DEF Hands
    <3>3. QED BY <3>1, <3>2
  <2> DEFINE g == More(hand, b)
  <2>2. g[b] > 0
    BY <2>1
  <2> HIDE DEF g
  <2>3. h \in Heaps /\ Len(h.rc) \in Nat /\ b \in Blocks(h) /\ h.rc[b + 1] \in Nat
    BY <1>3, <2>1, <2>2, HandKnown DEF g
  <2>4. h.pool \in Seq(Values) /\ value \in Values /\ Len(h.pool) = Len(h.rc) * Width
    BY <1>3, <2>3 DEF Heaps, Values, Good, Books
  <2>5. s \in 1 .. Len(h.pool)
    <3>1. b < Len(h.rc)
      BY <2>3 DEF Blocks
    <3>2. QED BY SMTT(30), <2>3, <2>4, <3>1, SlotsApart
  <2>6. /\ pool \in Seq(Values) /\ Len(pool) = Len(h.pool)
        /\ \A i \in 1 .. Len(h.pool) : pool[i] = IF i = s THEN value ELSE h.pool[i]
    BY <2>4, <2>5, ExceptSeq
  <2>7. w = [heap |-> r, block |-> b]
    BY <1>1, <1>3
  <2> HIDE DEF pool
  <2>8. /\ r.ok = h.ok /\ r.pool = pool /\ Kept(h, r, {"pool"})
        /\ Good(r, lo, m, g)
    BY <2>3, <2>6, Rewritten DEF g
  <2> HIDE DEF r, w
  <2>9. w.heap = r /\ w.block = b
    BY <2>7
  <2>10. Kept(h, r, {"pool", "rc", "free"})
    BY <2>8 DEF Kept
  <2>11. Spared(h, r, lo, m)
    <3> SUFFICES ASSUME NEW c \in Nat, Kin(h, lo, m, c), NEW j \in 0 .. (Width - 1)
                 PROVE  r.pool[Slot(c, j)] = h.pool[Slot(c, j)]
      BY DEF Spared
    <3>1. /\ c \in Blocks(h) /\ h.rc[c + 1] > g[c] /\ g[c] \in Nat
          /\ Slot(c, j) \in 1 .. Len(h.pool)
      BY <1>3, <2>1, KinKnown DEF g
    <3>2. c # b
      <4>1. h.rc[b + 1] <= 1 /\ g[b] >= 1
        BY SMTT(30), <1>3, <2>1, <2>3 DEF g
      <4>2. QED BY <2>3, <3>1, <4>1
    <3>3. Slot(c, j) # s
      BY <3>2, SlotsApart
    <3>4. QED BY <2>6, <2>8, <3>1, <3>3
  <2>12. QED BY <1>3, <2>8, <2>9, <2>10, <2>11 DEF Wrote, w, g
<1>4. QED BY <1>2, <1>3

\* The pool with block b copied onto block f, and a slot of the copy written.
Copied(pool, b, f, k, value) ==
  [[s \in DOMAIN pool |->
      IF s \in Slot(f, 0) .. Slot(f, Width - 1)
      THEN pool[s - Slot(f, 0) + Slot(b, 0)] ELSE pool[s]]
     EXCEPT ![Slot(f, k)] = value]

LEMMA CopyGood ==
  ASSUME call \in Calls, NEW t \in Heaps, NEW b \in Blocks(t), NEW f \in Blocks(t),
         NEW k \in 0 .. (Width - 1), NEW value \in Nat, b # f,
         Len(t.pool) = Len(t.rc) * Width
  PROVE  /\ Copied(t.pool, b, f, k, value) \in Seq(Values)
         /\ Len(Copied(t.pool, b, f, k, value)) = Len(t.pool)
         /\ \A s \in 1 .. Len(t.pool) :
              s \notin Slot(f, 0) .. Slot(f, Width - 1) =>
                Copied(t.pool, b, f, k, value)[s] = t.pool[s]
<1> DEFINE n == Len(t.rc)
           N == Len(t.pool)
           copied == [s \in DOMAIN t.pool |->
                        IF s \in Slot(f, 0) .. Slot(f, Width - 1)
                        THEN t.pool[s - Slot(f, 0) + Slot(b, 0)]
                        ELSE t.pool[s]]
           pool == [copied EXCEPT ![Slot(f, k)] = value]
<1>1. t.pool \in Seq(Values) /\ value \in Values
  BY DEF Heaps, Values
<1>0. /\ n \in Nat /\ b \in Nat /\ f \in Nat /\ b < n /\ f < n
      /\ Len(t.pool) = n * Width
  BY SMTT(30) DEF Heaps, Blocks
<1> HIDE DEF n
<1>2. N \in Nat /\ DOMAIN t.pool = 1 .. N /\ \A s \in 1 .. N : t.pool[s] \in Values
  BY <1>1, LenProperties, ElementOfSeq
<1>3. Width \in Nat \ {0} /\ 0 \in 0 .. (Width - 1) /\ Width - 1 \in 0 .. (Width - 1)
  BY CallFigures
<1>4. ASSUME NEW x \in Nat, x < n
      PROVE  /\ Slot(x, 0) \in Nat \ {0} /\ Slot(x, Width - 1) <= N
             /\ Slot(x, Width - 1) = Slot(x, 0) + (Width - 1)
  <2>1. Slot(x, 0) \in Nat \ {0} /\ Slot(x, Width - 1) <= n * Width
    <3>1. ASSUME NEW j \in 0 .. (Width - 1)
          PROVE  Slot(x, j) \in Nat \ {0} /\ Slot(x, j) <= n * Width
      <4>1. x \in Nat /\ n \in Nat /\ x < n
        BY <1>0, <1>4
      <4>2. QED BY <4>1, SlotsApart
    <3>2. QED BY <1>3, <3>1
  <2>2. x * Width \in Nat
    BY <1>3
  <2> DEFINE y == x * Width
  <2>3. Slot(x, 0) = y + 0 + 1 /\ Slot(x, Width - 1) = y + (Width - 1) + 1 /\ y \in Nat
    BY <2>2 DEF Slot
  <2> HIDE DEF y
  <2>4. Slot(x, Width - 1) = Slot(x, 0) + (Width - 1)
    BY <1>3, <2>3
  <2>5. QED BY <1>0, <2>1, <2>4
<1> DEFINE F == Slot(f, 0)
           B == Slot(b, 0)
           L == Slot(f, Width - 1)
<1>5. F \in Nat \ {0} /\ B \in Nat \ {0} /\ L = F + (Width - 1) /\ L <= N /\ B + (Width - 1) <= N
  BY <1>0, <1>4
<1>6. Slot(f, k) \in F .. L
  BY <1>0, SlotsApart
<1> HIDE DEF F, B, L, N
<1>7. \A s \in 1 .. N : s \in F .. L => s - F + B \in 1 .. N
  BY <1>2, <1>3, <1>5
<1>8. copied = [s \in 1 .. N |-> IF s \in F .. L THEN t.pool[s - F + B] ELSE t.pool[s]]
  BY <1>2 DEF F, B, L
<1> HIDE DEF copied
<1>9. copied \in [1 .. N -> Values]
  BY <1>2, <1>7, <1>8
<1>10. copied \in Seq(Values) /\ Len(copied) = N
  BY <1>2, <1>9, SeqDef, LenProperties
<1>11. Slot(f, k) \in 1 .. Len(copied)
  BY <1>2, <1>3, <1>5, <1>6, <1>10
<1>12. /\ pool \in Seq(Values) /\ Len(pool) = N
       /\ \A s \in 1 .. N : pool[s] = IF s = Slot(f, k) THEN value ELSE copied[s]
  BY <1>1, <1>10, <1>11, ExceptSeq
<1> HIDE DEF pool
<1>13. ASSUME NEW s \in 1 .. N, s \notin F .. L PROVE pool[s] = t.pool[s]
  BY <1>6, <1>8, <1>12, <1>13
<1>14. QED BY <1>12, <1>13 DEF pool, copied, N, F, L, Copied

LEMMA WriteShared ==
  ASSUME call \in Calls, NEW h, NEW lo \in Nat \ {0}, NEW m, NEW hand \in Hands,
         NEW b \in Nat, Good(h, lo, m, More(hand, b)), NEW k \in 0 .. (Width - 1),
         NEW value \in Nat, h.ok, h.rc[b + 1] > 1
  PROVE  Wrote(h, Write(h, b, k, value), lo, m, hand)
<1> DEFINE g == More(hand, b)
           w == Write(h, b, k, value)
           paid == Pay(h, Block)
           took == Take(paid)
           t == took.heap
           f == took.block
           pool == Copied(t.pool, b, f, k, value)
           q == [t EXCEPT !.pool = pool]
           r == [t EXCEPT !.pool = pool, !.rc[b + 1] = @ - 1]
<1>1. w = IF ~paid.ok THEN [heap |-> paid, block |-> b]
          ELSE IF ~t.ok THEN [heap |-> t, block |-> b]
          ELSE [heap |-> r, block |-> f]
  BY DEF Write, Copied
<1>2. g \in Hands /\ g[b] > 0 /\ Good(h, lo, m, g)
  <2>1. g \in Hands /\ \A c \in Nat : g[c] = hand[c] + One(b, c)
    BY HandTaken
  <2>2. One(b, b) = 1 /\ hand[b] \in Nat
    BY OneIs DEF Hands
  <2>3. QED BY <2>1, <2>2
<1>3. Good(paid, lo, m, g) /\ paid \in Heaps /\ Kept(h, paid, {}) /\ h \in Heaps
  <2>1. Block \in Nat /\ h \in Heaps
    BY <1>2, CallFigures DEF Good
  <2>2. Good(paid, lo, m, g)
    BY <1>2, <2>1, PayGood
  <2>3. QED BY <2>1, <2>2, PayKeeps
<1> HIDE DEF w, paid
<1>4. CASE ~paid.ok
  <2>1. w.heap = paid /\ w.block = b
    BY <1>1, <1>4
  <2>2. Good(paid, lo, m, More(hand, b))
    BY <1>3
  <2>3. QED BY <1>4, <2>1, <2>2 DEF Wrote, w
<1>5. ASSUME paid.ok PROVE Took(paid, took, lo, m, g)
  BY <1>2, <1>3, <1>5, TakeGood
<1> HIDE DEF took
<1>6. CASE paid.ok /\ ~t.ok
  <2>1. w.heap = t /\ w.block = b
    BY <1>1, <1>6
  <2>2. Good(t, lo, m, More(g, f))
    BY <1>5, <1>6 DEF Took
  <2>3. Good(t, lo, m, More(hand, b))
    BY <1>6, <2>2 DEF Good
  <2>4. QED BY <1>6, <2>1, <2>3 DEF Wrote, w
<1>7. CASE paid.ok /\ t.ok
  <2>1. /\ f \in Nat /\ Good(t, lo, m, More(g, f))
        /\ Kept(paid, t, {"pool", "rc", "free"}) /\ Extends(paid, t)
        /\ f \in Blocks(t) /\ Owed(paid, lo, m, g, f) = 0
    BY <1>5, <1>7 DEF Took
  <2> HIDE DEF t, f
  <2> DEFINE gf == More(g, f)
  <2>2. w.heap = r /\ w.block = f
    BY <1>1, <1>7 DEF r
  <2>3. /\ Kept(h, t, {"pool", "rc", "free"}) /\ Extends(h, t)
        /\ \A c : Owed(paid, lo, m, g, c) = Owed(h, lo, m, g, c)
    BY <1>3, <2>1 DEF Kept, Extends, Owed
  <2>4. /\ b \in Blocks(h) /\ h.rc[b + 1] = Owed(h, lo, m, g, b)
        /\ Owed(h, lo, m, g, b) > 1
    BY <1>2, HandKnown
  <2>5. b # f
    BY <2>1, <2>3, <2>4
  <2>6. gf \in Hands /\ gf[b] > 0
    <3>1. gf \in Hands /\ \A c \in Nat : gf[c] = g[c] + One(f, c)
      BY <1>2, <2>1, HandTaken
    <3>2. One(f, b) \in Nat /\ g[b] \in Nat /\ g[b] > 0
      BY <1>2, OneBit DEF Hands
    <3> HIDE DEF g, gf
    <3>3. QED BY <3>1, <3>2
  <2>7. /\ t \in Heaps /\ Len(t.rc) \in Nat /\ b \in Blocks(t)
        /\ t.rc[b + 1] = Owed(t, lo, m, gf, b) /\ t.rc[b + 1] \in Nat
    BY <1>7, <2>1, <2>6, HandKnown
  <2>8. t.rc[b + 1] > 1
    <3>1. Owed(t, lo, m, gf, b) = Owed(h, lo, m, g, b) + One(f, b)
      BY <1>2, <1>3, <2>1, <2>3, OwedHand DEF Kept
    <3>2. Owed(h, lo, m, g, b) \in Nat /\ One(f, b) \in Nat
      BY <1>2, <1>3, <2>1, <2>3, OwedHand, OneBit
    <3>3. QED BY <2>4, <2>7, <3>1, <3>2
  <2>9. Len(t.pool) = Len(t.rc) * Width /\ b < Len(t.rc) /\ f < Len(t.rc)
    BY <1>7, <2>1, <2>7 DEF Good, Books, Blocks
  <2>10. /\ pool \in Seq(Values) /\ Len(pool) = Len(t.pool)
         /\ \A s \in 1 .. Len(t.pool) :
              s \notin Slot(f, 0) .. Slot(f, Width - 1) => pool[s] = t.pool[s]
    BY SMTT(30), <2>1, <2>5, <2>7, <2>9, CopyGood
  <2> HIDE DEF pool
  <2>11. /\ q \in Heaps /\ q.ok = t.ok /\ q.pool = pool /\ Kept(t, q, {"pool"})
         /\ Good(q, lo, m, gf)
    BY <2>1, <2>7, <2>10, Rewritten
  <2>12. r = Drop(q, b)
    <3>1. q.rc = t.rc
      BY <2>11 DEF Kept
    <3> DEFINE n == q.rc[b + 1] - 1
               less == [q EXCEPT !.rc[b + 1] = n]
    <3>2. less = r
      BY <2>7 DEF Heaps
    <3>3. n \in Nat /\ b \in Blocks(q) /\ n # 0
      BY <2>7, <2>8, <3>1 DEF Blocks
    <3>4. b # NONE
      BY DEF NONE
    <3> HIDE DEF q, r
    <3>5. Drop(q, b) = IF less.rc[b + 1] = 0 THEN Push(less, "free", b) ELSE less
      BY <1>7, <2>11, <3>4 DEF Drop
    <3> HIDE DEF n
    <3>6. less.rc[b + 1] = n
      BY ZenonT(40), <2>11, <3>3, CountSet DEF Recounted
    <3> HIDE DEF less
    <3>7. QED BY <3>2, <3>3, <3>5, <3>6
  <2> HIDE DEF q, r
  <2>13. /\ Good(r, lo, m, Less(gf, b))
         /\ r.ok => Kept(q, r, {"rc", "free"})
    BY <2>6, <2>11, <2>12, DropGood
  <2>14. Less(gf, b) = More(hand, f)
    BY <2>1, HandSwap
  <2>15. r.ok => Kept(h, r, {"pool", "rc", "free"}) /\ r.pool = pool
    BY <2>3, <2>11, <2>13 DEF Kept
  <2>16. ASSUME r.ok PROVE Spared(h, r, lo, m)
    <3> SUFFICES ASSUME NEW c \in Nat, Kin(h, lo, m, c), NEW j \in 0 .. (Width - 1)
                 PROVE  r.pool[Slot(c, j)] = h.pool[Slot(c, j)]
      BY DEF Spared
    <3>1. Owed(h, lo, m, g, c) > 0 /\ Slot(c, j) \in 1 .. Len(h.pool)
      BY <1>2, KinKnown
    <3>2. c # f
      BY <2>1, <2>3, <3>1
    <3>3. Slot(c, j) \notin Slot(f, 0) .. Slot(f, Width - 1)
      BY <2>1, <3>2, SlotsApart
    <3>4. Slot(c, j) \in 1 .. Len(t.pool) /\ t.pool[Slot(c, j)] = h.pool[Slot(c, j)]
      <4>1. Len(h.pool) \in Nat /\ Len(t.pool) \in Nat
        <5>1. h.pool \in Seq(Values) /\ t.pool \in Seq(Values)
          BY <1>3, <2>7 DEF Heaps
        <5>2. QED BY <5>1, LenProperties
      <4>2. QED BY <2>3, <3>1, <4>1 DEF Extends
    <3>5. QED BY <2>10, <2>15, <2>16, <3>3, <3>4
  <2>17. QED BY <1>7, <2>1, <2>2, <2>13, <2>14, <2>15, <2>16 DEF Wrote, w
<1>8. QED BY <1>4, <1>6, <1>7

\* A write through a handle in hand.
LEMMA WriteGood ==
  ASSUME call \in Calls, NEW h, NEW lo \in Nat \ {0}, NEW m, NEW hand \in Hands,
         NEW b \in Nat, Good(h, lo, m, More(hand, b)), NEW k \in 0 .. (Width - 1),
         NEW value \in Nat
  PROVE  Wrote(h, Write(h, b, k, value), lo, m, hand)
BY WriteOwn, WriteShared

-----------------------------------------------------------------------------
(* Dropping every thread behind the one that matched.                      *)

\* The threads are dropped one by one.
LEMMA KilledSteps ==
  ASSUME next \in Nat, Len(heap.clist) \in Nat, next < Len(heap.clist), NEW h
  PROVE  \E left : /\ Killed(h) = left[Len(heap.clist)]
                   /\ \A k \in (next + 1) .. Len(heap.clist) :
                        left[k] = IF k = next + 1 THEN h
                                  ELSE Drop(left[k - 1], heap.clist[k].h)
<1> DEFINE F(f, n) == f = [k \in (next + 1) .. n |->
                             IF k = next + 1 THEN h ELSE Drop(f[k - 1], heap.clist[k].h)]
           S == {n \in Nat : \E f : F(f, next + 1 + n)}
           top == Len(heap.clist)
<1>1. 0 \in S
  <2> DEFINE f == [k \in (next + 1) .. (next + 1 + 0) |-> h]
  <2>1. F(f, next + 1 + 0)
    OBVIOUS
  <2>2. QED BY <2>1
<1>2. ASSUME NEW i \in Nat, i \in S PROVE i + 1 \in S
  <2> DEFINE n == next + 1 + i
             F2(f) == F(f, n)
  <2>1. PICK f : F(f, next + 1 + i)
    BY <1>2
  <2>0. n \in Nat /\ n >= next + 1 /\ next + 1 + (i + 1) = n + 1
    OBVIOUS
  <2> DEFINE g == [k \in (next + 1) .. (n + 1) |->
                     IF k = n + 1 THEN Drop(f[n], heap.clist[n + 1].h) ELSE f[k]]
             e == [k \in (next + 1) .. (n + 1) |->
                     IF k = next + 1 THEN h ELSE Drop(g[k - 1], heap.clist[k].h)]
  <2>2. \A k \in (next + 1) .. n :
          f[k] = IF k = next + 1 THEN h ELSE Drop(f[k - 1], heap.clist[k].h)
    BY <2>1
  <2> HIDE DEF n
  <2>3. ASSUME NEW k \in (next + 1) .. (n + 1) PROVE g[k] = e[k]
    <3>1. CASE k = n + 1
      <4>1. k - 1 \in (next + 1) .. (n + 1) /\ k - 1 # n + 1 /\ k - 1 = n /\ k # next + 1
        BY <2>0, <3>1
      <4>2. g[k] = Drop(f[n], heap.clist[k].h) /\ g[k - 1] = f[n]
        BY <3>1, <4>1
      <4>3. e[k] = Drop(g[k - 1], heap.clist[k].h)
        BY <4>1
      <4>4. QED BY <4>2, <4>3
    <3>2. CASE k # n + 1 /\ k # next + 1
      <4>1. k \in (next + 1) .. n /\ k - 1 \in (next + 1) .. (n + 1) /\ k - 1 # n + 1
        BY <2>0, <3>2
      <4>2. g[k] = f[k] /\ g[k - 1] = f[k - 1]
        BY <3>2, <4>1
      <4>3. QED BY <2>2, <3>2, <4>1, <4>2
    <3>3. CASE k = next + 1
      <4>1. next + 1 \in (next + 1) .. n /\ next + 1 # n + 1
        BY <2>0
      <4>2. QED BY <2>2, <3>3, <4>1
    <3>4. QED BY <3>1, <3>2, <3>3
  <2>4. g = e
    BY <2>3
  <2>5. F(g, n + 1)
    BY <2>4
  <2> HIDE DEF g
  <2>6. i + 1 \in Nat /\ \E f0 : F(f0, next + 1 + (i + 1))
    <3> HIDE DEF F
    <3>1. QED BY <2>0, <2>5
  <2> HIDE DEF F
  <2>7. QED BY <2>6
<1>3. Nat \subseteq S
  <2> HIDE DEF S
  <2>1. QED BY <1>1, <1>2, NatInd
<1>4. top \in Nat /\ top - (next + 1) \in Nat /\ top = next + 1 + (top - (next + 1))
  <2>1. top \in Nat
    OBVIOUS
  <2>2. top > next
    OBVIOUS
  <2> HIDE DEF top
  <2>3. QED BY <2>1, <2>2
<1>5. \E f : F(f, top)
  <2> HIDE DEF F, top
  <2>1. QED BY <1>3, <1>4
<1> DEFINE left == CHOOSE f : F(f, top)
<1>6. F(left, top)
  <2> HIDE DEF F
  <2>1. QED BY <1>5
<1>7. Killed(h) = left[top]
  BY DEF Killed
<1> HIDE DEF left, S, top
<1>8. \A k \in (next + 1) .. top :
        left[k] = IF k = next + 1 THEN h ELSE Drop(left[k - 1], heap.clist[k].h)
  BY <1>6
<1> HIDE DEF F
<1>9. QED BY <1>7, <1>8 DEF top

LEMMA KilledGood ==
  ASSUME call \in Calls, next \in Nat, heap.clist \in Seq(Threads(Re)),
         next < Len(heap.clist), NEW h, NEW m, NEW hand \in Hands,
         Good(h, next + 2, m, hand), h.ok => h.clist = heap.clist
  PROVE  /\ Good(Killed(h), Len(heap.clist) + 1, m, hand)
         /\ Killed(h).ok => h.ok /\ Kept(h, Killed(h), {"rc", "free"})
<1> DEFINE top == Len(heap.clist)
<1>4. top \in Nat /\ top - (next + 1) \in Nat /\ top = next + 1 + (top - (next + 1))
  <2>1. top \in Nat
    BY LenProperties
  <2>2. top > next
    OBVIOUS
  <2> HIDE DEF top
  <2>3. QED BY <2>1, <2>2
<1>7. PICK left :
        /\ Killed(h) = left[top]
        /\ \A k \in (next + 1) .. top :
             left[k] = IF k = next + 1 THEN h ELSE Drop(left[k - 1], heap.clist[k].h)
  BY <1>4, KilledSteps
<1>8. \A k \in (next + 1) .. top :
        left[k] = IF k = next + 1 THEN h ELSE Drop(left[k - 1], heap.clist[k].h)
  BY <1>7
<1> HIDE DEF top
<1> DEFINE P(k) == /\ Good(left[k], k + 1, m, hand)
                   /\ left[k].ok => h.ok /\ Kept(h, left[k], {"rc", "free"})
           T == {i \in Nat : next + 1 + i <= top => P(next + 1 + i)}
<1>9. 0 \in T
  <2>1. left[next + 1] = h /\ next + 1 + 0 = next + 1 /\ next + 1 + 1 = next + 2
    BY SMTT(30), <1>4, <1>8
  <2>2. Kept(h, h, {"rc", "free"})
    BY DEF Kept
  <2>3. QED BY <2>1, <2>2
<1>10. ASSUME NEW i \in Nat, i \in T PROVE i + 1 \in T
  <2> DEFINE k == next + 1 + i
             g == left[k]
             b == heap.clist[k + 1].h
  <2>0. k \in Nat /\ next + 1 + (i + 1) = k + 1 /\ k >= next + 1
    OBVIOUS
  <2> SUFFICES ASSUME k + 1 <= top PROVE P(k + 1)
    BY <2>0
  <2>1. P(k)
    BY <1>4, <1>10, <2>0
  <2> HIDE DEF k
  <2>2. left[k + 1] = Drop(g, b)
    BY SMTT(30), <1>4, <1>8, <2>0
  <2> HIDE DEF g
  <2>3. CASE ~g.ok
    <3>1. left[k + 1] = g
      BY <2>2, <2>3 DEF Drop
    <3>2. Good(g, k + 1 + 1, m, hand)
      BY <2>1, <2>3 DEF Good, g
    <3>3. QED BY <2>3, <3>1, <3>2
  <2>4. CASE g.ok
    <3>1. Good(g, k + 1, m, hand) /\ h.ok /\ Kept(h, g, {"rc", "free"})
      BY <2>1, <2>4 DEF g
    <3>2. g.clist = heap.clist
      BY <3>1 DEF Kept
    <3>3. k + 1 \in Nat \ {0} /\ k + 1 <= Len(g.clist)
      BY <1>4, <2>0, <3>2 DEF top
    <3>4. b \in Nat /\ Good(g, k + 1 + 1, m, More(hand, b))
      BY <3>1, <3>2, <3>3, StepGood
    <3>5. More(hand, b) \in Hands /\ More(hand, b)[b] > 0
      <4>1. More(hand, b) \in Hands /\ \A c \in Nat : More(hand, b)[c] = hand[c] + One(b, c)
        BY <3>4, HandTaken
      <4>2. One(b, b) = 1 /\ hand[b] \in Nat
        BY <3>4, OneIs DEF Hands
      <4> HIDE DEF b
      <4>3. QED BY <3>4, <4>1, <4>2
    <3>6. k + 1 + 1 \in Nat \ {0}
      BY <2>0
    <3> HIDE DEF b
    <3>7. /\ Good(Drop(g, b), k + 1 + 1, m, Less(More(hand, b), b))
          /\ Drop(g, b).ok => g.ok /\ Kept(g, Drop(g, b), {"rc", "free"})
      BY <3>4, <3>5, <3>6, DropGood
    <3>8. Less(More(hand, b), b) = hand
      BY <3>4, HandBack
    <3>9. Drop(g, b).ok => Kept(h, Drop(g, b), {"rc", "free"})
      BY <3>1, <3>7 DEF Kept
    <3>10. QED BY <2>2, <3>1, <3>7, <3>8, <3>9
  <2>5. QED BY <2>3, <2>4
<1>11. Nat \subseteq T
  <2> HIDE DEF T
  <2>1. QED BY <1>9, <1>10, NatInd
<1>12. P(top)
  <2> DEFINE i == top - (next + 1)
  <2>1. i \in Nat /\ top = next + 1 + i /\ i \in T
    BY <1>4, <1>11
  <2> HIDE DEF P, i
  <2>2. P(next + 1 + i)
    BY <1>4, <2>1
  <2>3. QED BY <2>1, <2>2
<1>13. QED BY <1>7, <1>12 DEF top

-----------------------------------------------------------------------------
(* The captures a waiting thread will see.                                 *)

\* A thread of clist from the lo-th on, a thread of the next list, one of the
\* first top threads deferred, or the recorded match holds block c.
Holding(h, lo, top, m, c) ==
  \/ \E k \in lo .. Len(h.clist) : h.clist[k].h = c
  \/ \E k \in 1 .. Len(h.nlist) : h.nlist[k].h = c
  \/ \E k \in 1 .. top : h.stk[k].h = c
  \/ m = c

\* The thread on top of the stack is the one at work.
Waits(h, lo, m, c) == Holding(h, lo, Len(h.stk) - 1, m, c)

Isolated(h, r, lo, m) ==
  \A c \in Nat : Waits(h, lo, m, c) =>
    \A j \in 0 .. (Width - 1) : r.pool[Slot(c, j)] = h.pool[Slot(c, j)]

LEMMA WaitingKin ==
  ASSUME NEW h \in Heaps, NEW lo \in Nat \ {0}, NEW m, NEW c \in Nat,
         Holding(h, lo, Len(h.stk), m, c)
  PROVE  Kin(h, lo, m, c)
<1>1. /\ Held(h.clist, lo, c) \in Nat /\ Held(h.nlist, 1, c) \in Nat
      /\ Held(h.stk, 1, c) \in Nat /\ NoHand[c] = 0 /\ One(m, c) \in Nat
  BY HoldsCounted, EmptyHand, OneBit
<1>2. Len(h.clist) \in Nat /\ Len(h.nlist) \in Nat /\ Len(h.stk) \in Nat
  BY DEF Heaps
<1>3. Held(h.clist, lo, c) # 0 \/ Held(h.nlist, 1, c) # 0
      \/ Held(h.stk, 1, c) # 0 \/ One(m, c) # 0
  <2>1. CASE \E k \in lo .. Len(h.clist) : h.clist[k].h = c
    BY <1>2, <2>1, HeldNone
  <2>2. CASE \E k \in 1 .. Len(h.nlist) : h.nlist[k].h = c
    BY <1>2, <2>2, HeldNone
  <2>3. CASE \E k \in 1 .. Len(h.stk) : h.stk[k].h = c
    BY <1>2, <2>3, HeldNone
  <2>4. CASE m = c
    BY <2>4, OneIs
  <2>5. QED BY <2>1, <2>2, <2>3, <2>4 DEF Holding
<1> DEFINE x == Held(h.clist, lo, c)
           y == Held(h.nlist, 1, c)
           z == Held(h.stk, 1, c)
           u == One(m, c)
<1>4. Owed(h, lo, m, NoHand, c) = x + y + z + u + 0
  BY SMTT(30), <1>1 DEF Owed
<1>5. /\ x \in Nat /\ y \in Nat /\ z \in Nat /\ u \in Nat
      /\ x # 0 \/ y # 0 \/ z # 0 \/ u # 0
  BY <1>1, <1>3
<1> HIDE DEF x, y, z, u
<1>6. QED BY <1>4, <1>5 DEF Kin

\* What spares the holders of a heap with the same lists spares the waiting.
LEMMA SparedIsolated ==
  ASSUME NEW h, NEW p \in Heaps, NEW r, NEW lo \in Nat \ {0}, NEW lo2 \in Nat \ {0},
         NEW m, lo <= lo2, p.pool = h.pool, p.clist = h.clist, p.nlist = h.nlist,
         \A k \in 1 .. (Len(h.stk) - 1) : k \in 1 .. Len(p.stk) /\ p.stk[k] = h.stk[k],
         Spared(p, r, lo, m)
  PROVE  Isolated(h, r, lo2, m)
<1> SUFFICES ASSUME NEW c \in Nat, Waits(h, lo2, m, c), NEW j \in 0 .. (Width - 1)
             PROVE  r.pool[Slot(c, j)] = h.pool[Slot(c, j)]
  BY DEF Isolated
<1>1. /\ Len(p.clist) \in Nat /\ h.clist = p.clist /\ h.nlist = p.nlist
      /\ lo \in Nat /\ lo2 \in Nat /\ lo <= lo2
  BY DEF Heaps
<1>2. Holding(p, lo, Len(p.stk), m, c)
  <2>1. CASE \E k \in lo2 .. Len(h.clist) : h.clist[k].h = c
    <3>1. PICK k \in lo2 .. Len(p.clist) : p.clist[k].h = c
      BY <1>1, <2>1
    <3>2. k \in lo .. Len(p.clist)
      BY <1>1, <3>1
    <3>3. QED BY <3>1, <3>2 DEF Holding
  <2>2. CASE \E k \in 1 .. Len(h.nlist) : h.nlist[k].h = c
    BY <1>1, <2>2 DEF Holding
  <2>3. CASE \E k \in 1 .. (Len(h.stk) - 1) : h.stk[k].h = c
    <3>1. PICK k \in 1 .. (Len(h.stk) - 1) : h.stk[k].h = c
      BY <2>3
    <3>2. k \in 1 .. Len(p.stk) /\ p.stk[k].h = c
      BY <3>1
    <3>3. QED BY <3>2 DEF Holding
  <2>4. CASE m = c
    BY <2>4 DEF Holding
  <2>5. QED BY <2>1, <2>2, <2>3, <2>4 DEF Waits, Holding
<1>3. Kin(p, lo, m, c)
  BY <1>2, WaitingKin
<1>4. QED BY <1>3 DEF Spared

LEMMA SamePool ==
  ASSUME NEW h, NEW r, r.pool = h.pool, NEW lo, NEW m
  PROVE  Isolated(h, r, lo, m)
BY DEF Isolated

\* Where the threads that wait begin.
First == IF phase = "step" THEN Unstepped + 1 ELSE Unstepped

LEMMA IsolatedWaiting ==
  ASSUME IInv, Running => (heap'.ok => Isolated(heap, heap', First, mh))
  PROVE  WaitingIsolated
<1> SUFFICES ASSUME Running, heap'.ok, NEW b \in Waiting, NEW k \in 0 .. (Width - 1)
             PROVE  heap'.pool[Slot(b, k)] = heap.pool[Slot(b, k)]
  BY DEF WaitingIsolated
<1>1. /\ heap \in Heaps /\ mh \in Nat \cup {NONE} /\ next \in Nat
  BY DEF IInv, Matches
<1>2. /\ heap.clist \in Seq(Threads(Re)) /\ heap.nlist \in Seq(Threads(Re))
      /\ heap.stk \in Seq(Threads(Re)) /\ Len(heap.stk) \in Nat
      /\ DOMAIN heap.nlist = 1 .. Len(heap.nlist) /\ Len(heap.clist) \in Nat
  BY <1>1 DEF Heaps
<1>3. First \in Nat \ {0}
  BY <1>1 DEF First, Unstepped
<1>4. \/ b \in {heap.clist[j].h : j \in First .. Len(heap.clist)}
      \/ b \in {heap.nlist[j].h : j \in DOMAIN heap.nlist}
      \/ b \in {heap.stk[j].h : j \in 1 .. (Len(heap.stk) - 1)}
      \/ b \in (IF mh = NONE THEN {} ELSE {mh})
  BY DEF Waiting, First
<1>5. b \in Nat /\ Waits(heap, First, mh, b)
  <2>1. CASE b \in {heap.clist[j].h : j \in First .. Len(heap.clist)}
    <3>1. PICK j \in First .. Len(heap.clist) : b = heap.clist[j].h
      BY <2>1
    <3>2. j \in 1 .. Len(heap.clist)
      BY <1>2, <1>3
    <3>3. heap.clist[j] \in Threads(Re)
      BY <1>2, <3>2, ElementOfSeq
    <3>4. QED BY <3>1, <3>3 DEF Threads, Waits, Holding
  <2>2. CASE b \in {heap.nlist[j].h : j \in DOMAIN heap.nlist}
    <3>1. PICK j \in 1 .. Len(heap.nlist) : b = heap.nlist[j].h
      BY <1>2, <2>2
    <3>2. heap.nlist[j] \in Threads(Re)
      BY <1>2, <3>1, ElementOfSeq
    <3>3. QED BY <3>1, <3>2 DEF Threads, Waits, Holding
  <2>3. CASE b \in {heap.stk[j].h : j \in 1 .. (Len(heap.stk) - 1)}
    <3>1. PICK j \in 1 .. (Len(heap.stk) - 1) : b = heap.stk[j].h
      BY <2>3
    <3>2. j \in 1 .. Len(heap.stk)
      BY <1>2
    <3>3. heap.stk[j] \in Threads(Re)
      BY <1>2, <3>2, ElementOfSeq
    <3>4. QED BY <3>1, <3>3 DEF Threads, Waits, Holding
  <2>4. CASE b \in (IF mh = NONE THEN {} ELSE {mh})
    BY <1>1, <2>4 DEF Waits, Holding
  <2>5. QED BY <1>4, <2>1, <2>2, <2>3, <2>4
<1>6. QED BY <1>5 DEF Isolated

-----------------------------------------------------------------------------
(* The invariant, step by step.                                            *)

\* The lists of a heap keep what they hold.
LEMMA ParkedKept ==
  ASSUME NEW h, NEW r, Parked(h), r.clist = h.clist, r.nlist = h.nlist
  PROVE  Parked(r)
BY DEF Parked

\* A refused heap has no books to keep.
LEMMA GoodRefused ==
  ASSUME NEW h, NEW lo, NEW m, NEW hand, Good(h, lo, m, hand), ~h.ok,
         NEW lo2, NEW m2, NEW hand2
  PROVE  Good(h, lo2, m2, hand2)
BY DEF Good

\* What the next state must show.
Onward(lo) ==
  /\ call' = call
  /\ phase' \in Live
  /\ pos' \in Nat /\ next' \in Nat /\ into' \in {"clist", "nlist"} /\ mh' \in Matches
  /\ phase' \in {"seed", "closure", "clear", "step"} => heap'.ok
  /\ phase' \in {"seed", "clear"} \/ (phase' = "closure" /\ into' = "clist") => next' = 0
  /\ Good(heap', lo, mh', NoHand)
  /\ heap'.ok => lo = (IF phase' = "closure" /\ into' = "nlist" THEN next' + 2 ELSE next' + 1)
  /\ heap'.ok => Parked(heap')

LEMMA OnwardInv ==
  ASSUME IInv, NEW lo, Onward(lo)
  PROVE  IInv'
<1>1. Good(heap', Unstepped', mh', NoHand)
  BY GoodRefused DEF Onward, Unstepped
<1>2. Re' = Re /\ Width' = Width
  BY DEF Onward, Re, Width
<1>3. Heaps' = Heaps
  BY <1>2 DEF Heaps, Threads
<1>4. Good(heap, Unstepped, mh, NoHand)'
  BY <1>1, <1>2, <1>3 DEF Good, Books
<1>5. heap' \in Heaps'
  BY <1>1, <1>3 DEF Good
<1>6. Running' => Parked(heap)'
  BY <1>2 DEF Onward, Running, Parked, Instr
<1>7. QED BY <1>4, <1>5, <1>6 DEF IInv, Onward

\* Going on with a heap.
LEMMA ContinueOnward ==
  ASSUME IInv, NEW h, NEW where \in {"closure", "clear", "step"}, Continue(h, where),
         UNCHANGED <<call, mh>>, pos' = pos, next' \in Nat, into' \in {"clist", "nlist"},
         NEW lo, Good(h, lo, mh, NoHand),
         h.ok => /\ lo = (IF where = "closure" /\ into' = "nlist" THEN next' + 2 ELSE next' + 1)
                 /\ Parked(h)
                 /\ where = "clear" \/ (where = "closure" /\ into' = "clist") => next' = 0
  PROVE  IInv'
<1>1. heap' = h /\ phase' = IF h.ok THEN where ELSE "stop"
  BY DEF Continue
<1>2. h.ok \in BOOLEAN
  BY DEF Good, Heaps
<1>3. Onward(lo)
  BY <1>1, <1>2 DEF Onward, IInv, Live
<1>4. QED BY <1>3, OnwardInv

\* One thread in hand.
LEMMA HandOne ==
  ASSUME NEW b \in Nat
  PROVE  /\ More(NoHand, b) \in Hands /\ More(NoHand, b)[b] > 0
         /\ Less(More(NoHand, b), b) = NoHand
<1>1. NoHand \in Hands /\ NoHand[b] = 0
  BY EmptyHand
<1>2. More(NoHand, b) \in Hands /\ \A c \in Nat : More(NoHand, b)[c] = NoHand[c] + One(b, c)
  BY <1>1, HandTaken
<1>3. One(b, b) = 1
  BY OneIs
<1>4. QED BY <1>1, <1>2, <1>3, HandBack

\* Where the program's control goes from an address a thread may be at.
LEMMA Control ==
  ASSUME call \in Calls, NEW p \in 0 .. (Len(Re.code) - 1)
  PROVE  /\ Successors(Re, p) \subseteq 0 .. (Len(Re.code) - 1)
         /\ Instr(p).op \notin {"OpAccept", "OpJump", "OpSplit", "OpRepLoop", "OpRepNext"} =>
              p + 1 \in 0 .. (Len(Re.code) - 1)
         /\ Instr(p).op = "OpJump" => Instr(p).arg \in 0 .. (Len(Re.code) - 1)
         /\ Instr(p).op = "OpSplit" =>
              {Instr(p).arg, Instr(p).alt} \subseteq 0 .. (Len(Re.code) - 1)
         /\ Instr(p).op \in RepOps =>
              {At(Re.reps, Instr(p).arg).body, At(Re.reps, Instr(p).arg).after}
                \subseteq 0 .. (Len(Re.code) - 1)
         /\ Instr(p).op = "OpSave" => Instr(p).arg \in 0 .. (Width - 1)
<1>1. WellFormed(Re) /\ Len(Re.code) \in Nat /\ Width \in Nat
  BY CallFigures
<1>2. Successors(Re, p) \subseteq 0 .. (Len(Re.code) - 1) /\ At(Re.code, p) \in Insts
  <2> DEFINE r == Re
  <2>1. WellFormed(r) /\ p \in Nat /\ p < Len(r.code)
    BY <1>1
  <2> HIDE DEF r
  <2>2. Successors(r, p) \subseteq 0 .. (Len(r.code) - 1) /\ At(r.code, p) \in Insts
    BY <2>1, ControlInside
  <2>3. QED BY <2>2 DEF r
<1>3. Instr(p).arg \in Nat
  BY <1>2 DEF Insts, Instr
<1>4. ASSUME Instr(p).op \notin {"OpAccept", "OpJump", "OpSplit", "OpRepLoop", "OpRepNext"}
      PROVE  p + 1 \in 0 .. (Len(Re.code) - 1)
  BY <1>2, <1>4 DEF Successors, Instr
<1>5. ASSUME Instr(p).op = "OpJump" PROVE Instr(p).arg \in 0 .. (Len(Re.code) - 1)
  BY <1>2, <1>5 DEF Successors, Instr
<1>6. ASSUME Instr(p).op = "OpSplit"
      PROVE  {Instr(p).arg, Instr(p).alt} \subseteq 0 .. (Len(Re.code) - 1)
  BY <1>2, <1>6 DEF Successors, Instr
<1>7. ASSUME Instr(p).op \in RepOps
      PROVE  {At(Re.reps, Instr(p).arg).body, At(Re.reps, Instr(p).arg).after}
               \subseteq 0 .. (Len(Re.code) - 1)
  <2>1. Instr(p).arg < Len(Re.reps) /\ Len(Re.reps) \in Nat
    BY <1>1, <1>7 DEF WellFormed, Instr, Res
  <2>2. Instr(p).arg \in 0 .. (Len(Re.reps) - 1)
    BY <1>3, <2>1
  <2>3. QED BY <1>1, <2>2 DEF WellFormed
<1>8. ASSUME Instr(p).op = "OpSave" PROVE Instr(p).arg \in 0 .. (Width - 1)
  <2>1. Instr(p).arg < Width
    BY <1>1, <1>8 DEF WellFormed, Instr, Width
  <2>2. QED BY <1>1, <1>3, <2>1
<1>9. QED BY <1>2, <1>4, <1>5, <1>6, <1>7, <1>8

\* Seeding a thread.
LEMMA SeededGood ==
  ASSUME IInv, phase = "seed"
  PROVE  /\ Good(Seeded(heap), 1, mh, NoHand)
         /\ Seeded(heap).ok => /\ Kept(heap, Seeded(heap), {"pool", "rc", "free", "stk"})
                               /\ Isolated(heap, Seeded(heap), 1, mh)
<1> DEFINE took == Take(heap)
           b == took.block
           paid == Pay(took.heap, Block)
           blank == [k \in DOMAIN paid.pool |->
                       IF k = Slot(b, 0) THEN pos
                       ELSE IF k \in Slot(b, 1) .. Slot(b, Width - 1) THEN UNSET
                            ELSE paid.pool[k]]
           q == [paid EXCEPT !.pool = blank]
           r == Seeded(heap)
<1>1. r = IF paid.ok THEN Defer(q, 0, b) ELSE paid
  BY DEF Seeded
<1>2. /\ call \in Calls /\ heap \in Heaps /\ heap.ok /\ pos \in Nat
      /\ Good(heap, 1, mh, NoHand)
  BY DEF IInv, Unstepped, Live
<1>3. /\ Block \in Nat /\ 0 \in 0 .. (Len(Re.code) - 1)
      /\ Width \in Nat \ {0} /\ 0 \in 0 .. (Width - 1)
  BY <1>2, CallFigures
<1>4. NoHand \in Hands
  BY EmptyHand
<1>5. Took(heap, took, 1, mh, NoHand)
  BY <1>2, <1>4, TakeGood
<1> DEFINE g == More(NoHand, b)
<1> HIDE DEF r, took
<1>6. b \in Nat /\ Good(took.heap, 1, mh, g)
  BY <1>5 DEF Took
<1>7. g \in Hands /\ g[b] > 0 /\ Less(g, b) = NoHand
  BY <1>6, HandOne
<1> DEFINE t == took.heap
<1> HIDE DEF b, g, t
<1>8. /\ Good(paid, 1, mh, g) /\ paid \in Heaps /\ Kept(t, paid, {})
      /\ paid.ok => t.ok
  <2>1. t \in Heaps /\ Good(t, 1, mh, g)
    BY <1>6 DEF Good, t
  <2>2. paid = Pay(t, Block)
    BY DEF t
  <2> HIDE DEF paid
  <2>3. QED BY <1>2, <1>3, <2>1, <2>2, PayGood, PayKeeps
<1> HIDE DEF paid
<1>9. CASE ~paid.ok
  <2>1. r = paid
    BY <1>1, <1>9
  <2>2. Good(paid, 1, mh, NoHand)
    BY <1>8, <1>9, GoodRefused
  <2>3. QED BY <1>9, <2>1, <2>2 DEF r
<1>10. CASE paid.ok
  <2>1. r = Defer(q, 0, b)
    BY <1>1, <1>10
  <2>2. paid.pool \in Seq(Values) /\ Len(paid.pool) \in Nat /\ pos \in Values /\ UNSET \in Values
    <3>1. paid.pool \in Seq(Values)
      BY <1>8 DEF Heaps
    <3>2. QED BY <1>2, <3>1, LenProperties DEF Values
  <2>3. blank \in Seq(Values) /\ Len(blank) = Len(paid.pool)
    <3> DEFINE n == Len(paid.pool)
               v(k) == IF k = Slot(b, 0) THEN pos
                       ELSE IF k \in Slot(b, 1) .. Slot(b, Width - 1) THEN UNSET
                            ELSE paid.pool[k]
    <3>1. DOMAIN paid.pool = 1 .. n /\ \A k \in 1 .. n : paid.pool[k] \in Values
      BY <2>2, LenProperties, ElementOfSeq
    <3>2. \A k \in 1 .. n : v(k) \in Values
      BY <2>2, <3>1
    <3>3. blank = [k \in 1 .. n |-> v(k)] /\ n \in Nat
      BY <2>2, <3>1
    <3> HIDE DEF blank, n, v
    <3>4. blank \in [1 .. n -> Values]
      BY <3>2, <3>3
    <3>5. blank \in Seq(Values) /\ Len(blank) = n
      BY <3>3, <3>4, SeqDef, LenProperties
    <3>6. QED BY <3>5 DEF n
  <2>4. /\ q \in Heaps /\ q.ok = paid.ok /\ q.pool = blank /\ Kept(paid, q, {"pool"})
        /\ Good(q, 1, mh, g)
    <3> HIDE DEF blank
    <3>1. QED BY <1>8, <2>3, Rewritten
  <2> HIDE DEF q
  <2>5. /\ Good(r, 1, mh, NoHand)
        /\ r.ok => q.ok /\ Kept(q, r, {"stk"})
    BY <1>2, <1>3, <1>6, <1>7, <2>1, <2>4, DeferGood
  <2>6. ASSUME r.ok
        PROVE  /\ Kept(heap, r, {"pool", "rc", "free", "stk"})
               /\ r.pool = blank
    <3> HIDE DEF blank
    <3>1. Kept(heap, t, {"pool", "rc", "free"})
      BY <1>5, <1>8, <1>10 DEF Took, t
    <3>2. QED BY <1>8, <2>4, <2>5, <2>6, <3>1 DEF Kept
  <2>7. ASSUME r.ok PROVE Isolated(heap, r, 1, mh)
    <3>1. Extends(heap, t) /\ Owed(heap, 1, mh, NoHand, b) = 0 /\ t.pool = paid.pool
      BY <1>5, <1>8, <1>10 DEF Took, t, b, Kept
    <3>2. Spared(heap, r, 1, mh)
      <4> SUFFICES ASSUME NEW c \in Nat, Kin(heap, 1, mh, c), NEW j \in 0 .. (Width - 1)
                   PROVE  r.pool[Slot(c, j)] = heap.pool[Slot(c, j)]
        BY DEF Spared
      <4>1. c # b /\ Slot(c, j) \in 1 .. Len(heap.pool)
        <5>1. c # b
          BY <3>1 DEF Kin
        <5>2. \A i \in 0 .. (Width - 1) : Slot(c, i) \in 1 .. Len(heap.pool)
          <6> DEFINE lo == 1
          <6>1. lo \in Nat \ {0} /\ Good(heap, lo, mh, NoHand) /\ Kin(heap, lo, mh, c)
            BY <1>2
          <6> HIDE DEF lo
          <6>2. QED BY <1>2, <1>4, <6>1, KinKnown
        <5>3. QED BY <5>1, <5>2
      <4>2. Slot(c, j) \notin Slot(b, 0) .. Slot(b, Width - 1)
        BY <1>2, <1>6, <4>1, SlotsApart
      <4>3. /\ Slot(b, 0) \in Slot(b, 0) .. Slot(b, Width - 1)
            /\ Slot(b, 1) .. Slot(b, Width - 1) \subseteq Slot(b, 0) .. Slot(b, Width - 1)
        <5>1. b * Width \in Nat
          BY <1>3, <1>6
        <5> DEFINE y == b * Width
        <5>2. /\ Slot(b, 0) = y + 0 + 1 /\ Slot(b, 1) = y + 1 + 1
              /\ Slot(b, Width - 1) = y + (Width - 1) + 1 /\ y \in Nat
          BY <5>1 DEF Slot
        <5> HIDE DEF y
        <5>3. QED BY <1>3, <5>2
      <4>4. Slot(c, j) \in DOMAIN paid.pool /\ paid.pool[Slot(c, j)] = heap.pool[Slot(c, j)]
        <5>1. Len(heap.pool) <= Len(paid.pool) /\ paid.pool[Slot(c, j)] = heap.pool[Slot(c, j)]
          BY <3>1, <4>1 DEF Extends
        <5>2. DOMAIN paid.pool = 1 .. Len(paid.pool) /\ Len(heap.pool) \in Nat
          <6>1. heap.pool \in Seq(Values)
            BY <1>2 DEF Heaps
          <6>2. QED BY <2>2, <6>1, LenProperties
        <5>3. QED BY <2>2, <4>1, <5>1, <5>2
      <4>5. blank[Slot(c, j)] = paid.pool[Slot(c, j)]
        BY <4>2, <4>3, <4>4
      <4>6. QED BY <2>6, <2>7, <4>4, <4>5
    <3>3. \A k \in 1 .. (Len(heap.stk) - 1) : k \in 1 .. Len(heap.stk)
      <4>1. Len(heap.stk) \in Nat
        BY <1>2 DEF Heaps
      <4>2. QED BY <4>1
    <3> DEFINE lo == 1
    <3>4. lo \in Nat \ {0} /\ lo <= lo /\ Spared(heap, r, lo, mh)
      BY <3>2
    <3> HIDE DEF lo, r
    <3>5. Isolated(heap, r, lo, mh)
      BY <1>2, <3>3, <3>4, SparedIsolated
    <3>6. QED BY <3>5 DEF lo
  <2>8. QED BY <2>5, <2>6, <2>7 DEF r
<1>11. QED BY <1>9, <1>10

StepRight == IInv' /\ WaitingIsolated

\* A step that leaves the pool alone isolates everyone.
LEMMA PoolKept ==
  ASSUME IInv, heap'.ok => heap'.pool = heap.pool
  PROVE  WaitingIsolated
BY SamePool, IsolatedWaiting

LEMMA SeedStep ==
  ASSUME IInv, Seed
  PROVE  StepRight
<1>1. /\ phase = "seed" /\ heap.ok /\ next = 0 /\ next' = 0 /\ into' = "clist"
      /\ call' = call /\ mh' = mh /\ pos' = pos
  BY DEF Seed, IInv
<1>2. First = 1 /\ Good(heap, 1, mh, NoHand) /\ Parked(heap) /\ heap \in Heaps
  BY <1>1 DEF First, Unstepped, IInv, Live, Running
<1>3. CASE Seeds /\ Continue(Seeded(heap), "closure")
  <2> DEFINE h == Seeded(heap)
  <2>1. /\ Good(h, 1, mh, NoHand)
        /\ h.ok => /\ Kept(heap, h, {"pool", "rc", "free", "stk"})
                   /\ Isolated(heap, h, 1, mh)
    BY <1>1, SeededGood
  <2>2. Continue(h, "closure")
    BY <1>3
  <2> HIDE DEF h
  <2>3. h.ok => Parked(h)
    BY <1>2, <2>1, ParkedKept DEF Kept
  <2>4. IInv'
    BY <1>1, <2>1, <2>2, <2>3, ContinueOnward
  <2>5. heap' = h
    BY <2>2 DEF Continue
  <2>6. WaitingIsolated
    BY <1>2, <2>1, <2>5, IsolatedWaiting
  <2>7. QED BY <2>4, <2>6 DEF StepRight
<1>4. CASE ~Seeds /\ Continue(heap, "clear")
  <2>1. IInv'
    BY <1>1, <1>2, <1>4, ContinueOnward
  <2>2. heap' = heap
    BY <1>4 DEF Continue
  <2>3. QED BY <2>1, <2>2, PoolKept DEF StepRight
<1>5. QED BY <1>3, <1>4 DEF Seed

LEMMA ClearStep ==
  ASSUME IInv, Clear
  PROVE  StepRight
<1> DEFINE h == Pay(heap, Words(Re))
<1>1. /\ phase = "clear" /\ heap.ok /\ next = 0 /\ next' = 0 /\ into' = into
      /\ call' = call /\ mh' = mh /\ pos' = pos /\ Continue(h, "step")
      /\ into \in {"clist", "nlist"} /\ call \in Calls
  BY DEF Clear, IInv
<1>2. Good(heap, 1, mh, NoHand) /\ Parked(heap) /\ heap \in Heaps
  BY <1>1 DEF Unstepped, IInv, Live, Running
<1>3. Words(Re) \in Nat
  BY <1>1, CallFigures
<1>4. Good(h, 1, mh, NoHand) /\ Kept(heap, h, {})
  BY <1>1, <1>2, <1>3, PayGood, PayKeeps
<1> HIDE DEF h
<1>5. Parked(h)
  BY <1>2, <1>4, ParkedKept DEF Kept
<1>6. IInv'
  BY <1>1, <1>4, <1>5, ContinueOnward
<1>7. heap' = h
  BY <1>1 DEF Continue
<1>8. QED BY <1>4, <1>6, <1>7, PoolKept DEF StepRight, Kept

\* The thread being stepped, taken in hand and paid for.
LEMMA ThreadPaid ==
  ASSUME IInv, phase = "step", next < Len(heap.clist)
  PROVE  /\ call \in Calls /\ heap.ok /\ heap \in Heaps /\ next + 2 \in Nat \ {0}
         /\ First = next + 2
         /\ Thread.pc \in 0 .. (Len(Re.code) - 1) /\ Thread.h \in Nat
         /\ Instr(Thread.pc).op \in EaterOps \cup {"OpAccept"}
         /\ Good(Pay(heap, 1), next + 2, mh, More(NoHand, Thread.h))
         /\ Kept(heap, Pay(heap, 1), {}) /\ Pay(heap, 1) \in Heaps
         /\ Parked(Pay(heap, 1))
<1>1. /\ call \in Calls /\ heap.ok /\ heap \in Heaps /\ next \in Nat
      /\ Good(heap, next + 1, mh, NoHand) /\ Parked(heap) /\ First = next + 2
  BY DEF IInv, First, Unstepped, Live, Running
<1>2. heap.clist \in Seq(Threads(Re)) /\ Len(heap.clist) \in Nat
  BY <1>1 DEF Heaps
<1>3. next + 1 \in 1 .. Len(heap.clist) /\ next + 1 \in Nat \ {0} /\ next + 1 + 1 = next + 2
  BY <1>1, <1>2
<1>4. Thread = heap.clist[next + 1] /\ NoHand \in Hands
  BY EmptyHand DEF Thread, At
<1>5. /\ Thread.pc \in 0 .. (Len(Re.code) - 1) /\ Thread.h \in Nat
      /\ Good(heap, next + 2, mh, More(NoHand, Thread.h))
  <2> DEFINE lo == next + 1
  <2>1. lo \in Nat \ {0} /\ lo <= Len(heap.clist) /\ Good(heap, lo, mh, NoHand)
    BY <1>1, <1>2, <1>3
  <2> HIDE DEF lo
  <2>2. /\ heap.clist[lo].pc \in 0 .. (Len(Re.code) - 1) /\ heap.clist[lo].h \in Nat
        /\ Good(heap, lo + 1, mh, More(NoHand, heap.clist[lo].h))
    BY <1>4, <2>1, StepGood
  <2>3. QED BY <1>3, <1>4, <2>2 DEF lo
<1>6. 1 \in Nat
  OBVIOUS
<1>7. /\ Good(Pay(heap, 1), next + 2, mh, More(NoHand, Thread.h))
      /\ Kept(heap, Pay(heap, 1), {}) /\ Pay(heap, 1) \in Heaps
  <2> DEFINE one == 1
  <2>1. one \in Nat
    OBVIOUS
  <2> HIDE DEF one
  <2>2. /\ Good(Pay(heap, one), next + 2, mh, More(NoHand, Thread.h))
        /\ Kept(heap, Pay(heap, one), {}) /\ Pay(heap, one) \in Heaps
    BY <1>1, <1>5, <2>1, PayGood, PayKeeps
  <2>3. QED BY <2>2 DEF one
<1>8. Parked(Pay(heap, 1))
  BY <1>1, <1>7, ParkedKept DEF Kept
<1>9. Instr(Thread.pc).op \in EaterOps \cup {"OpAccept"}
  BY <1>1, <1>3, <1>4 DEF Parked
<1>10. QED BY <1>1, <1>3, <1>5, <1>7, <1>8, <1>9

\* A thread that dies gives its block back, and the next one is stepped.
LEMMA StepDrop ==
  ASSUME IInv, phase = "step", next < Len(heap.clist),
         Continue(Drop(Pay(heap, 1), Thread.h), "step"), next' = next + 1,
         UNCHANGED <<call, pos, into, mh>>
  PROVE  StepRight
<1> DEFINE paid == Pay(heap, 1)
           b == Thread.h
           g == More(NoHand, b)
           lo == next + 2
           h == Drop(paid, b)
<1>1. /\ call \in Calls /\ heap.ok /\ heap \in Heaps /\ lo \in Nat \ {0}
      /\ b \in Nat /\ Good(paid, lo, mh, g) /\ Kept(heap, paid, {}) /\ Parked(paid)
  BY ThreadPaid
<1>2. Continue(h, "step") /\ next' \in Nat /\ lo = next' + 1 /\ into \in {"clist", "nlist"}
  BY DEF IInv
<1> HIDE DEF paid, b, lo
<1>3. g \in Hands /\ g[b] > 0 /\ Less(g, b) = NoHand
  BY <1>1, HandOne
<1> HIDE DEF g
<1>4. /\ Good(h, lo, mh, NoHand)
      /\ h.ok => Kept(paid, h, {"rc", "free"})
  BY <1>1, <1>3, DropGood
<1> HIDE DEF h
<1>5. h.ok => Parked(h) /\ h.pool = heap.pool
  BY <1>1, <1>4, ParkedKept DEF Kept
<1>6. IInv'
  BY <1>2, <1>4, <1>5, ContinueOnward
<1>7. heap' = h
  BY <1>2 DEF Continue
<1>8. QED BY <1>5, <1>6, <1>7, PoolKept DEF StepRight

LEMMA StepEaterStep ==
  ASSUME IInv, StepEater
  PROVE  StepRight
<1> DEFINE paid == Pay(heap, 1)
           b == Thread.h
           p == Thread.pc
           g == More(NoHand, b)
           lo == next + 2
<1>1. /\ phase = "step" /\ next < Len(heap.clist) /\ Instr(p).op # "OpAccept"
      /\ call' = call /\ mh' = mh /\ pos' = pos
      /\ \/ Continue(Defer(paid, p + 1, b), "closure") /\ into' = "nlist" /\ next' = next
         \/ Continue(Drop(paid, b), "step") /\ next' = next + 1 /\ into' = into
  BY DEF StepEater
<1>2. /\ call \in Calls /\ heap.ok /\ heap \in Heaps /\ lo \in Nat \ {0}
      /\ p \in 0 .. (Len(Re.code) - 1) /\ b \in Nat
      /\ Instr(p).op \in EaterOps \cup {"OpAccept"}
      /\ Good(paid, lo, mh, g) /\ Kept(heap, paid, {}) /\ Parked(paid)
  BY <1>1, ThreadPaid
<1>3. next \in Nat /\ into \in {"clist", "nlist"} /\ lo = next + 2
  BY DEF IInv
<1> HIDE DEF paid, b, p, lo
<1>4. g \in Hands /\ g[b] > 0 /\ Less(g, b) = NoHand
  BY <1>2, HandOne
<1> HIDE DEF g
<1>5. CASE Continue(Defer(paid, p + 1, b), "closure") /\ into' = "nlist" /\ next' = next
  <2> DEFINE h == Defer(paid, p + 1, b)
  <2>1. p + 1 \in 0 .. (Len(Re.code) - 1)
    BY <1>1, <1>2, Control DEF EaterOps
  <2>2. /\ Good(h, lo, mh, NoHand)
        /\ h.ok => Kept(paid, h, {"stk"})
    BY <1>2, <1>4, <2>1, DeferGood
  <2>3. Continue(h, "closure")
    BY <1>5
  <2> HIDE DEF h
  <2>4. h.ok => Parked(h) /\ h.pool = heap.pool
    BY <1>2, <2>2, ParkedKept DEF Kept
  <2>5. IInv'
    BY <1>1, <1>3, <1>5, <2>2, <2>3, <2>4, ContinueOnward
  <2>6. heap' = h
    BY <2>3 DEF Continue
  <2>7. QED BY <2>4, <2>5, <2>6, PoolKept DEF StepRight
<1>6. CASE Continue(Drop(paid, b), "step") /\ next' = next + 1 /\ into' = into
  BY <1>1, <1>6, StepDrop DEF paid, b
<1>7. QED BY <1>1, <1>5, <1>6

LEMMA AdvanceStep ==
  ASSUME IInv, Advance
  PROVE  StepRight
<1> DEFINE r == [heap EXCEPT !.clist = heap.nlist, !.nlist = <<>>,
                             !.cap["clist"] = heap.cap["nlist"],
                             !.cap["nlist"] = heap.cap["clist"]]
<1>1. /\ phase = "step" /\ next >= Len(heap.clist) /\ heap' = r
      /\ phase' \in {"stop", "seed"} /\ pos' = pos + 1 /\ next' = 0
      /\ call' = call /\ mh' = mh /\ into' = into
  BY DEF Advance
<1>2. /\ heap.ok /\ heap \in Heaps /\ next \in Nat /\ pos \in Nat /\ mh \in Matches
      /\ into \in {"clist", "nlist"}
      /\ Good(heap, next + 1, mh, NoHand) /\ Parked(heap)
  BY <1>1 DEF IInv, Unstepped, Live, Running
<1>3. /\ r \in Heaps /\ r.ok = heap.ok /\ r.clist = heap.nlist /\ r.nlist = <<>>
      /\ r.stk = heap.stk /\ r.pool = heap.pool /\ r.rc = heap.rc /\ r.free = heap.free
  <2>1. <<>> \in Seq(Threads(Re))
    OBVIOUS
  <2>2. /\ "clist" \in Arrays /\ "nlist" \in Arrays
        /\ heap.cap \in [Arrays -> Nat]
    BY <1>2 DEF Arrays, Heaps
  <2> DEFINE cap == [heap.cap EXCEPT !["clist"] = heap.cap["nlist"],
                                     !["nlist"] = heap.cap["clist"]]
  <2>3. cap \in [Arrays -> Nat]
    BY <2>2
  <2>4. r = [heap EXCEPT !.clist = heap.nlist, !.nlist = <<>>, !.cap = cap]
    BY <1>2 DEF Heaps
  <2> HIDE DEF cap, r
  <2>5. QED BY <1>2, <2>1, <2>3, <2>4 DEF Heaps
<1> HIDE DEF r
<1>4. Good(r, 1, mh, NoHand)
  <2>1. ASSUME NEW c \in Nat
        PROVE  Owed(r, 1, mh, NoHand, c) = Owed(heap, next + 1, mh, NoHand, c)
    <3>1. Len(heap.clist) \in Nat /\ Len(r.nlist) = 0
      BY <1>2, <1>3 DEF Heaps
    <3>2. Held(heap.clist, next + 1, c) = 0 /\ Held(r.nlist, 1, c) = 0
      <4> DEFINE lo == next + 1
      <4>1. lo \in Nat /\ lo > Len(heap.clist)
        BY <1>1, <1>2, <3>1
      <4> HIDE DEF lo
      <4>2. Held(heap.clist, lo, c) = 0
        BY <3>1, <4>1, HeldPast
      <4>3. 1 > Len(r.nlist) /\ Len(r.nlist) \in Nat
        BY <3>1
      <4>4. Held(r.nlist, 1, c) = 0
        BY <4>3, HeldPast
      <4>5. QED BY <4>2, <4>4 DEF lo
    <3>3. /\ Held(heap.nlist, 1, c) \in Nat /\ Held(heap.stk, 1, c) \in Nat
          /\ NoHand[c] = 0 /\ One(mh, c) \in Nat
      <4>1. NoHand \in Hands /\ NoHand[c] = 0 /\ next + 1 \in Nat \ {0}
        BY <1>2, EmptyHand
      <4>2. QED BY <1>2, <4>1, HoldsCounted, OneBit
    <3>4. Owed(r, 1, mh, NoHand, c)
            = Held(heap.nlist, 1, c) + 0 + Held(heap.stk, 1, c) + One(mh, c) + 0
      BY SMTT(30), <1>3, <3>2, <3>3 DEF Owed
    <3>5. Owed(heap, next + 1, mh, NoHand, c)
            = 0 + Held(heap.nlist, 1, c) + Held(heap.stk, 1, c) + One(mh, c) + 0
      BY SMTT(30), <3>2, <3>3 DEF Owed
    <3>6. QED BY <3>3, <3>4, <3>5
  <2>2. Moved(heap, next + 1, mh, NoHand, r, 1, mh, NoHand) /\ Kept(heap, r, Lists)
    BY <1>3, <2>1 DEF Moved, Kept, Lists
  <2>3. QED BY <1>2, <1>3, <2>2, BooksMoved DEF Good
<1>5. Parked(r)
  BY <1>2, <1>3 DEF Parked
<1>6. Onward(1)
  BY <1>1, <1>2, <1>3, <1>4, <1>5 DEF Onward, Live
<1>7. QED BY <1>1, <1>3, <1>6, OnwardInv, PoolKept DEF StepRight

\* The match recorded before is dropped, if there is one.
LEMMA MatchDropped ==
  ASSUME call \in Calls, mh \in Matches, NEW h, NEW lo \in Nat \ {0}, NEW hand \in Hands,
         Good(h, lo, mh, hand)
  PROVE  /\ Good(Drop(h, mh), lo, NONE, hand)
         /\ Drop(h, mh).ok => h.ok /\ Kept(h, Drop(h, mh), {"rc", "free"})
<1>1. CASE mh = NONE
  <2>1. Drop(h, mh) = h
    BY <1>1, DropNone
  <2>2. QED BY <1>1, <2>1 DEF Kept
<1>2. CASE mh # NONE
  <2>1. mh \in Nat
    BY <1>2 DEF Matches
  <2> DEFINE g == More(hand, mh)
  <2>2. g \in Hands /\ g[mh] > 0 /\ Less(g, mh) = hand
    <3>1. g \in Hands /\ \A c \in Nat : g[c] = hand[c] + One(mh, c)
      BY <2>1, HandTaken
    <3>2. One(mh, mh) = 1 /\ hand[mh] \in Nat
      BY <2>1, OneIs DEF Hands
    <3>3. Less(g, mh) = hand
      BY <2>1, HandBack
    <3>4. QED BY <2>1, <3>1, <3>2, <3>3
  <2>3. Good(h, lo, NONE, g)
    BY <2>1, MatchGood
  <2> HIDE DEF g
  <2>4. QED BY <2>1, <2>2, <2>3, DropGood
<1>3. QED BY <1>1, <1>2

LEMMA StepAcceptStep ==
  ASSUME IInv, StepAccept
  PROVE  StepRight
<1> DEFINE b == Thread.h
           paid == Pay(heap, 1)
           began == heap.pool[Slot(Thread.h, 0)]
           w == Write(Pay(heap, 1), Thread.h, 1, pos)
           d == Drop(w.heap, mh)
           f == w.block
           top == Len(heap.clist)
           lo == next + 2
           g == More(NoHand, f)
<1>1. /\ phase = "step" /\ next < top
      /\ call' = call /\ pos' = pos /\ into' = into
  BY DEF StepAccept
<1>2. \/ /\ Continue(Drop(Pay(heap, 1), Thread.h), "step")
         /\ next' = next + 1 /\ mh' = mh
      \/ /\ heap' = Killed(d) /\ next' = top
         /\ IF heap'.ok THEN mh' = f /\ phase' = "step" ELSE phase' = "stop" /\ mh' = mh
  BY DEF StepAccept
<1>3. /\ call \in Calls /\ heap.ok /\ heap \in Heaps /\ lo \in Nat \ {0}
      /\ First = lo /\ b \in Nat
      /\ Good(paid, lo, mh, More(NoHand, b)) /\ paid \in Heaps
      /\ Kept(heap, paid, {}) /\ Parked(paid)
  BY <1>1, ThreadPaid
<1>4. /\ next \in Nat /\ mh \in Matches /\ pos \in Nat /\ into \in {"clist", "nlist"}
      /\ NoHand \in Hands
  BY EmptyHand DEF IInv
<1>5. /\ heap.clist \in Seq(Threads(Re)) /\ top \in Nat
      /\ 1 \in 0 .. (Width - 1)
  <2>1. heap.clist \in Seq(Threads(Re))
    BY <1>3 DEF Heaps
  <2>2. Re.ncap \in Nat
    BY <1>3, CallFigures DEF WellFormed, Res
  <2>3. Width \in Nat /\ Width > 1
    BY <2>2 DEF Width, Novec
  <2>4. QED BY <2>1, <2>3, LenProperties
<1>6. CASE Continue(Drop(Pay(heap, 1), Thread.h), "step") /\ next' = next + 1 /\ mh' = mh
  BY <1>1, <1>6, StepDrop
<1>7. CASE /\ heap' = Killed(d) /\ next' = top
           /\ IF heap'.ok THEN mh' = f /\ phase' = "step" ELSE phase' = "stop" /\ mh' = mh
  <2>1. Wrote(paid, w, lo, mh, NoHand)
    <3> DEFINE one == 1
    <3>1. one \in 0 .. (Width - 1)
      BY <1>5
    <3> HIDE DEF one, lo
    <3>2. Wrote(Pay(heap, 1), Write(Pay(heap, 1), Thread.h, one, pos), lo, mh, NoHand)
      BY <1>3, <1>4, <3>1, WriteGood
    <3>3. QED BY <3>2 DEF one
  <2> HIDE DEF lo, top, paid, w
  <2>2. /\ f \in Nat /\ Good(w.heap, lo, mh, g)
        /\ w.heap.ok => /\ Kept(paid, w.heap, {"pool", "rc", "free"})
                        /\ Spared(paid, w.heap, lo, mh)
    BY <2>1 DEF Wrote
  <2>3. g \in Hands /\ g[f] > 0 /\ Less(g, f) = NoHand
    BY <2>2, HandOne
  <2> HIDE DEF f, g
  <2>4. /\ Good(d, lo, NONE, g)
        /\ d.ok => w.heap.ok /\ Kept(w.heap, d, {"rc", "free"})
    <3> DEFINE x == w.heap
    <3>1. Good(x, lo, mh, g)
      BY <2>2
    <3>2. d = Drop(x, mh)
      OBVIOUS
    <3> HIDE DEF x, d
    <3>3. /\ Good(Drop(x, mh), lo, NONE, g)
          /\ Drop(x, mh).ok => x.ok /\ Kept(x, Drop(x, mh), {"rc", "free"})
      BY <1>3, <1>4, <2>3, <3>1, MatchDropped
    <3>4. QED BY <3>2, <3>3 DEF x
  <2> HIDE DEF d
  <2>5. d.ok => d.clist = heap.clist
    BY <1>3, <2>2, <2>4 DEF Kept
  <2>6. /\ Good(Killed(d), top + 1, NONE, g)
        /\ Killed(d).ok => d.ok /\ Kept(d, Killed(d), {"rc", "free"})
    <3>1. Good(d, next + 2, NONE, g)
      BY <2>4 DEF lo
    <3>2. next < Len(heap.clist)
      BY <1>1 DEF top
    <3>3. QED BY <1>3, <1>4, <1>5, <2>3, <2>5, <3>1, <3>2, KilledGood DEF top
  <2> DEFINE r == Killed(d)
  <2> HIDE DEF r
  <2>7. heap' = r /\ next' = top
    BY <1>7 DEF r
  <2>8. Good(r, top + 1, f, NoHand)
    <3> DEFINE n == top + 1
    <3>1. n \in Nat \ {0} /\ Good(r, n, NONE, g)
      BY <1>5, <2>6 DEF r
    <3> HIDE DEF n
    <3>2. Good(r, n, f, NoHand)
      BY <2>2, <2>3, <3>1, MatchGood
    <3>3. QED BY <3>2 DEF n
  <2>9. r.ok => Parked(r) /\ r.pool = w.heap.pool /\ w.heap.ok
    <3>1. r.ok => r.clist = paid.clist /\ r.nlist = paid.nlist
      BY <2>2, <2>4, <2>6 DEF Kept, r
    <3>2. r.ok => r.pool = w.heap.pool /\ w.heap.ok
      BY <2>4, <2>6 DEF Kept, r
    <3>3. QED BY <1>3, <3>1, <3>2, ParkedKept
  <2>10. IInv'
    <3>1. CASE r.ok
      <4>1. mh' = f /\ phase' = "step"
        BY <1>7, <2>7, <3>1
      <4>2. Onward(top + 1)
        BY <1>1, <1>4, <1>5, <2>2, <2>7, <2>8, <2>9, <3>1, <4>1 DEF Onward, Live, Matches
      <4>3. QED BY <4>2, OnwardInv
    <3>2. CASE ~r.ok
      <4>1. mh' = mh /\ phase' = "stop"
        BY <1>7, <2>7, <3>2
      <4>2. Good(r, top + 1, mh, NoHand)
        BY <2>8, <3>2, GoodRefused
      <4>3. Onward(top + 1)
        BY <1>1, <1>4, <1>5, <2>7, <3>2, <4>1, <4>2 DEF Onward, Live
      <4>4. QED BY <4>3, OnwardInv
    <3>3. QED BY <3>1, <3>2
  <2>11. r.ok => Isolated(heap, r, lo, mh)
    <3> SUFFICES ASSUME r.ok PROVE Isolated(heap, r, lo, mh)
      OBVIOUS
    <3>1. Spared(paid, r, lo, mh)
      BY <2>2, <2>9 DEF Spared
    <3>2. /\ paid.pool = heap.pool /\ paid.clist = heap.clist /\ paid.nlist = heap.nlist
          /\ \A k \in 1 .. (Len(heap.stk) - 1) :
               k \in 1 .. Len(paid.stk) /\ paid.stk[k] = heap.stk[k]
      <4>1. paid.stk = heap.stk /\ Len(heap.stk) \in Nat
        BY <1>3 DEF Kept, Heaps
      <4>2. QED BY <1>3, <4>1 DEF Kept
    <3>3. QED BY <1>3, <3>1, <3>2, SparedIsolated
  <2>12. WaitingIsolated
    BY <1>3, <2>7, <2>11, IsolatedWaiting
  <2>13. QED BY <2>10, <2>12 DEF StepRight
<1>8. QED BY <1>2, <1>6, <1>7

-----------------------------------------------------------------------------
(* The closure's steps.                                                    *)

\* The thread the closure takes up, popped.
LEMMA ClosingPopped ==
  ASSUME IInv, phase = "closure", heap.stk # <<>>
  PROVE  /\ call \in Calls /\ heap.ok /\ heap \in Heaps /\ Unstepped \in Nat \ {0}
         /\ Closing.pc \in 0 .. (Len(Re.code) - 1) /\ Closing.h \in Nat
         /\ Popped \in Heaps /\ Kept(heap, Popped, {"stk"}) /\ Parked(Popped)
         /\ Good(Popped, Unstepped, mh, More(NoHand, Closing.h))
         /\ More(NoHand, Closing.h) \in Hands
         /\ More(NoHand, Closing.h)[Closing.h] > 0
         /\ Less(More(NoHand, Closing.h), Closing.h) = NoHand
<1>1. /\ call \in Calls /\ heap.ok /\ heap \in Heaps /\ next \in Nat
      /\ Good(heap, Unstepped, mh, NoHand) /\ Parked(heap)
  BY DEF IInv, Live, Running
<1>2. Unstepped \in Nat \ {0} /\ NoHand \in Hands
  BY <1>1, EmptyHand DEF Unstepped
<1>3. /\ Closing.pc \in 0 .. (Len(Re.code) - 1) /\ Closing.h \in Nat
      /\ Good(Popped, Unstepped, mh, More(NoHand, Closing.h))
      /\ Kept(heap, Popped, {"stk"})
  BY <1>1, <1>2, PopGood
<1>4. Parked(Popped)
  BY <1>1, <1>3, ParkedKept DEF Kept
<1>5. QED BY <1>1, <1>2, <1>3, <1>4, HandOne DEF Good

\* And paid for.
LEMMA ClosingPaid ==
  ASSUME IInv, phase = "closure", heap.stk # <<>>
  PROVE  /\ Paid \in Heaps /\ Kept(heap, Paid, {"stk"}) /\ Parked(Paid)
         /\ Good(Paid, Unstepped, mh, More(NoHand, Closing.h))
         /\ Paid.stk = Popped.stk
<1> DEFINE one == 1
           h == Popped
           p == Pay(h, one)
<1>1. /\ call \in Calls /\ h \in Heaps /\ Kept(heap, h, {"stk"}) /\ Parked(h)
      /\ Good(h, Unstepped, mh, More(NoHand, Closing.h))
  BY ClosingPopped
<1>2. one \in Nat /\ Paid = p
  BY DEF Paid
<1> HIDE DEF one, h
<1>3. /\ p \in Heaps /\ Kept(h, p, {})
      /\ Good(p, Unstepped, mh, More(NoHand, Closing.h))
  BY <1>1, <1>2, PayGood, PayKeeps
<1>4. Kept(heap, p, {"stk"}) /\ Parked(p) /\ p.stk = h.stk
  BY <1>1, <1>3, ParkedKept DEF Kept
<1>5. QED BY <1>2, <1>3, <1>4 DEF h

\* The closure goes on.
LEMMA ClosureOnward ==
  ASSUME IInv, phase = "closure", NEW h, Continue(h, "closure"),
         UNCHANGED <<call, mh, pos, next, into>>,
         Good(h, Unstepped, mh, NoHand), h.ok => Parked(h)
  PROVE  IInv'
<1>1. /\ next \in Nat /\ into \in {"clist", "nlist"} /\ (into = "clist" => next = 0)
  BY DEF IInv
<1>2. Unstepped = (IF into' = "nlist" THEN next' + 2 ELSE next' + 1)
  BY DEF Unstepped
<1> DEFINE lo == Unstepped
<1>3. Good(h, lo, mh, NoHand) /\ lo = (IF into' = "nlist" THEN next' + 2 ELSE next' + 1)
  BY <1>2
<1> HIDE DEF lo
<1>4. QED BY <1>1, <1>3, ContinueOnward

\* A handler that keeps both lists and the pool, and whose books balance.
Balanced(h) ==
  /\ Good(h, Unstepped, mh, NoHand)
  /\ h.ok => Parked(h) /\ h.pool = heap.pool

LEMMA VisitBalanced ==
  ASSUME IInv, phase = "closure", NEW h, Balanced(h), Continue(h, "closure"),
         UNCHANGED <<call, mh, pos, next, into>>
  PROVE  StepRight
<1>1. IInv'
  BY ClosureOnward DEF Balanced
<1>2. heap' = h
  BY DEF Continue
<1>3. QED BY <1>1, <1>2, PoolKept DEF StepRight, Balanced

\* Deferring, or dropping, the thread in hand balances the books.
LEMMA DeferBalanced ==
  ASSUME IInv, phase = "closure", heap.stk # <<>>, NEW h, Good(h, Unstepped, mh, More(NoHand, Closing.h)),
         Parked(h), h.pool = heap.pool, NEW p \in 0 .. (Len(Re.code) - 1)
  PROVE  Balanced(Defer(h, p, Closing.h)) /\ Balanced(Drop(h, Closing.h))
<1> DEFINE b == Closing.h
           g == More(NoHand, b)
           lo == Unstepped
           d == Defer(h, p, b)
           r == Drop(h, b)
<1>1. /\ call \in Calls /\ lo \in Nat \ {0} /\ b \in Nat
      /\ g \in Hands /\ g[b] > 0 /\ Less(g, b) = NoHand /\ Good(h, lo, mh, g)
  BY ClosingPopped
<1> HIDE DEF b, g, lo
<1>2. /\ Good(d, lo, mh, NoHand)
      /\ d.ok => Kept(h, d, {"stk"})
  BY <1>1, DeferGood
<1>3. /\ Good(r, lo, mh, NoHand)
      /\ r.ok => Kept(h, r, {"rc", "free"})
  BY <1>1, DropGood
<1> HIDE DEF d, r
<1>4. /\ d.ok => Parked(d) /\ d.pool = heap.pool
      /\ r.ok => Parked(r) /\ r.pool = heap.pool
  BY <1>2, <1>3, ParkedKept DEF Kept
<1>5. QED BY <1>2, <1>3, <1>4 DEF Balanced, d, r, b, lo

\* So does a fork: one more hold, and two threads deferred.
LEMMA ForkBalanced ==
  ASSUME IInv, phase = "closure", heap.stk # <<>>, NEW h, Good(h, Unstepped, mh, More(NoHand, Closing.h)),
         Parked(h), h.pool = heap.pool, NEW p \in 0 .. (Len(Re.code) - 1),
         NEW q \in 0 .. (Len(Re.code) - 1)
  PROVE  Balanced(Forked(h, p, q, Closing.h))
<1> DEFINE b == Closing.h
           g == More(NoHand, b)
           g2 == More(g, b)
           lo == Unstepped
           s == Share(h, b)
           d == Defer(s, q, b)
           r == Defer(d, p, b)
<1>1. /\ call \in Calls /\ lo \in Nat \ {0} /\ b \in Nat
      /\ g \in Hands /\ g[b] > 0 /\ Less(g, b) = NoHand /\ Good(h, lo, mh, g)
  BY ClosingPopped
<1> HIDE DEF b, lo
<1>2. g2 \in Hands /\ g2[b] > 0 /\ Less(g2, b) = g
  <2>1. g2 \in Hands /\ \A c \in Nat : g2[c] = g[c] + One(b, c)
    BY <1>1, HandTaken
  <2>2. One(b, b) = 1 /\ g[b] \in Nat
    BY <1>1, OneIs DEF Hands
  <2>3. Less(g2, b) = g
    BY <1>1, HandBack
  <2> HIDE DEF g
  <2>4. QED BY <1>1, <2>1, <2>2, <2>3
<1>3. /\ Good(s, lo, mh, g2)
      /\ s.ok => Kept(h, s, {"rc"})
  <2> HIDE DEF g
  <2>1. QED BY <1>1, ShareGood
<1> HIDE DEF g, g2, s
<1>4. /\ Good(d, lo, mh, g)
      /\ d.ok => s.ok /\ Kept(s, d, {"stk"})
  BY <1>1, <1>2, <1>3, DeferGood
<1> HIDE DEF d
<1>5. /\ Good(r, lo, mh, NoHand)
      /\ r.ok => d.ok /\ Kept(d, r, {"stk"})
  BY <1>1, <1>4, DeferGood
<1> HIDE DEF r
<1>6. r.ok => r.pool = heap.pool /\ r.clist = h.clist /\ r.nlist = h.nlist
  BY <1>3, <1>4, <1>5 DEF Kept
<1>7. r.ok => Parked(r)
  BY <1>6, ParkedKept
<1>8. QED BY <1>5, <1>6, <1>7 DEF Balanced, Forked, r, d, s, b, lo

LEMMA CloseSeenStep ==
  ASSUME IInv, CloseSeen
  PROVE  StepRight
<1>1. /\ phase = "closure" /\ heap.stk # <<>>
      /\ Continue(Drop(Popped, Closing.h), "closure")
      /\ UNCHANGED <<call, mh, pos, next, into>>
  BY DEF CloseSeen
<1>2. /\ Good(Popped, Unstepped, mh, More(NoHand, Closing.h)) /\ Parked(Popped)
      /\ Popped.pool = heap.pool /\ Closing.pc \in 0 .. (Len(Re.code) - 1)
  BY <1>1, ClosingPopped DEF Kept
<1>3. Balanced(Drop(Popped, Closing.h))
  BY <1>1, <1>2, DeferBalanced
<1>4. QED BY <1>1, <1>3, VisitBalanced

\* What every visit of a new address starts from.
LEMMA Visiting ==
  ASSUME IInv, NEW ops, Visits(ops), NEW h, Visited(h)
  PROVE  /\ phase = "closure" /\ heap.stk # <<>> /\ call \in Calls
         /\ Instr(Closing.pc).op \in ops /\ Closing.pc \in 0 .. (Len(Re.code) - 1)
         /\ Good(Paid, Unstepped, mh, More(NoHand, Closing.h)) /\ Parked(Paid)
         /\ Paid.pool = heap.pool
         /\ Continue(h, "closure") /\ UNCHANGED <<call, mh, pos, next, into>>
<1>1. /\ phase = "closure" /\ heap.stk # <<>> /\ Instr(Closing.pc).op \in ops
      /\ Continue(h, "closure") /\ UNCHANGED <<call, mh, pos, next, into>>
  BY DEF Visits, Visited
<1>2. QED BY <1>1, ClosingPopped, ClosingPaid DEF Kept

LEMMA CloseForkStep ==
  ASSUME IInv, CloseSplit \/ CloseRepFork
  PROVE  StepRight
<1>1. CASE CloseSplit
  <2> DEFINE inst == Instr(Closing.pc)
             h == Forked(Paid, inst.arg, inst.alt, Closing.h)
  <2>1. Visits({"OpSplit"}) /\ Visited(h)
    BY <1>1 DEF CloseSplit
  <2> HIDE DEF h
  <2>2. /\ phase = "closure" /\ heap.stk # <<>> /\ call \in Calls
        /\ inst.op = "OpSplit" /\ Closing.pc \in 0 .. (Len(Re.code) - 1)
        /\ Good(Paid, Unstepped, mh, More(NoHand, Closing.h)) /\ Parked(Paid)
        /\ Paid.pool = heap.pool
        /\ Continue(h, "closure") /\ UNCHANGED <<call, mh, pos, next, into>>
    BY <2>1, Visiting
  <2>3. inst.arg \in 0 .. (Len(Re.code) - 1) /\ inst.alt \in 0 .. (Len(Re.code) - 1)
    BY <2>2, Control
  <2>4. Balanced(h)
    BY <2>2, <2>3, ForkBalanced DEF h
  <2>5. QED BY <2>2, <2>4, VisitBalanced
<1>2. CASE CloseRepFork
  <2> DEFINE rep == At(Re.reps, Instr(Closing.pc).arg)
             p == IF rep.greedy THEN rep.body ELSE rep.after
             q == IF rep.greedy THEN rep.after ELSE rep.body
             h == Forked(Paid, p, q, Closing.h)
  <2>1. Visits({"OpRepLoop", "OpRepNext"}) /\ Visited(h)
    BY <1>2 DEF CloseRepFork
  <2> HIDE DEF h
  <2>2. /\ phase = "closure" /\ heap.stk # <<>> /\ call \in Calls
        /\ Instr(Closing.pc).op \in {"OpRepLoop", "OpRepNext"}
        /\ Closing.pc \in 0 .. (Len(Re.code) - 1)
        /\ Good(Paid, Unstepped, mh, More(NoHand, Closing.h)) /\ Parked(Paid)
        /\ Paid.pool = heap.pool
        /\ Continue(h, "closure") /\ UNCHANGED <<call, mh, pos, next, into>>
    BY <2>1, Visiting
  <2>3. rep.body \in 0 .. (Len(Re.code) - 1) /\ rep.after \in 0 .. (Len(Re.code) - 1)
    BY <2>2, Control DEF RepOps
  <2>4. p \in 0 .. (Len(Re.code) - 1) /\ q \in 0 .. (Len(Re.code) - 1)
    BY <2>3
  <2> HIDE DEF p, q
  <2>5. Balanced(h)
    BY <2>2, <2>4, ForkBalanced DEF h
  <2>6. QED BY <2>2, <2>5, VisitBalanced
<1>3. QED BY <1>1, <1>2

LEMMA CloseDeferStep ==
  ASSUME IInv, CloseJump \/ CloseRepEpsilon \/ CloseAssert
  PROVE  StepRight
<1>1. CASE CloseJump
  <2> DEFINE p == Instr(Closing.pc).arg
             h == Defer(Paid, p, Closing.h)
  <2>1. Visits({"OpJump"}) /\ Visited(h)
    BY <1>1 DEF CloseJump
  <2> HIDE DEF h
  <2>2. /\ phase = "closure" /\ heap.stk # <<>> /\ call \in Calls
        /\ Instr(Closing.pc).op = "OpJump" /\ Closing.pc \in 0 .. (Len(Re.code) - 1)
        /\ Good(Paid, Unstepped, mh, More(NoHand, Closing.h)) /\ Parked(Paid)
        /\ Paid.pool = heap.pool
        /\ Continue(h, "closure") /\ UNCHANGED <<call, mh, pos, next, into>>
    BY <2>1, Visiting
  <2>3. p \in 0 .. (Len(Re.code) - 1)
    BY <2>2, Control
  <2>4. Balanced(h)
    BY <2>2, <2>3, DeferBalanced DEF h
  <2>5. QED BY <2>2, <2>4, VisitBalanced
<1>2. CASE CloseRepEpsilon
  <2> DEFINE p == Closing.pc + 1
             h == Defer(Paid, p, Closing.h)
  <2>1. Visits({"OpRepZero", "OpRepEnter"}) /\ Visited(h)
    BY <1>2 DEF CloseRepEpsilon
  <2> HIDE DEF h
  <2>2. /\ phase = "closure" /\ heap.stk # <<>> /\ call \in Calls
        /\ Instr(Closing.pc).op \in {"OpRepZero", "OpRepEnter"}
        /\ Closing.pc \in 0 .. (Len(Re.code) - 1)
        /\ Good(Paid, Unstepped, mh, More(NoHand, Closing.h)) /\ Parked(Paid)
        /\ Paid.pool = heap.pool
        /\ Continue(h, "closure") /\ UNCHANGED <<call, mh, pos, next, into>>
    BY <2>1, Visiting
  <2>3. p \in 0 .. (Len(Re.code) - 1)
    BY <2>2, Control
  <2>4. Balanced(h)
    BY <2>2, <2>3, DeferBalanced DEF h
  <2>5. QED BY <2>2, <2>4, VisitBalanced
<1>3. CASE CloseAssert
  <2> DEFINE p == Closing.pc + 1
             h == IF Holds(call, Instr(Closing.pc).op, ClosingPos)
                  THEN Defer(Paid, p, Closing.h) ELSE Drop(Paid, Closing.h)
  <2>1. Visits(AssertOps) /\ Visited(h)
    BY <1>3 DEF CloseAssert
  <2>0. h \in {Defer(Paid, p, Closing.h), Drop(Paid, Closing.h)}
    OBVIOUS
  <2> HIDE DEF h
  <2>2. /\ phase = "closure" /\ heap.stk # <<>> /\ call \in Calls
        /\ Instr(Closing.pc).op \in AssertOps
        /\ Closing.pc \in 0 .. (Len(Re.code) - 1)
        /\ Good(Paid, Unstepped, mh, More(NoHand, Closing.h)) /\ Parked(Paid)
        /\ Paid.pool = heap.pool
        /\ Continue(h, "closure") /\ UNCHANGED <<call, mh, pos, next, into>>
    BY <2>1, Visiting
  <2>3. p \in 0 .. (Len(Re.code) - 1)
    BY <2>2, Control DEF AssertOps
  <2>4. Balanced(h)
    <3>1. Balanced(Defer(Paid, p, Closing.h)) /\ Balanced(Drop(Paid, Closing.h))
      BY <2>2, <2>3, DeferBalanced
    <3>2. QED BY <2>0, <3>1
  <2>5. QED BY <2>2, <2>4, VisitBalanced
<1>4. QED BY <1>1, <1>2, <1>3

\* A list with one more parked thread.
LEMMA ParkedMore ==
  ASSUME NEW h \in Heaps, NEW r, NEW e, NEW list \in {"clist", "nlist"},
         Parked(h), Kept(h, r, {list}), r[list] = Append(h[list], e),
         Instr(e.pc).op \in EaterOps \cup {"OpAccept"}
  PROVE  Parked(r)
<1>1. /\ h.clist \in Seq(Threads(Re)) /\ Len(h.clist) \in Nat
      /\ h.nlist \in Seq(Threads(Re)) /\ Len(h.nlist) \in Nat
  BY DEF Heaps
<1>2. ASSUME NEW l, Len(l) \in Nat,
             \A k \in 1 .. Len(l) : Instr(l[k].pc).op \in EaterOps \cup {"OpAccept"},
             NEW q, Len(q) = Len(l) + 1, \A k \in 1 .. Len(l) : q[k] = l[k], q[Len(q)] = e
      PROVE  \A k \in 1 .. Len(q) : Instr(q[k].pc).op \in EaterOps \cup {"OpAccept"}
  <2> TAKE k \in 1 .. Len(q)
  <2>1. CASE k = Len(q)
    BY <1>2, <2>1
  <2>2. CASE k # Len(q)
    <3>1. k \in 1 .. Len(l)
      BY <1>2, <2>2
    <3>2. QED BY <1>2, <3>1
  <2>3. QED BY <2>1, <2>2
<1>3. CASE list = "clist"
  <2>1. r.clist = Append(h.clist, e) /\ r.nlist = h.nlist
    BY <1>3 DEF Kept
  <2>2. /\ Len(r.clist) = Len(h.clist) + 1 /\ r.clist[Len(r.clist)] = e
        /\ \A k \in 1 .. Len(h.clist) : r.clist[k] = h.clist[k]
    BY <1>1, <2>1
  <2>3. QED BY <1>1, <1>2, <2>1, <2>2 DEF Parked
<1>4. CASE list = "nlist"
  <2>1. r.nlist = Append(h.nlist, e) /\ r.clist = h.clist
    BY <1>4 DEF Kept
  <2>2. /\ Len(r.nlist) = Len(h.nlist) + 1 /\ r.nlist[Len(r.nlist)] = e
        /\ \A k \in 1 .. Len(h.nlist) : r.nlist[k] = h.nlist[k]
    BY <1>1, <2>1
  <2>3. QED BY <1>1, <1>2, <2>1, <2>2 DEF Parked
<1>5. QED BY <1>3, <1>4

LEMMA CloseParkStep ==
  ASSUME IInv, ClosePark
  PROVE  StepRight
<1> DEFINE b == Closing.h
           p == Closing.pc
           g == More(NoHand, b)
           lo == Unstepped
           h == Paid
           r == Park(h, into, p, b)
<1>1. Visits((EaterOps \ {"OpBsr"}) \cup {"OpAccept"}) /\ Visited(r)
  BY DEF ClosePark
<1>2. /\ phase = "closure" /\ heap.stk # <<>> /\ call \in Calls
      /\ Instr(p).op \in (EaterOps \ {"OpBsr"}) \cup {"OpAccept"}
      /\ p \in 0 .. (Len(Re.code) - 1)
      /\ Good(h, lo, mh, g) /\ Parked(h) /\ h.pool = heap.pool
      /\ Continue(r, "closure") /\ UNCHANGED <<call, mh, pos, next, into>>
  <2> HIDE DEF r
  <2>1. QED BY <1>1, Visiting
<1>3. /\ lo \in Nat \ {0} /\ b \in Nat /\ g \in Hands /\ g[b] > 0 /\ Less(g, b) = NoHand
  BY <1>2, ClosingPopped
<1>4. into \in {"clist", "nlist"} /\ (into = "clist" => lo = 1) /\ h \in Heaps
  BY <1>2 DEF IInv, Unstepped, Good
<1> DEFINE e == [pc |-> p, h |-> b]
<1>5. e.pc = p
  OBVIOUS
<1> HIDE DEF b, p, g, lo, h
<1>6. /\ Good(r, lo, mh, NoHand)
      /\ r.ok => Kept(h, r, {into}) /\ r[into] = Append(h[into], e)
  <2> DEFINE a == into
  <2>1. a \in {"clist", "nlist"} /\ (a = "clist" => lo = 1)
    BY <1>4
  <2> HIDE DEF a, e
  <2>2. Good(Park(h, a, p, b), lo, mh, Less(g, b)) /\ Grown(h, Park(h, a, p, b), a, p, b)
    BY <1>2, <1>3, <2>1, ParkGood
  <2>3. QED BY <1>3, <2>2 DEF a, e, Grown
<1> HIDE DEF r, e
<1>7. ASSUME r.ok PROVE Parked(r)
  BY <1>2, <1>4, <1>5, <1>6, <1>7, ParkedMore
<1>8. r.ok => r.pool = heap.pool
  BY <1>2, <1>4, <1>6 DEF Kept
<1>9. Balanced(r)
  BY <1>6, <1>7, <1>8 DEF Balanced, lo
<1>10. QED BY <1>2, <1>9, VisitBalanced

\* What popping leaves is what lay under the top.
LEMMA Beneath ==
  ASSUME NEW S, NEW s \in Seq(S), s # <<>>
  PROVE  \A j \in 1 .. (Len(s) - 1) :
           /\ j \in 1 .. Len(SubSeq(s, 1, Len(s) - 1))
           /\ SubSeq(s, 1, Len(s) - 1)[j] = s[j]
<1>1. Len(s) \in Nat /\ Len(s) # 0
  OBVIOUS
<1> DEFINE n == Len(s) - 1
<1>2. n \in Nat /\ n <= Len(s) /\ 1 .. n \subseteq 1 .. Len(s)
  BY <1>1
<1>3. /\ Len(SubSeq(s, 1, n)) = n
      /\ \A j \in 1 .. n : SubSeq(s, 1, n)[j] = s[j]
  BY <1>2
<1>4. QED BY <1>3

\* A save writes through the thread's own block, or a copy of it.
LEMMA CloseSaveStep ==
  ASSUME IInv, CloseSave
  PROVE  StepRight
<1> DEFINE b == Closing.h
           p == Closing.pc
           k == Instr(p).arg
           lo == Unstepped
           h == Paid
           w == Write(h, b, k, ClosingPos)
           f == w.block
           g == More(NoHand, f)
           x == w.heap
           r == Defer(x, p + 1, f)
<1>1. Visits({"OpSave"}) /\ Visited(r)
  BY DEF CloseSave, Saved
<1>2. /\ phase = "closure" /\ heap.stk # <<>> /\ call \in Calls
      /\ Instr(p).op = "OpSave"
      /\ p \in 0 .. (Len(Re.code) - 1)
      /\ Good(h, lo, mh, More(NoHand, b)) /\ Parked(h) /\ h.pool = heap.pool
      /\ Continue(r, "closure") /\ UNCHANGED <<call, mh, pos, next, into>>
  <2> HIDE DEF r
  <2>1. QED BY <1>1, Visiting
<1>3. /\ lo \in Nat \ {0} /\ b \in Nat /\ NoHand \in Hands
      /\ Kept(heap, h, {"stk"}) /\ heap \in Heaps /\ h \in Heaps
  BY <1>2, ClosingPopped, ClosingPaid, EmptyHand DEF Good
<1>4. k \in 0 .. (Width - 1) /\ p + 1 \in 0 .. (Len(Re.code) - 1)
  BY <1>2, Control
<1>5. ClosingPos \in Nat
  BY DEF ClosingPos, IInv
<1>6. /\ First = lo
      /\ \A j \in 1 .. (Len(heap.stk) - 1) : j \in 1 .. Len(h.stk) /\ h.stk[j] = heap.stk[j]
  <2>1. h.stk = SubSeq(heap.stk, 1, Len(heap.stk) - 1)
    <3>1. Paid.stk = Popped.stk
      BY <1>2, ClosingPaid
    <3>2. Popped.stk = SubSeq(heap.stk, 1, Len(heap.stk) - 1)
      BY <1>3 DEF Popped, Heaps
    <3>3. QED BY <3>1, <3>2 DEF h
  <2>2. heap.stk \in Seq(Threads(Re)) /\ heap.stk # <<>>
    BY <1>2, <1>3 DEF Heaps
  <2>3. First = lo
    BY <1>2 DEF First, lo
  <2>4. QED BY <2>1, <2>2, <2>3, Beneath
<1> DEFINE q == p + 1
<1> HIDE DEF b, p, k, lo, h
<1>7. Wrote(h, w, lo, mh, NoHand)
  BY <1>2, <1>3, <1>4, <1>5, WriteGood
<1> HIDE DEF w, q
<1>8. /\ f \in Nat /\ Good(x, lo, mh, g)
      /\ x.ok => Kept(h, x, {"pool", "rc", "free"}) /\ Spared(h, x, lo, mh)
  BY <1>7 DEF Wrote
<1>9. g \in Hands /\ g[f] > 0 /\ Less(g, f) = NoHand
  BY <1>8, HandOne
<1> HIDE DEF f, g, x
<1>10. /\ Good(r, lo, mh, NoHand)
       /\ r.ok => x.ok /\ Kept(x, r, {"stk"})
  <2>1. q \in 0 .. (Len(Re.code) - 1) /\ r = Defer(x, q, f)
    BY <1>4 DEF q
  <2> HIDE DEF r
  <2>2. QED BY <1>2, <1>3, <1>8, <1>9, <2>1, DeferGood
<1> HIDE DEF r
<1>11. r.ok => r.clist = h.clist /\ r.nlist = h.nlist /\ Spared(h, r, lo, mh)
  BY <1>8, <1>10 DEF Kept, Spared
<1>12. r.ok => Parked(r)
  BY <1>2, <1>11, ParkedKept
<1>13. IInv'
  BY <1>2, <1>10, <1>12, ClosureOnward DEF lo
<1>14. r.ok => Isolated(heap, r, First, mh)
  <2> SUFFICES ASSUME r.ok PROVE Isolated(heap, r, First, mh)
    OBVIOUS
  <2>1. h.pool = heap.pool /\ h.clist = heap.clist /\ h.nlist = heap.nlist
    BY <1>3 DEF Kept
  <2>2. Spared(h, r, lo, mh) /\ lo <= lo
    BY <1>3, <1>11
  <2>3. Isolated(heap, r, lo, mh)
    BY <1>3, <1>6, <2>1, <2>2, SparedIsolated
  <2>4. QED BY <1>6, <2>3
<1>15. heap' = r
  BY <1>2 DEF Continue
<1>16. WaitingIsolated
  BY <1>14, <1>15, IsolatedWaiting
<1>17. QED BY <1>13, <1>16 DEF StepRight

\* An empty stack hands the list over, or the next thread up.
LEMMA CloseDoneStep ==
  ASSUME IInv, CloseDone
  PROVE  StepRight
<1>1. /\ phase = "closure" /\ heap' = heap /\ heap.ok /\ heap \in Heaps
      /\ phase' = (IF into = "clist" THEN "clear" ELSE "step")
      /\ next' = (IF into = "clist" THEN next ELSE next + 1)
      /\ call' = call /\ pos' = pos /\ into' = into /\ mh' = mh
  BY DEF CloseDone, IInv
<1>2. /\ next \in Nat /\ pos \in Nat /\ into \in {"clist", "nlist"} /\ mh \in Matches
      /\ into = "clist" => next = 0
      /\ Good(heap, Unstepped, mh, NoHand) /\ Parked(heap)
  BY <1>1 DEF IInv, Live, Running
<1>3. Unstepped = next' + 1
  BY <1>1, <1>2 DEF Unstepped
<1> DEFINE lo == Unstepped
<1>4. lo = next' + 1 /\ Good(heap', lo, mh', NoHand)
  BY <1>1, <1>2, <1>3
<1> HIDE DEF lo
<1>5. Onward(lo)
  BY <1>1, <1>2, <1>4 DEF Onward, Live
<1>6. QED BY <1>1, <1>5, OnwardInv, PoolKept DEF StepRight

-----------------------------------------------------------------------------
(* Entering, leaving, and every step.                                      *)

\* Nothing has been allocated when a call starts: no holder, nothing free.
LEMMA FreshGood ==
  ASSUME call \in Calls, NEW h \in Heaps, h.clist = <<>>, h.nlist = <<>>, h.stk = <<>>,
         h.pool = <<>>, h.rc = <<>>, h.free = <<>>
  PROVE  Good(h, 1, NONE, NoHand) /\ Parked(h)
<1>1. Len(<<>>) = 0 /\ Width \in Nat
  BY CallFigures
<1>2. ASSUME NEW c \in Nat PROVE Tally(h, c) = Owed(h, 1, NONE, NoHand, c)
  <2> DEFINE l == <<>>
             one == 1
  <2>1. Len(l) \in Nat /\ one \in Nat /\ one > Len(l)
    OBVIOUS
  <2>2. h.clist = l /\ h.nlist = l /\ h.stk = l
    OBVIOUS
  <2>3. NoHand[c] = 0
    BY EmptyHand
  <2>4. One(NONE, c) = 0
    BY DEF One, NONE
  <2>5. Tally(h, c) = 0
    BY <1>1 DEF Tally
  <2> HIDE DEF l, one
  <2>6. Held(l, one, c) = 0
    BY <2>1, HeldPast
  <2>7. Owed(h, one, NONE, NoHand, c) = 0
    <3>1. Held(h.clist, one, c) = 0 /\ Held(h.nlist, 1, c) = 0 /\ Held(h.stk, 1, c) = 0
      BY <2>2, <2>6 DEF one
    <3>2. QED BY SMTT(30), <2>3, <2>4, <3>1 DEF Owed
  <2>8. QED BY <2>5, <2>7 DEF one
<1>3. Blocks(h) = {}
  BY <1>1 DEF Blocks
<1>4. FreeRight(h)
  BY <1>1, <1>3 DEF FreeRight
<1>5. Len(h.pool) = Len(h.rc) * Width
  BY <1>1
<1>6. Good(h, 1, NONE, NoHand)
  BY <1>2, <1>4, <1>5 DEF Good, Books, Counted
<1>7. Parked(h)
  BY <1>1 DEF Parked
<1>8. QED BY <1>6, <1>7

LEMMA StaleKnown ==
  /\ Stale(NoCaps) \in Heaps /\ Stale(NoCaps).ok
  /\ Stale(NoCaps).clist = <<>> /\ Stale(NoCaps).nlist = <<>> /\ Stale(NoCaps).stk = <<>>
  /\ Stale(NoCaps).pool = <<>> /\ Stale(NoCaps).rc = <<>> /\ Stale(NoCaps).free = <<>>
<1>1. NoCaps \in [Arrays -> Nat]
  BY DEF NoCaps
<1>2. QED BY <1>1 DEF Stale, Heaps

LEMMA PikeMatchStep ==
  ASSUME IInv, PikeMatch(call)
  PROVE  IInv'
<1> DEFINE s == Stale(NoCaps)
           n == Setup(call)
           r == [s EXCEPT !.cost = n, !.mem = n, !.peak = n]
<1>1. /\ call' = call /\ pos' = call.start /\ into' = "clist" /\ next' = 0 /\ mh' = NONE
      /\ \/ phase' = "seed" /\ heap' = r
         \/ phase' = "done" /\ heap' \in {heap, s}
  BY DEF PikeMatch, Enter
<1>2. /\ call \in Calls /\ heap \in Heaps /\ n \in Nat /\ call.start \in Nat
  <2>1. call \in CallTypes
    BY PikeCallsAssumption DEF IInv
  <2>2. QED BY <2>1, CallFigures DEF IInv, CallTypes
<1>3. Re' = Re /\ Width' = Width
  BY <1>1 DEF Re, Width
<1>4. Heaps' = Heaps
  BY <1>3 DEF Heaps, Threads
<1>5. CASE phase' = "done" /\ heap' \in {heap, s}
  BY <1>1, <1>2, <1>4, <1>5, StaleKnown DEF IInv, Matches, Live, Running
<1>6. CASE phase' = "seed" /\ heap' = r
  <2>1. /\ s \in Heaps /\ s.ok /\ s.clist = <<>> /\ s.nlist = <<>> /\ s.stk = <<>>
        /\ s.pool = <<>> /\ s.rc = <<>> /\ s.free = <<>>
    BY StaleKnown
  <2> HIDE DEF s, n
  <2>2. /\ r \in Heaps /\ r.ok /\ r.clist = <<>> /\ r.nlist = <<>> /\ r.stk = <<>>
        /\ r.pool = <<>> /\ r.rc = <<>> /\ r.free = <<>>
    BY <1>2, <2>1 DEF Heaps
  <2> HIDE DEF r
  <2>3. Good(r, 1, NONE, NoHand) /\ Parked(r)
    BY <1>2, <2>2, FreshGood
  <2>4. Onward(1)
    BY <1>1, <1>2, <1>6, <2>2, <2>3 DEF Onward, Live, Matches
  <2>5. QED BY <2>4, OnwardInv
<1>7. QED BY <1>1, <1>5, <1>6

LEMMA StillStep ==
  ASSUME IInv, UNCHANGED vars
  PROVE  StepRight
<1>1. heap' = heap /\ call' = call /\ phase' = phase /\ next' = next /\ into' = into
      /\ pos' = pos /\ mh' = mh
  BY DEF vars
<1>2. /\ Re' = Re /\ Width' = Width /\ Unstepped' = Unstepped /\ Live' = Live
      /\ Running' = Running
  BY <1>1 DEF Re, Width, Unstepped, Live, Running
<1>3. Heaps' = Heaps
  BY <1>2 DEF Heaps, Threads
<1>4. Good(heap, Unstepped, mh, NoHand)' <=> Good(heap, Unstepped, mh, NoHand)
  BY <1>1, <1>2, <1>3 DEF Good, Books
<1>5. Parked(heap)' <=> Parked(heap)
  BY <1>1, <1>2 DEF Parked, Instr
<1>6. IInv'
  BY <1>1, <1>2, <1>3, <1>4, <1>5 DEF IInv
<1>7. QED BY <1>1, <1>6, PoolKept DEF StepRight

LEMMA FinishStep ==
  ASSUME IInv, Finish
  PROVE  StepRight
<1>1. /\ heap' = heap /\ call' = call /\ phase' = "done" /\ next' = next /\ into' = into
      /\ pos' = pos /\ mh' = mh
  BY DEF Finish
<1>2. Re' = Re
  BY <1>1 DEF Re
<1>3. Heaps' = Heaps
  BY <1>2 DEF Heaps, Threads
<1>4. IInv'
  BY <1>1, <1>3 DEF IInv, Live, Running
<1>5. QED BY <1>1, <1>4, PoolKept DEF StepRight

LEMMA InitRight ==
  ASSUME Init
  PROVE  IInv
BY StaleKnown DEF Init, IInv, Live, Running, Matches

\* Every step of a run keeps the books, and isolates the threads that wait.
LEMMA NextRight ==
  ASSUME IInv, [Next]_vars
  PROVE  IInv' /\ (phase # "idle" => WaitingIsolated)
<1>1. CASE PikeMatch(call)
  BY <1>1, PikeMatchStep DEF PikeMatch
<1>2. CASE Run
  <2>1. CASE Seed \/ Clear \/ StepEater \/ StepAccept \/ Advance \/ Finish
    BY <2>1, SeedStep, ClearStep, StepEaterStep, StepAcceptStep, AdvanceStep, FinishStep
       DEF StepRight
  <2>2. CASE Closure
    BY <2>2, CloseSeenStep, CloseParkStep, CloseForkStep, CloseDeferStep, CloseSaveStep,
       CloseDoneStep DEF StepRight, Closure
  <2>3. QED BY <1>2, <2>1, <2>2 DEF Run
<1>3. CASE Returned \/ UNCHANGED vars
  BY <1>3, StillStep DEF Returned, StepRight
<1>4. QED BY <1>1, <1>2, <1>3 DEF Next

-----------------------------------------------------------------------------
(* The pool's theorems.                                                    *)

\* As many holders under a tag as without it.
LEMMA TaggedCount ==
  ASSUME NEW S, IsFiniteSet(S), NEW tag
  PROVE  /\ IsFiniteSet({<<tag, k>> : k \in S})
         /\ Cardinality({<<tag, k>> : k \in S}) = Cardinality(S)
<1> DEFINE T == {<<tag, k>> : k \in S}
           f == [k \in S |-> <<tag, k>>]
<1>1. f \in Bijection(S, T)
  <2>1. f \in [S -> T]
    OBVIOUS
  <2>2. \A j, k \in S : f[j] = f[k] => j = k
    OBVIOUS
  <2>3. \A t \in T : \E k \in S : f[k] = t
    OBVIOUS
  <2>4. QED BY <2>1, <2>2, <2>3 DEF Bijection, Injection, Surjection, IsInjective
<1>2. ExistsBijection(S, T)
  BY <1>1 DEF ExistsBijection
<1>3. QED BY <1>2, FS_Bijection

\* The books' sum is the size of the set of places.
LEMMA PlacesCounted ==
  ASSUME heap \in Heaps, Unstepped \in Nat \ {0}, NEW b \in Nat
  PROVE  Cardinality(HeldFrom(b)) = Owed(heap, Unstepped, mh, NoHand, b)
<1> DEFINE C == Holders(heap.clist, Unstepped, b)
           N == Holders(heap.nlist, 1, b)
           S == Holders(heap.stk, 1, b)
           TC == {<<"clist", k>> : k \in C}
           TN == {<<"nlist", k>> : k \in N}
           TS == {<<"stk", k>> : k \in S}
           TM == IF mh = b THEN {<<"mh", 0>>} ELSE {}
<1>1. /\ Len(heap.clist) \in Nat /\ Len(heap.nlist) \in Nat /\ Len(heap.stk) \in Nat
      /\ DOMAIN heap.nlist = 1 .. Len(heap.nlist) /\ DOMAIN heap.stk = 1 .. Len(heap.stk)
  BY DEF Heaps
<1>2. HeldFrom(b) = TC \cup TN \cup TS \cup TM
  BY <1>1 DEF HeldFrom, Holders
<1>3. IsFiniteSet(C) /\ IsFiniteSet(N) /\ IsFiniteSet(S)
  <2> DEFINE one == 1
  <2>1. one \in Nat
    OBVIOUS
  <2> HIDE DEF one
  <2>2. IsFiniteSet(Holders(heap.nlist, one, b)) /\ IsFiniteSet(Holders(heap.stk, one, b))
    BY <1>1, <2>1, HoldersFinite
  <2>3. IsFiniteSet(C)
    BY <1>1, HoldersFinite
  <2>4. QED BY <2>2, <2>3 DEF one
<1>4. /\ TC \cap TN = {} /\ (TC \cup TN) \cap TS = {} /\ (TC \cup TN \cup TS) \cap TM = {}
  OBVIOUS
<1>5. IsFiniteSet(TM) /\ Cardinality(TM) = One(mh, b)
  BY FS_EmptySet, FS_Singleton DEF One
<1> DEFINE c == Cardinality(C)
           n == Cardinality(N)
           s == Cardinality(S)
           m == One(mh, b)
<1>6. /\ IsFiniteSet(TC) /\ Cardinality(TC) = c /\ IsFiniteSet(TN) /\ Cardinality(TN) = n
      /\ IsFiniteSet(TS) /\ Cardinality(TS) = s /\ IsFiniteSet(TM) /\ Cardinality(TM) = m
  <2> HIDE DEF C, N, S
  <2>1. QED BY <1>3, <1>5, TaggedCount
<1>7. c \in Nat /\ n \in Nat /\ s \in Nat /\ m \in Nat
  BY <1>3, FS_CardinalityType, OneBit
<1>8. Owed(heap, Unstepped, mh, NoHand, b) = c + n + s + m + 0
  BY EmptyHand DEF Owed, Held
<1> HIDE DEF TC, TN, TS, TM, c, n, s, m
<1>9. IsFiniteSet(TC \cup TN) /\ Cardinality(TC \cup TN) = c + n
  BY <1>4, <1>6, <1>7, FS_Union, FS_EmptySet
<1>10. IsFiniteSet(TC \cup TN \cup TS) /\ Cardinality(TC \cup TN \cup TS) = c + n + s
  <2> DEFINE U == TC \cup TN
             x == c + n
  <2>1. U \cap TS = {} /\ IsFiniteSet(U) /\ Cardinality(U) = x /\ x \in Nat
    BY <1>4, <1>7, <1>9
  <2> HIDE DEF U, x
  <2>2. IsFiniteSet(U \cup TS) /\ Cardinality(U \cup TS) = x + s
    <3>1. /\ IsFiniteSet(U \cup TS)
          /\ Cardinality(U \cup TS) = Cardinality(U) + Cardinality(TS) - Cardinality(U \cap TS)
      BY <1>6, <2>1, FS_Union
    <3>2. Cardinality(U \cap TS) = 0
      BY <2>1, FS_EmptySet
    <3>3. QED BY <1>6, <1>7, <2>1, <3>1, <3>2
  <2>3. QED BY <2>2 DEF U, x
<1>11. Cardinality(TC \cup TN \cup TS \cup TM) = c + n + s + m
  <2> DEFINE U == TC \cup TN \cup TS
             x == c + n + s
  <2>1. U \cap TM = {} /\ IsFiniteSet(U) /\ Cardinality(U) = x /\ x \in Nat
    BY <1>4, <1>7, <1>10
  <2> HIDE DEF U, x
  <2>2. Cardinality(U \cup TM) = x + m
    <3>1. /\ IsFiniteSet(U \cup TM)
          /\ Cardinality(U \cup TM) = Cardinality(U) + Cardinality(TM) - Cardinality(U \cap TM)
      BY <1>6, <2>1, FS_Union
    <3>2. Cardinality(U \cap TM) = 0
      BY <2>1, FS_EmptySet
    <3>3. QED BY <1>6, <1>7, <2>1, <3>1, <3>2
  <2>3. QED BY <2>2 DEF U, x
<1>12. QED BY <1>2, <1>7, <1>8, <1>11

LEMMA BooksExact ==
  ASSUME IInv
  PROVE  PoolExact
<1> SUFFICES ASSUME Running PROVE RefcountsExact /\ FreeListExact
  BY DEF PoolExact, RefcountsExact, FreeListExact
<1>1. /\ heap \in Heaps /\ next \in Nat /\ heap.ok
      /\ Books(heap, Unstepped, mh, NoHand)
  BY DEF IInv, Running, Good
<1>2. Unstepped \in Nat \ {0} /\ Len(heap.rc) \in Nat /\ DOMAIN heap.free = 1 .. Len(heap.free)
  BY <1>1 DEF Unstepped, Heaps
<1>3. ASSUME NEW b \in 0 .. (Len(heap.rc) - 1)
      PROVE  heap.rc[b + 1] = Cardinality(HeldFrom(b))
  <2>1. b \in Nat /\ b < Len(heap.rc)
    BY <1>2
  <2>2. Tally(heap, b) = heap.rc[b + 1]
    BY <2>1 DEF Tally
  <2>3. Tally(heap, b) = Owed(heap, Unstepped, mh, NoHand, b)
    BY <1>1, <2>1 DEF Books, Counted
  <2>4. QED BY <1>1, <1>2, <2>1, <2>2, <2>3, PlacesCounted
<1>4. RefcountsExact
  BY <1>3 DEF RefcountsExact
<1>5. FreeListExact
  BY <1>1, <1>2 DEF FreeListExact, Books, FreeRight, Blocks
<1>6. QED BY <1>4, <1>5

\* The books are right in every state of every run.
THEOREM BooksHold == Spec => []IInv
<1>1. Init => IInv
  BY InitRight
<1>2. IInv /\ [Next]_vars => IInv'
  BY NextRight
<1>3. QED BY <1>1, <1>2, PTL DEF Spec

\* The capture pool of engine/pike.py: a block's count is the number of the
\* threads, deferred threads and recorded matches that hold it, and the free
\* list holds each block nobody holds, once.
THEOREM PoolHolds == Spec => []PoolExact
<1>1. IInv => PoolExact
  BY BooksExact
<1>2. QED BY <1>1, BooksHold, PTL

\* The copy-on-write of pike_write: no step of a run changes the captures of a
\* thread that waits in a list, or of the recorded match.
THEOREM CopyOnWriteHolds == Spec => CopyOnWrite
<1>1. IInv /\ [Next]_vars => [phase # "idle" => WaitingIsolated]_vars
  BY NextRight
<1>2. QED BY <1>1, BooksHold, PTL DEF Spec, CopyOnWrite

-----------------------------------------------------------------------------
(* The ledger.  What a helper charges it checks first, refused or not, and *)
(* what it does to the arrays' entries is not the ledger's concern.        *)

Fields == {"clist", "nlist", "stk", "pool", "rc", "free",
           "cap", "cost", "mem", "peak", "ok"}

Weight(h, a) == h.cap[a] * EntrySize(a)
Weights(h) ==
  Weight(h, "clist") + Weight(h, "nlist") + Weight(h, "stk") + Weight(h, "pool")
    + Weight(h, "rc") + Weight(h, "free")

Figured(h) ==
  /\ DOMAIN h = Fields /\ h = [f \in Fields |-> h[f]]
  /\ h.cap \in [Arrays -> Nat] /\ h.cost \in Nat /\ h.mem \in Nat /\ h.peak \in Nat
  /\ h.ok \in BOOLEAN

Ledger(h) ==
  /\ Figured(h)
  /\ h.cost <= call.costlimit
  /\ h.mem <= h.peak /\ h.peak <= call.memlimit
  /\ h.mem = Setup(call) + Weights(h)

\* r has other entries, and h's figures.
Rebooked(h, r) ==
  /\ DOMAIN r = Fields /\ r = [f \in Fields |-> r[f]]
  /\ r.cap = h.cap /\ r.cost = h.cost /\ r.mem = h.mem /\ r.peak = h.peak
  /\ r.ok \in BOOLEAN

LInv == IInv /\ (phase \in Live => Ledger(heap))

LEMMA LedgerRebooked ==
  ASSUME NEW h, NEW r, Ledger(h), Rebooked(h, r)
  PROVE  Ledger(r)
BY DEF Ledger, Figured, Rebooked, Weights, Weight

\* An entry replaced in an array, whichever the array.
LEMMA EntriesRebooked ==
  ASSUME NEW h, Ledger(h), NEW a \in Arrays, NEW x
  PROVE  Rebooked(h, [h EXCEPT ![a] = x])
BY DEF Ledger, Figured, Rebooked, Fields, Arrays

LEMMA RoomLedger ==
  ASSUME call \in Calls, NEW h, Ledger(h), NEW a \in Arrays
  PROVE  Ledger(Room(h, a))
<1> DEFINE cap == h.cap[a]
           size == EntrySize(a)
           newcap == GrownCap(cap, Portable(a))
           taken == newcap * size
           held == cap * size
           total == h.mem + taken
           refused == [h EXCEPT !.ok = FALSE]
           grown == [h EXCEPT !.cap[a] = newcap, !.cost = @ + taken + held,
                              !.mem = total - held,
                              !.peak = IF total > @ THEN total ELSE @]
<1>1. \/ Room(h, a) = h
      \/ Room(h, a) = refused
      \/ /\ Room(h, a) = grown
         /\ ~(taken > call.memlimit - h.mem) /\ ~(taken + held > call.costlimit - h.cost)
  BY DEF Room
<1>2. Ledger(refused)
  <2>1. Rebooked(h, refused)
    BY DEF Ledger, Figured, Rebooked, Fields
  <2>2. QED BY <2>1, LedgerRebooked
<1>3. ASSUME ~(taken > call.memlimit - h.mem), ~(taken + held > call.costlimit - h.cost)
      PROVE  Ledger(grown)
  <2>1. /\ call.memlimit \in Nat /\ call.costlimit \in Nat /\ Portable(a) \in Nat
        /\ size \in Nat /\ Setup(call) \in Nat /\ \A x \in Arrays : EntrySize(x) \in Nat
    BY CallFigures
  <2>2. /\ h.cap \in [Arrays -> Nat] /\ h.cost \in Nat /\ h.mem \in Nat /\ h.peak \in Nat
        /\ DOMAIN h = Fields /\ h.ok \in BOOLEAN /\ cap \in Nat
        /\ h.cost <= call.costlimit /\ h.mem <= h.peak /\ h.peak <= call.memlimit
        /\ h.mem = Setup(call) + Weights(h)
    BY DEF Ledger, Figured
  <2>3. newcap \in Nat
    BY <2>1, <2>2, GrownCapGrows DEF GrownCap, GROW_MIN, GROW_FACTOR
  <2>4. taken \in Nat /\ held \in Nat /\ held = Weight(h, a)
    BY <2>1, <2>2, <2>3 DEF Weight
  <2> DEFINE caps == [h.cap EXCEPT ![a] = newcap]
  <2>5. /\ grown.cap = caps /\ caps \in [Arrays -> Nat]
        /\ grown.cost = h.cost + taken + held
        /\ grown.mem = total - held /\ grown.peak = (IF total > h.peak THEN total ELSE h.peak)
        /\ grown.ok = h.ok /\ DOMAIN grown = Fields /\ grown = [f \in Fields |-> grown[f]]
    <3> HIDE DEF newcap, taken, held, cap, size
    <3>1. QED BY <2>2, <2>3 DEF Fields
  <2> DEFINE w(x) == Weight(h, x)
             v(x) == Weight(grown, x)
  <2>6. \A x \in Arrays : w(x) \in Nat /\ v(x) = (IF x = a THEN taken ELSE w(x))
    <3> HIDE DEF newcap, grown
    <3>1. ASSUME NEW x \in Arrays
          PROVE  w(x) \in Nat /\ v(x) = (IF x = a THEN taken ELSE w(x))
      <4>1. caps[x] = (IF x = a THEN newcap ELSE h.cap[x]) /\ h.cap[x] \in Nat
        BY <2>2
      <4>2. EntrySize(x) \in Nat
        BY <2>1
      <4>3. w(x) \in Nat
        BY <4>1, <4>2 DEF Weight
      <4>4. v(x) = caps[x] * EntrySize(x)
        BY <2>5 DEF Weight
      <4>5. QED BY <4>1, <4>3, <4>4 DEF Weight
    <3>2. QED BY <3>1
  <2> HIDE DEF taken, held, newcap, grown, caps, size, cap, w, v
  <2>7. Weights(grown) = Weights(h) + taken - held /\ Weights(h) \in Nat /\ held <= Weights(h)
    <3>1. /\ Weights(h) = w("clist") + w("nlist") + w("stk") + w("pool") + w("rc") + w("free")
          /\ Weights(grown) = v("clist") + v("nlist") + v("stk") + v("pool") + v("rc") + v("free")
      BY DEF Weights, w, v
    <3>2. held = w(a)
      BY <2>4 DEF w
    <3>3. QED BY <2>4, <2>6, <3>1, <3>2 DEF Arrays
  <2>8. grown.mem = Setup(call) + Weights(grown) /\ grown.mem \in Nat
    BY <2>1, <2>2, <2>4, <2>5, <2>7
  <2>9. /\ grown.mem <= grown.peak /\ grown.peak <= call.memlimit /\ grown.peak \in Nat
        /\ grown.cost <= call.costlimit /\ grown.cost \in Nat
    BY <1>3, <2>1, <2>2, <2>4, <2>5
  <2>10. QED BY <2>2, <2>5, <2>8, <2>9 DEF Ledger, Figured
<1>4. QED BY <1>1, <1>2, <1>3

LEMMA PushLedger ==
  ASSUME call \in Calls, NEW h, Ledger(h), NEW a \in Arrays, NEW e
  PROVE  Ledger(Push(h, a, e))
<1> DEFINE r == Room(h, a)
           s == Append(r[a], e)
<1>1. Ledger(r)
  BY RoomLedger
<1>2. Push(h, a, e) = IF r.ok THEN [r EXCEPT ![a] = s] ELSE r
  BY DEF Push
<1> HIDE DEF r, s
<1>3. Ledger([r EXCEPT ![a] = s])
  BY <1>1, EntriesRebooked, LedgerRebooked
<1>4. QED BY <1>1, <1>2, <1>3

LEMMA PayLedger ==
  ASSUME call \in Calls, NEW h, Ledger(h), NEW work \in Nat
  PROVE  Ledger(Pay(h, work))
<1> DEFINE refused == [h EXCEPT !.ok = FALSE]
           paid == [h EXCEPT !.cost = @ + work]
<1>1. \/ Pay(h, work) = refused
      \/ Pay(h, work) = paid /\ ~(work > call.costlimit - h.cost)
  BY DEF Pay
<1>2. Rebooked(h, refused)
  BY DEF Ledger, Figured, Rebooked, Fields
<1>3. ASSUME ~(work > call.costlimit - h.cost) PROVE Ledger(paid)
  <2>1. call.costlimit \in Nat /\ h.cost \in Nat
    BY CallFigures DEF Ledger, Figured
  <2>2. /\ paid.cost = h.cost + work /\ paid.cap = h.cap /\ paid.mem = h.mem
        /\ paid.peak = h.peak /\ paid.ok = h.ok
        /\ DOMAIN paid = Fields /\ paid = [f \in Fields |-> paid[f]]
    BY DEF Ledger, Figured, Fields
  <2>3. paid.cost \in Nat /\ paid.cost <= call.costlimit
    BY <1>3, <2>1, <2>2
  <2> HIDE DEF paid
  <2>4. QED BY <2>2, <2>3 DEF Ledger, Figured, Weights, Weight
<1>4. QED BY <1>1, <1>2, <1>3, LedgerRebooked

\* The helpers that only move entries, and those that push.
LEMMA ShareLedger ==
  ASSUME NEW h, Ledger(h), NEW b
  PROVE  Ledger(Share(h, b))
<1> DEFINE x == [h.rc EXCEPT ![b + 1] = @ + 1]
<1>1. Share(h, b) \in {h, [h EXCEPT !["rc"] = x]} /\ "rc" \in Arrays
  BY DEF Share, Arrays
<1> HIDE DEF x
<1>2. QED BY <1>1, EntriesRebooked, LedgerRebooked

LEMMA DropLedger ==
  ASSUME call \in Calls, NEW h, Ledger(h), NEW b
  PROVE  Ledger(Drop(h, b))
<1> DEFINE x == [h.rc EXCEPT ![b + 1] = @ - 1]
           less == [h EXCEPT !["rc"] = x]
<1>1. Drop(h, b) \in {h, less, Push(less, "free", b)}
      /\ "rc" \in Arrays /\ "free" \in Arrays
  BY DEF Drop, Arrays
<1> HIDE DEF x
<1>2. Ledger(less)
  BY <1>1, EntriesRebooked, LedgerRebooked
<1> HIDE DEF less
<1>3. Ledger(Push(less, "free", b))
  BY <1>1, <1>2, PushLedger
<1>4. QED BY <1>1, <1>2, <1>3

LEMMA WidenedLedger ==
  ASSUME call \in Calls, NEW h, Ledger(h)
  PROVE  Ledger(Widened(h))
<1>1. Width \in Nat /\ "pool" \in Arrays
  BY CallFigures DEF Arrays
<1>2. PICK filled :
        /\ Widened(h) = filled[Width]
        /\ \A k \in 0 .. Width :
             filled[k] = IF k = 0 THEN h ELSE Push(filled[k - 1], "pool", UNSET)
  BY WidenedSteps
<1> DEFINE T == {k \in Nat : k <= Width => Ledger(filled[k])}
<1>3. 0 \in T
  BY <1>1, <1>2
<1>4. ASSUME NEW k \in Nat, k \in T PROVE k + 1 \in T
  <2> SUFFICES ASSUME k + 1 <= Width PROVE Ledger(filled[k + 1])
    OBVIOUS
  <2>1. Ledger(filled[k]) /\ filled[k + 1] = Push(filled[k], "pool", UNSET)
    BY <1>1, <1>2, <1>4
  <2>2. QED BY <1>1, <2>1, PushLedger
<1>5. Nat \subseteq T
  <2> HIDE DEF T
  <2>1. QED BY <1>3, <1>4, NatInd
<1>6. QED BY <1>1, <1>2, <1>5

LEMMA KilledLedger ==
  ASSUME call \in Calls, next \in Nat, Len(heap.clist) \in Nat, next < Len(heap.clist),
         NEW h, Ledger(h)
  PROVE  Ledger(Killed(h))
<1> DEFINE top == Len(heap.clist)
<1>1. PICK left :
        /\ Killed(h) = left[top]
        /\ \A k \in (next + 1) .. top :
             left[k] = IF k = next + 1 THEN h ELSE Drop(left[k - 1], heap.clist[k].h)
  BY KilledSteps
<1>2. top \in Nat /\ top > next
  OBVIOUS
<1> HIDE DEF top
<1> DEFINE T == {i \in Nat : next + 1 + i <= top => Ledger(left[next + 1 + i])}
<1>3. 0 \in T
  <2>1. next + 1 + 0 = next + 1 /\ next + 1 \in (next + 1) .. top
    BY <1>2
  <2>2. QED BY <1>1, <2>1
<1>4. ASSUME NEW i \in Nat, i \in T PROVE i + 1 \in T
  <2> DEFINE k == next + 1 + i
  <2>0. k \in Nat /\ next + 1 + (i + 1) = k + 1 /\ k >= next + 1 /\ k + 1 - 1 = k
    OBVIOUS
  <2> SUFFICES ASSUME k + 1 <= top PROVE Ledger(left[k + 1])
    BY <2>0
  <2>1. Ledger(left[k])
    BY <1>2, <1>4, <2>0
  <2> HIDE DEF k
  <2>2. left[k + 1] = Drop(left[k], heap.clist[k + 1].h)
    BY <1>1, <1>2, <2>0
  <2>3. QED BY <2>1, <2>2, DropLedger
<1>5. Nat \subseteq T
  <2> HIDE DEF T
  <2>1. QED BY <1>3, <1>4, NatInd
<1> DEFINE i == top - (next + 1)
<1>6. i \in Nat /\ next + 1 + i = top
  BY <1>2
<1> HIDE DEF i
<1>7. Ledger(left[next + 1 + i])
  <2>1. i \in T /\ next + 1 + i <= top
    BY <1>2, <1>5, <1>6
  <2>2. QED BY <2>1
<1>8. QED BY <1>1, <1>6, <1>7 DEF top

LEMMA TakeLedger ==
  ASSUME call \in Calls, NEW h, Ledger(h)
  PROVE  Ledger(Take(h).heap)
<1> DEFINE b == h.free[Len(h.free)]
           x == SubSeq(h.free, 1, Len(h.free) - 1)
           y == [h.rc EXCEPT ![b + 1] = 1]
           g == [h EXCEPT !["free"] = x]
           r == [g EXCEPT !["rc"] = y]
           t == [h EXCEPT !.free = SubSeq(@, 1, Len(@) - 1), !.rc[b + 1] = 1]
<1>1. Take(h).heap = (IF h.free # <<>> THEN t ELSE Widened(Push(h, "rc", 1)))
  BY DEF Take
<1>2. "rc" \in Arrays /\ "free" \in Arrays /\ DOMAIN h = Fields
  BY DEF Arrays, Ledger, Figured
<1>3. t = r
  BY <1>2 DEF Fields
<1>4. Ledger(r)
  <2> HIDE DEF b, x, y
  <2>1. Ledger(g)
    BY <1>2, EntriesRebooked, LedgerRebooked
  <2> HIDE DEF g
  <2>2. QED BY <1>2, <2>1, EntriesRebooked, LedgerRebooked
<1>5. Ledger(Widened(Push(h, "rc", 1)))
  BY <1>2, PushLedger, WidenedLedger
<1>6. QED BY <1>1, <1>3, <1>4, <1>5

LEMMA WriteLedger ==
  ASSUME call \in Calls, NEW h, Ledger(h), NEW b, NEW k, NEW value
  PROVE  Ledger(Write(h, b, k, value).heap)
<1> DEFINE paid == Pay(h, Block)
           took == Take(paid)
           fresh == took.block
           t == took.heap
           pool == [s \in DOMAIN t.pool |->
                      IF s \in Slot(fresh, 0) .. Slot(fresh, Width - 1)
                      THEN t.pool[s - Slot(fresh, 0) + Slot(b, 0)]
                      ELSE t.pool[s]]
           x == [pool EXCEPT ![Slot(fresh, k)] = value]
           y == [t.rc EXCEPT ![b + 1] = @ - 1]
           z == [h.pool EXCEPT ![Slot(b, k)] = value]
           g == [t EXCEPT !["pool"] = x]
           r == [g EXCEPT !["rc"] = y]
           own == [h EXCEPT !["pool"] = z]
<1>1. "rc" \in Arrays /\ "pool" \in Arrays /\ Block \in Nat
  BY CallFigures DEF Arrays
<1>2. Ledger(paid)
  BY <1>1, PayLedger
<1>3. Ledger(t)
  <2> HIDE DEF paid
  <2>1. QED BY <1>2, TakeLedger
<1>4. Write(h, b, k, value).heap \in {paid, t, r, own, h}
  <2>1. DOMAIN t = Fields
    BY <1>3 DEF Ledger, Figured
  <2>2. [t EXCEPT !.pool = x, !.rc[b + 1] = @ - 1] = r
    <3> HIDE DEF took, x
    <3>1. QED BY <2>1 DEF Fields
  <2>3. Write(h, b, k, value).heap \in
          {paid, t, [t EXCEPT !.pool = x, !.rc[b + 1] = @ - 1], own, h}
    BY DEF Write
  <2>4. QED BY <2>2, <2>3
<1> HIDE DEF paid, t, x, y, z
<1>5. Ledger(own)
  BY <1>1, EntriesRebooked, LedgerRebooked
<1>6. Ledger(g)
  BY <1>1, <1>3, EntriesRebooked, LedgerRebooked
<1> HIDE DEF g
<1>7. Ledger(r)
  BY <1>1, <1>6, EntriesRebooked, LedgerRebooked
<1>8. QED BY <1>2, <1>3, <1>4, <1>5, <1>7

\* Where a step leaves the ledger: still right for the heap it leaves.
LedgerOnward == phase' \in Live => Ledger(heap')

LEMMA SeedLedger ==
  ASSUME call \in Calls, NEW h, Ledger(h)
  PROVE  Ledger(Seeded(h))
<1> DEFINE took == Take(h)
           b == took.block
           paid == Pay(took.heap, Block)
           blank == [k \in DOMAIN paid.pool |->
                       IF k = Slot(b, 0) THEN pos
                       ELSE IF k \in Slot(b, 1) .. Slot(b, Width - 1) THEN UNSET
                            ELSE paid.pool[k]]
           q == [paid EXCEPT !["pool"] = blank]
<1>1. Seeded(h) \in {paid, Push(q, "stk", [pc |-> 0, h |-> b])}
  BY DEF Seeded, Defer
<1>2. "stk" \in Arrays /\ "pool" \in Arrays /\ Block \in Nat
  BY CallFigures DEF Arrays
<1>3. Ledger(paid)
  <2>1. Ledger(took.heap)
    BY TakeLedger
  <2> HIDE DEF took
  <2>2. QED BY <1>2, <2>1, PayLedger
<1> HIDE DEF paid, blank
<1>4. Ledger(q)
  BY <1>2, <1>3, EntriesRebooked, LedgerRebooked
<1> HIDE DEF q
<1>5. Ledger(Push(q, "stk", [pc |-> 0, h |-> b]))
  BY <1>2, <1>4, PushLedger
<1>6. QED BY <1>1, <1>3, <1>5

\* Every heap a handler of the step phase goes on with.
LEMMA StepLedger ==
  ASSUME call \in Calls, Ledger(heap), NEW p, NEW b, NEW m
  PROVE  /\ Ledger(Pay(heap, 1))
         /\ Ledger(Defer(Pay(heap, 1), p, b)) /\ Ledger(Drop(Pay(heap, 1), b))
         /\ Ledger(Drop(Write(Pay(heap, 1), b, 1, pos).heap, m))
<1> DEFINE one == 1
           h == Pay(heap, one)
<1>1. one \in Nat /\ "stk" \in Arrays
  BY DEF Arrays
<1> HIDE DEF one
<1>2. Ledger(h)
  BY <1>1, PayLedger
<1> HIDE DEF h
<1> DEFINE w == Write(h, b, one, pos).heap
<1>3. Ledger(w)
  BY <1>2, WriteLedger
<1> HIDE DEF w
<1>4. Ledger(Defer(h, p, b)) /\ Ledger(Drop(h, b)) /\ Ledger(Drop(w, m))
  BY <1>1, <1>2, <1>3, PushLedger, DropLedger DEF Defer
<1>5. QED BY <1>2, <1>4 DEF h, w, one

\* And every heap the closure goes on with.
LEMMA ClosureLedger ==
  ASSUME call \in Calls, Ledger(heap), NEW p, NEW q, NEW b, NEW k, NEW list \in {"clist", "nlist"}
  PROVE  /\ Ledger(Drop(Popped, b)) /\ Ledger(Drop(Paid, b))
         /\ Ledger(Defer(Paid, p, b)) /\ Ledger(Park(Paid, list, p, b))
         /\ Ledger(Forked(Paid, p, q, b)) /\ Ledger(Saved(Paid, b, k))
<1> DEFINE one == 1
           x == SubSeq(heap.stk, 1, Len(heap.stk) - 1)
           h == Popped
           g == Pay(h, one)
<1>1. one \in Nat /\ "stk" \in Arrays /\ list \in Arrays
  BY DEF Arrays
<1>2. h = [heap EXCEPT !["stk"] = x]
  BY DEF Popped
<1>3. Ledger(h)
  <2> HIDE DEF h, x
  <2>1. QED BY <1>1, <1>2, EntriesRebooked, LedgerRebooked
<1> HIDE DEF one, h
<1>4. Ledger(g)
  BY <1>1, <1>3, PayLedger
<1>5. g = Paid
  BY DEF Paid, one, h
<1> HIDE DEF g
<1>6. Ledger(Drop(h, b)) /\ Ledger(Drop(g, b)) /\ Ledger(Defer(g, p, b)) /\ Ledger(Park(g, list, p, b))
  BY <1>1, <1>3, <1>4, PushLedger, DropLedger DEF Defer, Park
<1>7. Ledger(Forked(g, p, q, b))
  <2> DEFINE s == Share(g, b)
             d == Defer(s, q, b)
  <2>1. Ledger(s)
    BY <1>4, ShareLedger
  <2> HIDE DEF s
  <2>2. Ledger(d)
    BY <1>1, <2>1, PushLedger DEF Defer
  <2> HIDE DEF d
  <2>3. Ledger(Defer(d, p, b))
    BY <1>1, <2>2, PushLedger DEF Defer
  <2>4. QED BY <2>3 DEF d, s, Forked
<1>8. Ledger(Saved(g, b, k))
  <2> DEFINE v == ClosingPos
             w == Write(g, b, k, v)
             y == w.heap
             r == Closing.pc + 1
  <2>1. Saved(g, b, k) = Defer(y, r, w.block)
    BY DEF Saved
  <2> HIDE DEF v
  <2>2. Ledger(y)
    BY <1>4, WriteLedger
  <2> HIDE DEF w, y, r
  <2>3. Ledger(Defer(y, r, w.block))
    BY <1>1, <2>2, PushLedger DEF Defer
  <2>4. QED BY <2>1, <2>3
<1>9. QED BY <1>5, <1>6, <1>7, <1>8 DEF h

LEMMA EnterLedger ==
  ASSUME IInv, PikeMatch(call)
  PROVE  LedgerOnward
<1> DEFINE s == Stale(NoCaps)
           n == Setup(call)
           r == [s EXCEPT !.cost = n, !.mem = n, !.peak = n]
<1>1. \/ phase' = "done"
      \/ heap' = r /\ ~(n > call.memlimit) /\ ~(n > call.costlimit)
  BY DEF PikeMatch, Enter
<1>2. call \in Calls /\ n \in Nat /\ call.memlimit \in Nat /\ call.costlimit \in Nat
  BY CallFigures DEF IInv
<1>3. ASSUME ~(n > call.memlimit), ~(n > call.costlimit) PROVE Ledger(r)
  <2> HIDE DEF n
  <2>1. /\ s.cap = [a \in Arrays |-> 0] /\ s.ok = TRUE
        /\ DOMAIN s = Fields /\ s = [f \in Fields |-> s[f]]
    BY DEF Stale, NoCaps, Fields
  <2> HIDE DEF s
  <2>2. /\ r.cap = [a \in Arrays |-> 0] /\ r.ok = TRUE /\ r.cost = n /\ r.mem = n /\ r.peak = n
        /\ DOMAIN r = Fields /\ r = [f \in Fields |-> r[f]]
    BY <2>1 DEF Fields
  <2> HIDE DEF r
  <2>3. \A a \in Arrays : Weight(r, a) = 0
    <3>1. ASSUME NEW a \in Arrays PROVE Weight(r, a) = 0
      <4>1. r.cap[a] = 0 /\ EntrySize(a) \in {4, 8}
        BY <1>2, <2>2, CallFigures
      <4>2. QED BY <4>1 DEF Weight
    <3>2. QED BY <3>1
  <2>4. Weights(r) = 0
    BY <2>3 DEF Weights, Arrays
  <2>5. r.cap \in [Arrays -> Nat]
    BY <2>2
  <2>6. /\ n <= call.costlimit /\ n <= n /\ n <= call.memlimit /\ n = Setup(call) + 0
    <3>1. n = Setup(call)
      BY DEF n
    <3>2. QED BY <1>2, <1>3, <3>1
  <2>7. QED BY <1>2, <2>2, <2>4, <2>5, <2>6 DEF Ledger, Figured
<1>4. QED BY <1>1, <1>3 DEF LedgerOnward, Live

\* The lists swap with their capacities, which weigh the same.
LEMMA AdvanceLedger ==
  ASSUME Ledger(heap), Advance
  PROVE  Ledger(heap')
<1> DEFINE caps == [heap.cap EXCEPT !["clist"] = heap.cap["nlist"],
                                    !["nlist"] = heap.cap["clist"]]
           r == [heap EXCEPT !.clist = heap.nlist, !.nlist = <<>>, !.cap = caps]
<1>1. /\ heap.cap \in [Arrays -> Nat] /\ DOMAIN heap = Fields
      /\ "clist" \in Arrays /\ "nlist" \in Arrays
      /\ EntrySize("clist") = EntrySize("nlist") /\ EntrySize("nlist") \in Nat
  BY DEF Ledger, Figured, Arrays, EntrySize, TH_SIZE
<1>2. heap' = r
  BY <1>1 DEF Advance, Fields
<1>3. /\ caps \in [Arrays -> Nat]
      /\ caps["clist"] = heap.cap["nlist"] /\ caps["nlist"] = heap.cap["clist"]
      /\ \A a \in Arrays \ {"clist", "nlist"} : caps[a] = heap.cap[a]
  BY <1>1
<1>4. /\ r.cap = caps /\ r.cost = heap.cost /\ r.mem = heap.mem /\ r.peak = heap.peak
      /\ r.ok = heap.ok /\ DOMAIN r = Fields /\ r = [f \in Fields |-> r[f]]
  <2> HIDE DEF caps
  <2>1. QED BY <1>1 DEF Ledger, Figured, Fields
<1> HIDE DEF caps, r
<1>5. /\ Weight(r, "clist") = Weight(heap, "nlist") /\ Weight(r, "nlist") = Weight(heap, "clist")
      /\ Weight(r, "stk") = Weight(heap, "stk") /\ Weight(r, "pool") = Weight(heap, "pool")
      /\ Weight(r, "rc") = Weight(heap, "rc") /\ Weight(r, "free") = Weight(heap, "free")
  BY <1>1, <1>3, <1>4 DEF Weight, Arrays
<1>6. Weight(heap, "clist") \in Nat /\ Weight(heap, "nlist") \in Nat
  BY <1>1 DEF Weight
<1>7. Weights(r) = Weights(heap)
  <2> DEFINE x == Weight(heap, "clist")
             y == Weight(heap, "nlist")
  <2>1. x \in Nat /\ y \in Nat /\ y + x = x + y
    BY <1>6
  <2>2. Weights(r) = y + x + Weight(heap, "stk") + Weight(heap, "pool")
                       + Weight(heap, "rc") + Weight(heap, "free")
    BY <1>5 DEF Weights
  <2>3. Weights(heap) = x + y + Weight(heap, "stk") + Weight(heap, "pool")
                          + Weight(heap, "rc") + Weight(heap, "free")
    BY DEF Weights
  <2> HIDE DEF x, y
  <2>4. QED BY <2>1, <2>2, <2>3
<1>8. QED BY <1>2, <1>3, <1>4, <1>7 DEF Ledger, Figured

LEMMA RunLedger ==
  ASSUME IInv, Ledger(heap), Run
  PROVE  LedgerOnward
<1>1. /\ call \in Calls /\ next \in Nat /\ into \in {"clist", "nlist"}
      /\ Len(heap.clist) \in Nat
  BY DEF IInv, Heaps
<1>2. CASE Seed
  <2>1. heap' \in {Seeded(heap), heap}
    BY <1>2 DEF Seed, Continue
  <2>2. QED BY <1>1, <2>1, SeedLedger DEF LedgerOnward
<1>3. CASE Clear
  <2>1. heap' = Pay(heap, Words(Re)) /\ Words(Re) \in Nat
    BY <1>1, <1>3, CallFigures DEF Clear, Continue
  <2>2. QED BY <1>1, <2>1, PayLedger DEF LedgerOnward
<1>4. CASE StepEater
  <2>1. heap' \in {Defer(Pay(heap, 1), Thread.pc + 1, Thread.h), Drop(Pay(heap, 1), Thread.h)}
    BY <1>4 DEF StepEater, Continue
  <2>2. QED BY <1>1, <2>1, StepLedger DEF LedgerOnward
<1>5. CASE StepAccept
  <2> DEFINE b == Thread.h
             d == Drop(Write(Pay(heap, 1), b, 1, pos).heap, mh)
  <2>1. heap' \in {Drop(Pay(heap, 1), b), Killed(d)} /\ next < Len(heap.clist)
    BY <1>5 DEF StepAccept, Continue
  <2>2. Ledger(d) /\ Ledger(Drop(Pay(heap, 1), b))
    BY <1>1, StepLedger
  <2> HIDE DEF d
  <2>3. Ledger(Killed(d))
    BY <1>1, <2>1, <2>2, KilledLedger
  <2>4. QED BY <2>1, <2>2, <2>3 DEF LedgerOnward
<1>6. CASE Advance
  BY <1>6, AdvanceLedger DEF LedgerOnward
<1>7. CASE Finish
  BY <1>7 DEF Finish, LedgerOnward, Live
<1>8. CASE Closure
  <2> DEFINE b == Closing.h
             p == Closing.pc
             inst == Instr(p)
             rep == At(Re.reps, inst.arg)
             first == IF rep.greedy THEN rep.body ELSE rep.after
             second == IF rep.greedy THEN rep.after ELSE rep.body
  <2>1. heap' \in {heap, Drop(Popped, b), Drop(Paid, b), Defer(Paid, p + 1, b),
                   Defer(Paid, inst.arg, b), Park(Paid, into, p, b),
                   Forked(Paid, inst.arg, inst.alt, b), Forked(Paid, first, second, b),
                   Saved(Paid, b, inst.arg)}
    BY <1>8 DEF Closure, CloseSeen, ClosePark, CloseSplit, CloseJump, CloseSave, CloseAssert,
       CloseRepEpsilon, CloseRepFork, CloseDone, Visited, Continue
  <2> HIDE DEF b, p, inst, first, second
  <2>2. QED BY <1>1, <2>1, ClosureLedger DEF LedgerOnward
<1>9. QED BY <1>2, <1>3, <1>4, <1>5, <1>6, <1>7, <1>8 DEF Run

\* The charges of engine/pike.py: no limit of the caller is ever exceeded, and
\* the memory charged is what the arrays' capacities weigh, refused or not.
THEOREM LedgerHolds == Spec => []LedgerExact
<1>1. Init => LInv
  BY InitRight DEF LInv, Init, Live
<1>2. LInv /\ [Next]_vars => LInv'
  <2> SUFFICES ASSUME LInv, [Next]_vars PROVE LInv'
    OBVIOUS
  <2>1. IInv' /\ IInv
    BY NextRight DEF LInv
  <2>2. LedgerOnward
    <3>1. CASE PikeMatch(call)
      BY <2>1, <3>1, EnterLedger
    <3>2. CASE Run
      <4>1. phase \in Live
        BY <3>2 DEF Run, Seed, Clear, StepEater, StepAccept, Advance, Finish, Closure, CloseSeen,
           ClosePark, CloseSplit, CloseJump, CloseSave, CloseAssert, CloseRepEpsilon,
           CloseRepFork, CloseDone, Visits, Live
      <4>2. QED BY <2>1, <3>2, <4>1, RunLedger DEF LInv
    <3>3. CASE Returned \/ UNCHANGED vars
      BY <3>3 DEF Returned, vars, LedgerOnward, LInv
    <3>4. QED BY <3>1, <3>2, <3>3 DEF Next
  <2>3. call' = call
    BY <2>1 DEF Next, PikeMatch, Enter, Run, Seed, Clear, StepEater, StepAccept, Advance, Finish,
       Closure, CloseSeen, ClosePark, CloseSplit, CloseJump, CloseSave, CloseAssert,
       CloseRepEpsilon, CloseRepFork, CloseDone, Visited, Returned, vars
  <2>4. Ledger(heap)' <=> Ledger(heap')
    BY <2>3 DEF Ledger
  <2>5. QED BY <2>1, <2>2, <2>4 DEF LInv, LedgerOnward, Live
<1>3. LInv => LedgerExact
  <2> SUFFICES ASSUME LInv, phase \in Live PROVE LedgerExact
    BY DEF LedgerExact
  <2>1. call \in Calls /\ Ledger(heap)
    BY DEF LInv, IInv
  <2>2. \A a \in Arrays : heap.cap[a] * EntrySize(a) \in Nat
    <3> SUFFICES ASSUME NEW a \in Arrays PROVE heap.cap[a] * EntrySize(a) \in Nat
      OBVIOUS
    <3>1. heap.cap[a] \in Nat /\ EntrySize(a) \in {4, 8}
      BY <2>1, CallFigures DEF Ledger, Figured
    <3>2. QED BY <3>1
  <2>3. Setup(call) \in Nat
    BY <2>1, CallFigures
  <2> DEFINE w(a) == heap.cap[a] * EntrySize(a)
  <2>4. /\ w("clist") \in Nat /\ w("nlist") \in Nat /\ w("stk") \in Nat
        /\ w("pool") \in Nat /\ w("rc") \in Nat /\ w("free") \in Nat
    BY <2>2 DEF Arrays
  <2>5. Weights(heap) = w("clist") + w("nlist") + w("stk") + w("pool") + w("rc") + w("free")
    BY DEF Weights, Weight
  <2>6. heap.mem = Setup(call) + w("clist") + w("nlist") + w("stk") + w("pool")
                     + w("rc") + w("free")
    <3> HIDE DEF w
    <3>1. QED BY <2>1, <2>3, <2>4, <2>5 DEF Ledger
  <2>7. QED BY <2>1, <2>6 DEF LedgerExact, Ledger
<1>4. QED BY <1>1, <1>2, <1>3, PTL DEF Spec

-----------------------------------------------------------------------------
(* Which calls are refused.                                                *)

Refused == ~Re.pike \/ call.start > Size(call)

RInv ==
  /\ call \in Calls
  /\ phase \in Live \cup {"idle", "done"}
  /\ phase \in Live => result # "BAD_INPUT" /\ ~Refused
  /\ phase = "done" => (result = "BAD_INPUT" <=> Refused)

LEMMA RefusedKept ==
  ASSUME RInv, [Next]_vars
  PROVE  RInv'
<1>1. CASE PikeMatch(call)
  BY <1>1 DEF PikeMatch, Enter, RInv, Refused, Re, Live
<1>2. CASE Run /\ ~Finish
  <2>1. /\ phase \in Live /\ call' = call /\ phase' \in Live
        /\ result' \in {result, "RESOURCE_EXCEEDED", "MATCHED"}
    BY <1>2 DEF Run, Seed, Clear, StepEater, StepAccept, Advance, Closure, CloseSeen,
       ClosePark, CloseSplit, CloseJump, CloseSave, CloseAssert, CloseRepEpsilon,
       CloseRepFork, CloseDone, Visits, Visited, Continue, Live
  <2>2. QED BY <2>1 DEF RInv, Refused, Re, Live
<1>3. CASE Finish
  BY <1>3 DEF Finish, RInv, Refused, Re, Live
<1>4. CASE Returned \/ UNCHANGED vars
  BY <1>4 DEF Returned, vars, RInv, Refused, Re, Live, Size
<1>5. QED BY <1>1, <1>2, <1>3, <1>4 DEF Next, Run

\* pike_run's prologue: where the stored flag is the one compilation computes,
\* a run refuses exactly the programs that cannot run here, and the starts
\* past the end of the subject.
THEOREM RefusalHolds ==
  ASSUME \A c \in Calls : c.re.pike <=> Eligible(c.re)
  PROVE  Spec => []RefusalExact
<1>1. Init => RInv
  BY DEF Init, RInv, Live
<1>2. RInv /\ [Next]_vars => RInv'
  BY RefusedKept
<1>3. RInv => RefusalExact
  BY DEF RInv, RefusalExact, Refused, Re
<1>4. QED BY <1>1, <1>2, <1>3, PTL DEF Spec

=============================================================================
