--------------------------- MODULE PikePriceProofs ---------------------------
(***************************************************************************)
(* The closed form of engine/pike.py's pike_price bounds every run of the  *)
(* lockstep matcher, and pike_room every array, for every set of calls of  *)
(* well-formed programs no longer than compilation allows.                 *)
(***************************************************************************)
EXTENDS PikeVMProofs

-----------------------------------------------------------------------------
(* What the program's length allows, and what is spent against it.         *)

Count == Len(Re.code)

\* The most blocks a run can have made.
Made == 4 * Count + 2

\* The most entries an array can hold when one more is pushed, plus one.
Most(a) ==
  IF a \in {"clist", "nlist"} THEN Count
  ELSE IF a = "stk" THEN 2 * Count
  ELSE IF a = "pool" THEN Made * Width ELSE Made

\* The arrays of h stay in their room, and beyond the setup and the growth of
\* its arrays no more than w has been spent.
Priced(h, w) ==
  /\ Ledger(h)
  /\ \A a \in Arrays : h.cap[a] <= PikeRoom(Re)[a]
  /\ h.cost <= Setup(call) + w + 3 * Weights(h)
  /\ h.peak <= Setup(call) + 2 * Reserved(Re)

\* There is room in array a for one more entry.
Spare(h, a) == h.ok => Len(h[a]) \in Nat /\ Len(h[a]) < Most(a)

-----------------------------------------------------------------------------
(* Rooms and products.                                                     *)

LEMMA Products ==
  ASSUME NEW a \in Nat, NEW b \in Nat, NEW c \in Nat, NEW d \in Nat, a <= b, c <= d
  PROVE  a * c <= b * d /\ a * c \in Nat
<1>1. PICK i \in Nat : b = a + i
  <2>1. b - a \in Nat /\ b = a + (b - a)
    OBVIOUS
  <2>2. QED BY <2>1
<1>2. PICK j \in Nat : d = c + j
  <2>1. d - c \in Nat /\ d = c + (d - c)
    OBVIOUS
  <2>2. QED BY <2>1
<1>3. a * c \in Nat /\ a * j \in Nat /\ i * d \in Nat
  BY <1>1, <1>2
<1>4. b * d = a * d + i * d
  BY <1>1
<1>5. a * d = a * c + a * j
  BY <1>2
<1>6. QED BY <1>3, <1>4, <1>5

\* The sizes of the program at hand.
LEMMA Sizes ==
  ASSUME call \in Calls
  PROVE  /\ Count \in Nat \ {0} /\ Count <= MaxCode /\ Width <= MaxOvec
         /\ MaxCode \in Nat /\ MaxOvec \in Nat
         /\ Width \in Nat \ {0} /\ Made \in Nat \ {0} /\ Made <= LiveBlocks
         /\ LiveBlocks \in Nat
<1>1. Count \in Nat \ {0} /\ Width \in Nat \ {0}
  BY CallFigures DEF Count
<1>2. Count <= MaxCode /\ Width <= MaxOvec /\ MaxCode \in Nat /\ MaxOvec \in Nat
  BY PikeSizesAssumption, PikeBoundsAssumption DEF Count, Width, Re
<1>3. QED BY <1>1, <1>2 DEF Made, LiveBlocks

\* The room of an array: a doubling array of the most entries it holds.
LEMMA RoomIs ==
  ASSUME call \in Calls, NEW a \in Arrays
  PROVE  /\ Most(a) \in Nat \ {0}
         /\ PikeRoom(Re)[a] = 4 + 2 * Most(a)
         /\ PikeRoom(Re)[a] <= Portable(a)
<1>1. /\ Count \in Nat \ {0} /\ Count <= MaxCode /\ Width <= MaxOvec
      /\ MaxCode \in Nat /\ MaxOvec \in Nat
      /\ Width \in Nat \ {0} /\ Made \in Nat \ {0} /\ Made <= LiveBlocks
      /\ LiveBlocks \in Nat
  BY Sizes
<1> DEFINE slots == Made * Width
           live == LiveBlocks * MaxOvec
<1>2. slots \in Nat \ {0} /\ slots <= live /\ live \in Nat
  <2>1. Made \in Nat /\ Width \in Nat
    BY <1>1
  <2>2. slots <= live /\ slots \in Nat
    BY <1>1, <2>1, Products
  <2> DEFINE one == 1
  <2>3. one \in Nat /\ one <= Made /\ one <= Width
    BY <1>1
  <2> HIDE DEF one
  <2>4. one * one <= slots
    BY <2>1, <2>3, Products
  <2>5. one * one = 1 /\ live \in Nat
    BY <1>1 DEF one
  <2> HIDE DEF slots, live
  <2>6. QED BY <2>2, <2>4, <2>5
<1>3. PikeRoom(Re)[a] =
        CASE a \in {"clist", "nlist"} -> GrowthCap(Count)
          [] a = "stk" -> GrowthCap(2 * Count)
          [] a = "pool" -> GrowthCap(slots)
          [] OTHER -> GrowthCap(Made)
  BY DEF PikeRoom, Count, Made, Width, Re
<1>4. Portable(a) =
        CASE a \in {"clist", "nlist"} -> GrowthCap(MaxCode)
          [] a = "stk" -> GrowthCap(2 * MaxCode)
          [] a = "pool" -> GrowthCap(live)
          [] OTHER -> GrowthCap(LiveBlocks)
  BY DEF Portable
<1>5. Most(a) = IF a \in {"clist", "nlist"} THEN Count
                ELSE IF a = "stk" THEN 2 * Count
                ELSE IF a = "pool" THEN slots ELSE Made
  BY DEF Most
<1> HIDE DEF slots, live
<1>6. \A n \in Nat \ {0} : GrowthCap(n) = 4 + 2 * n
  BY DEF GrowthCap, GROW_MIN, GROW_FACTOR
<1>7. Most(a) \in Nat \ {0} /\ PikeRoom(Re)[a] = GrowthCap(Most(a))
  BY <1>1, <1>2, <1>3, <1>5 DEF Arrays
<1>8. /\ MaxCode \in Nat \ {0} /\ 2 * MaxCode \in Nat \ {0} /\ live \in Nat \ {0}
      /\ LiveBlocks \in Nat \ {0} /\ 2 * Count <= 2 * MaxCode
  BY <1>1, <1>2
<1>9. \E n \in Nat \ {0} : Portable(a) = GrowthCap(n) /\ Most(a) <= n
  <2>1. CASE a \in {"clist", "nlist"}
    BY <1>1, <1>4, <1>5, <1>8, <2>1
  <2>2. CASE a = "stk"
    BY <1>4, <1>5, <1>8, <2>2
  <2>3. CASE a = "pool"
    BY <1>2, <1>4, <1>5, <1>8, <2>3
  <2>4. CASE a \in {"rc", "free"}
    BY <1>1, <1>4, <1>5, <1>8, <2>4
  <2>5. QED BY <2>1, <2>2, <2>3, <2>4 DEF Arrays
<1>10. PICK n \in Nat \ {0} : Portable(a) = GrowthCap(n) /\ Most(a) <= n
  BY <1>9
<1>11. QED BY <1>6, <1>7, <1>10

-----------------------------------------------------------------------------
(* Charging, priced.                                                       *)

\* What room an array has weighs, and all arrays together.
RoomWeight(a) == PikeRoom(Re)[a] * EntrySize(a)

LEMMA ReservedIs ==
  ASSUME call \in Calls
  PROVE  /\ \A a \in Arrays : RoomWeight(a) \in Nat /\ RoomWeight(a) <= Reserved(Re)
         /\ Reserved(Re) \in Nat
         /\ Reserved(Re) = RoomWeight("clist") + RoomWeight("nlist") + RoomWeight("stk")
                             + RoomWeight("rc") + RoomWeight("free") + RoomWeight("pool")
<1>1. ASSUME NEW a \in Arrays PROVE RoomWeight(a) \in Nat
  <2> DEFINE n == PikeRoom(Re)[a]
             s == EntrySize(a)
  <2>1. n \in Nat
    BY RoomIs
  <2>2. s \in Nat
    BY CallFigures
  <2>3. RoomWeight(a) = n * s
    BY DEF RoomWeight
  <2> HIDE DEF n, s
  <2>4. QED BY <2>1, <2>2, <2>3
<1>2. Reserved(Re) = RoomWeight("clist") + RoomWeight("nlist") + RoomWeight("stk")
                       + RoomWeight("rc") + RoomWeight("free") + RoomWeight("pool")
  BY DEF Reserved, RoomWeight
<1>3. QED BY <1>1, <1>2 DEF Arrays

\* Arrays within their room weigh no more than is reserved.
LEMMA WeightsFit ==
  ASSUME call \in Calls, NEW h, Ledger(h),
         \A a \in Arrays : h.cap[a] <= PikeRoom(Re)[a]
  PROVE  Weights(h) \in Nat /\ Weights(h) <= Reserved(Re)
<1> DEFINE w(a) == Weight(h, a)
<1>1. ASSUME NEW a \in Arrays PROVE w(a) \in Nat /\ w(a) <= RoomWeight(a)
  <2> DEFINE n == h.cap[a]
             r == PikeRoom(Re)[a]
             s == EntrySize(a)
  <2>1. n \in Nat /\ s \in Nat /\ n <= r
    <3>1. n \in Nat
      BY DEF Ledger, Figured
    <3>2. s \in Nat
      BY CallFigures
    <3>3. QED BY <3>1, <3>2
  <2>5. r \in Nat
    BY RoomIs
  <2>2. w(a) = n * s /\ RoomWeight(a) = r * s
    BY DEF Weight, RoomWeight
  <2> HIDE DEF n, r, s, w
  <2>3. s <= s
    BY <2>1
  <2>4. n * s <= r * s /\ n * s \in Nat
    BY <2>1, <2>3, <2>5, Products
  <2>6. QED BY <2>2, <2>4
<1>2. Weights(h) = w("clist") + w("nlist") + w("stk") + w("pool") + w("rc") + w("free")
  BY DEF Weights
<1> HIDE DEF w
<1>3. \A a \in Arrays : RoomWeight(a) \in Nat
  BY ReservedIs
<1>4. QED BY <1>1, <1>2, <1>3, ReservedIs DEF Arrays

LEMMA PricedRebooked ==
  ASSUME NEW h, NEW r, NEW w, Priced(h, w), Rebooked(h, r)
  PROVE  Priced(r, w)
<1>1. Ledger(r)
  BY LedgerRebooked DEF Priced
<1>2. Weights(r) = Weights(h) /\ r.cap = h.cap /\ r.cost = h.cost /\ r.peak = h.peak
  BY DEF Rebooked, Weights, Weight
<1>3. QED BY <1>1, <1>2 DEF Priced

\* A larger allowance.
LEMMA PricedMore ==
  ASSUME call \in Calls, NEW h, NEW w \in Nat, NEW v \in Nat, Priced(h, w), w <= v
  PROVE  Priced(h, v)
<1>1. h.cost \in Nat /\ Weights(h) \in Nat /\ Setup(call) \in Nat
  BY WeightsFit, CallFigures DEF Priced, Ledger, Figured
<1>2. QED BY <1>1 DEF Priced

\* An array that grows at least doubles, never past its room, and pays less
\* than three times what it gains.
LEMMA RoomPriced ==
  ASSUME call \in Calls, NEW h, NEW w \in Nat, Priced(h, w), NEW a \in Arrays, Spare(h, a)
  PROVE  Priced(Room(h, a), w)
<1> DEFINE cap == h.cap[a]
           size == EntrySize(a)
           newcap == GrownCap(cap, Portable(a))
           taken == newcap * size
           held == cap * size
           total == h.mem + taken
           refused == [h EXCEPT !.ok = FALSE]
           grown == [h EXCEPT !.cap[a] = newcap, !.cost = @ + taken + held,
                              !.mem = total - held,
                              !.peak = IF total > @ THEN total ELSE @]
<1>1. \/ Room(h, a) = h
      \/ Room(h, a) = refused
      \/ Room(h, a) = grown /\ h.ok /\ ~(Len(h[a]) < cap)
  BY DEF Room
<1>2. Ledger(Room(h, a)) /\ Ledger(h)
  BY RoomLedger DEF Priced
<1>3. Priced(refused, w)
  <2>1. Rebooked(h, refused)
    BY <1>2 DEF Ledger, Figured, Rebooked, Fields
  <2>2. QED BY <2>1, PricedRebooked
<1>4. ASSUME Room(h, a) = grown, h.ok, ~(Len(h[a]) < cap)
      PROVE  Priced(grown, w)
  <2> DEFINE most == Most(a)
             room == PikeRoom(Re)[a]
  <2>1. /\ most \in Nat \ {0} /\ room = 4 + 2 * most /\ room <= Portable(a)
        /\ Portable(a) \in Nat /\ size \in Nat /\ Setup(call) \in Nat
    <3>1. most \in Nat \ {0} /\ room = 4 + 2 * most /\ room <= Portable(a)
      BY RoomIs
    <3>2. Portable(a) \in Nat /\ size \in Nat /\ Setup(call) \in Nat
      BY CallFigures
    <3>3. QED BY <3>1, <3>2
  <2>2. /\ h.cap \in [Arrays -> Nat] /\ h.cost \in Nat /\ h.mem \in Nat /\ h.peak \in Nat
        /\ DOMAIN h = Fields /\ h = [f \in Fields |-> h[f]] /\ cap \in Nat
        /\ h.mem = Setup(call) + Weights(h)
    BY <1>2 DEF Ledger, Figured
  <2>3. cap < most
    <3>1. Len(h[a]) \in Nat /\ Len(h[a]) < most
      BY <1>4 DEF Spare
    <3> HIDE DEF cap, most
    <3>2. QED BY <1>4, <2>1, <2>2, <3>1
  <2>4. newcap \in Nat /\ 2 * cap <= newcap /\ newcap <= room
    <3> DEFINE top == Portable(a)
    <3>1. top \in Nat /\ newcap = GrownCap(cap, top)
      BY <2>1
    <3> HIDE DEF cap, most, room, top, newcap
    <3>2. newcap = (LET doubled == IF 2 * cap > 4 THEN 2 * cap ELSE 4
                    IN  IF doubled > top THEN top ELSE doubled)
      BY <3>1 DEF GrownCap, GROW_FACTOR, GROW_MIN
    <3>3. room <= top
      BY <2>1 DEF top
    <3>4. QED BY <2>1, <2>2, <2>3, <3>1, <3>2, <3>3
  <2>5. taken \in Nat /\ held \in Nat /\ 2 * held <= taken
    <3> HIDE DEF cap, newcap, size
    <3>1. 2 * cap \in Nat /\ size <= size
      BY <2>1, <2>2
    <3>2. (2 * cap) * size <= newcap * size /\ newcap * size \in Nat
      <4>1. newcap <= newcap
        BY <2>4
      <4>2. QED BY <2>1, <2>4, <3>1, <4>1, Products
    <3>3. (2 * cap) * size = 2 * (cap * size) /\ cap * size \in Nat
      BY <2>1, <2>2
    <3>4. QED BY <3>2, <3>3
  <2>6. taken <= RoomWeight(a)
    <3>1. room \in Nat /\ RoomWeight(a) = room * size
      BY <2>1 DEF RoomWeight
    <3> HIDE DEF newcap, size, room
    <3>2. size <= size
      BY <2>1
    <3>3. newcap * size <= room * size
      BY <2>1, <2>4, <3>1, <3>2, Products
    <3>4. QED BY <3>1, <3>3
  <2> DEFINE caps == [h.cap EXCEPT ![a] = newcap]
  <2>7. /\ grown.cap = caps
        /\ grown.cost = h.cost + taken + held
        /\ grown.mem = total - held /\ grown.peak = (IF total > h.peak THEN total ELSE h.peak)
    <3> HIDE DEF newcap, taken, held, cap, size
    <3>1. QED BY <2>2, <2>4 DEF Fields
  <2>8. \A x \in Arrays : caps[x] <= PikeRoom(Re)[x]
    <3>1. \A x \in Arrays : caps[x] = IF x = a THEN newcap ELSE h.cap[x]
      BY <2>2
    <3> HIDE DEF caps, newcap
    <3>2. QED BY <2>4, <3>1 DEF Priced, room
  <2>9. Weights(h) \in Nat /\ Weights(h) <= Reserved(Re) /\ taken <= Reserved(Re) /\ Reserved(Re) \in Nat
    <3>1. RoomWeight(a) \in Nat /\ RoomWeight(a) <= Reserved(Re) /\ Reserved(Re) \in Nat
      BY ReservedIs
    <3>2. Weights(h) \in Nat /\ Weights(h) <= Reserved(Re)
      BY <1>2, WeightsFit DEF Priced
    <3> HIDE DEF taken
    <3>3. QED BY <2>5, <2>6, <3>1, <3>2
  <2> HIDE DEF grown
  <2>10. Ledger(grown) /\ grown.mem = Setup(call) + Weights(grown) /\ Weights(grown) \in Nat
    <3>1. Ledger(grown)
      BY <1>2, <1>4
    <3>2. \A x \in Arrays : grown.cap[x] <= PikeRoom(Re)[x]
      BY <2>7, <2>8
    <3>3. Weights(grown) \in Nat
      BY <3>1, <3>2, WeightsFit
    <3>4. QED BY <3>1, <3>3 DEF Ledger
  <2> HIDE DEF taken, held, newcap, cap, size, caps, most, room
  <2>11. Weights(grown) = Weights(h) + taken - held
    <3> DEFINE before == Weights(h)
               after == Weights(grown)
               now == grown.mem
               then == h.mem
               base == Setup(call)
    <3>1. now \in Nat /\ then \in Nat /\ base \in Nat
      BY <2>1, <2>2, <2>10 DEF Ledger, Figured
    <3>2. before \in Nat /\ after \in Nat
      BY <2>9, <2>10
    <3>3. then = base + before /\ now = base + after
      BY <2>2, <2>10
    <3>4. now = then + taken - held
      BY <2>2, <2>5, <2>7
    <3> HIDE DEF before, after, now, then, base
    <3>5. after = before + taken - held
      BY <2>5, <3>1, <3>2, <3>3, <3>4
    <3>6. QED BY <3>5 DEF before, after
  <2>12. h.cost <= Setup(call) + w + 3 * Weights(h) /\ h.peak <= Setup(call) + 2 * Reserved(Re)
    BY DEF Priced
  <2>13. grown.cost <= Setup(call) + w + 3 * Weights(grown)
    BY <2>1, <2>2, <2>5, <2>7, <2>9, <2>11, <2>12
  <2>14. grown.peak <= Setup(call) + 2 * Reserved(Re)
    BY <2>1, <2>2, <2>5, <2>7, <2>9, <2>12
  <2>15. QED BY <2>7, <2>8, <2>10, <2>13, <2>14 DEF Priced
<1>5. QED BY <1>1, <1>3, <1>4

LEMMA PushPriced ==
  ASSUME call \in Calls, NEW h, NEW w \in Nat, Priced(h, w), NEW a \in Arrays, Spare(h, a),
         NEW e
  PROVE  Priced(Push(h, a, e), w)
<1> DEFINE r == Room(h, a)
           s == Append(r[a], e)
<1>1. Priced(r, w)
  BY RoomPriced
<1>2. Push(h, a, e) = IF r.ok THEN [r EXCEPT ![a] = s] ELSE r
  BY DEF Push
<1> HIDE DEF r, s
<1>3. Rebooked(r, [r EXCEPT ![a] = s])
  BY <1>1, EntriesRebooked DEF Priced
<1> HIDE DEF Priced
<1>4. Priced([r EXCEPT ![a] = s], w)
  BY <1>1, <1>3, PricedRebooked
<1>5. QED BY <1>1, <1>2, <1>4

LEMMA PayPriced ==
  ASSUME call \in Calls, NEW h, NEW w \in Nat, Priced(h, w), NEW x \in Nat
  PROVE  Priced(Pay(h, x), w + x)
<1> DEFINE refused == [h EXCEPT !.ok = FALSE]
           paid == [h EXCEPT !.cost = @ + x]
<1>1. Pay(h, x) = refused \/ Pay(h, x) = paid
  BY DEF Pay
<1>2. Ledger(h) /\ Ledger(Pay(h, x))
  BY PayLedger DEF Priced
<1>3. h.cost \in Nat /\ Weights(h) \in Nat /\ Setup(call) \in Nat
  BY <1>2, WeightsFit, CallFigures DEF Priced, Ledger, Figured
<1>4. CASE Pay(h, x) = refused
  <2>1. refused.cap = h.cap /\ refused.cost = h.cost /\ refused.peak = h.peak
    BY <1>2 DEF Ledger, Figured, Fields
  <2>2. Weights(refused) = Weights(h)
    BY <2>1 DEF Weights, Weight
  <2> HIDE DEF refused
  <2>3. refused.cost <= Setup(call) + (w + x) + 3 * Weights(refused)
    BY <1>3, <2>1, <2>2 DEF Priced
  <2>4. QED BY <1>2, <1>4, <2>1, <2>3 DEF Priced
<1>5. CASE Pay(h, x) = paid
  <2>1. paid.cap = h.cap /\ paid.cost = h.cost + x /\ paid.peak = h.peak
    BY <1>2 DEF Ledger, Figured, Fields
  <2>2. Weights(paid) = Weights(h)
    BY <2>1 DEF Weights, Weight
  <2> HIDE DEF paid
  <2>3. paid.cost <= Setup(call) + (w + x) + 3 * Weights(paid)
    BY <1>3, <2>1, <2>2 DEF Priced
  <2>4. QED BY <1>2, <1>5, <2>1, <2>3 DEF Priced
<1>6. QED BY <1>1, <1>4, <1>5

-----------------------------------------------------------------------------
(* How many blocks there can be.                                           *)

\* The blocks the threads of a list hold.
HeldBy(list) == {list[k].h : k \in 1 .. Len(list)}

LEMMA BlocksOfList ==
  ASSUME NEW list, Len(list) \in Nat
  PROVE  IsFiniteSet(HeldBy(list)) /\ Cardinality(HeldBy(list)) \in Nat
         /\ Cardinality(HeldBy(list)) <= Len(list)
<1> DEFINE S == 1 .. Len(list)
           T == HeldBy(list)
           f == [k \in S |-> list[k].h]
<1>1. IsFiniteSet(S) /\ Cardinality(S) = Len(list)
  <2> DEFINE one == 1
             n == Len(list)
  <2>1. one \in Int /\ n \in Int /\ n \in Nat
    OBVIOUS
  <2> HIDE DEF one, n
  <2>2. IsFiniteSet(one .. n) /\ Cardinality(one .. n) = (IF one > n THEN 0 ELSE n - one + 1)
    BY <2>1, FS_Interval
  <2>3. QED BY <2>1, <2>2 DEF one, n
<1>2. f \in Surjection(S, T)
  <2>1. f \in [S -> T] /\ \A t \in T : \E k \in S : f[k] = t
    BY DEF HeldBy
  <2>2. QED BY <2>1 DEF Surjection
<1> HIDE DEF S, T, f
<1>3. IsFiniteSet(T) /\ Cardinality(T) <= Cardinality(S)
  BY <1>1, <1>2, FS_Surjection
<1>4. Cardinality(T) \in Nat
  BY <1>3, FS_CardinalityType
<1>5. QED BY <1>1, <1>3, <1>4 DEF T

LEMMA UnionSmall ==
  ASSUME NEW S, IsFiniteSet(S), NEW T, IsFiniteSet(T)
  PROVE  /\ IsFiniteSet(S \cup T) /\ Cardinality(S \cup T) \in Nat
         /\ Cardinality(S \cup T) <= Cardinality(S) + Cardinality(T)
<1>1. IsFiniteSet(S \cup T)
      /\ Cardinality(S \cup T) = Cardinality(S) + Cardinality(T) - Cardinality(S \cap T)
  BY FS_Union
<1>2. IsFiniteSet(S \cap T)
  <2>1. S \cap T \in SUBSET S
    OBVIOUS
  <2>2. QED BY <2>1, FS_Subset
<1>3. /\ Cardinality(S) \in Nat /\ Cardinality(T) \in Nat
      /\ Cardinality(S \cap T) \in Nat /\ Cardinality(S \cup T) \in Nat
  BY <1>1, <1>2, FS_CardinalityType
<1>4. QED BY <1>1, <1>3

\* A block no thread of a list holds is not counted there.
LEMMA NotHeld ==
  ASSUME NEW list, NEW lo \in Nat \ {0}, NEW b, b \notin HeldBy(list)
  PROVE  Held(list, lo, b) = 0
<1>1. Holders(list, lo, b) = {}
  BY DEF Holders, HeldBy
<1>2. QED BY <1>1, FS_EmptySet DEF Held

\* At most one block is in hand.
Alone(hand) == \E c : \A b \in Nat : hand[b] > 0 => b = c

\* With nothing free, every block has a holder, and so there are no more
\* blocks than places to hold one from.
LEMMA BlocksHeld ==
  ASSUME NEW h, NEW lo \in Nat \ {0}, NEW m, NEW hand \in Hands,
         Good(h, lo, m, hand), h.ok, h.free = <<>>, Alone(hand)
  PROVE  Len(h.rc) <= Len(h.clist) + Len(h.nlist) + Len(h.stk) + 2
<1> DEFINE A == HeldBy(h.clist)
           B == HeldBy(h.nlist)
           C == HeldBy(h.stk)
<1>1. /\ h \in Heaps /\ Len(h.clist) \in Nat /\ Len(h.nlist) \in Nat /\ Len(h.stk) \in Nat
      /\ Len(h.rc) \in Nat /\ Len(h.free) = 0
  BY DEF Good, Heaps
<1>2. PICK c : \A b \in Nat : hand[b] > 0 => b = c
  BY DEF Alone
<1> DEFINE D == {m, c}
<1>3. /\ IsFiniteSet(A) /\ Cardinality(A) \in Nat /\ Cardinality(A) <= Len(h.clist)
      /\ IsFiniteSet(B) /\ Cardinality(B) \in Nat /\ Cardinality(B) <= Len(h.nlist)
      /\ IsFiniteSet(C) /\ Cardinality(C) \in Nat /\ Cardinality(C) <= Len(h.stk)
  BY <1>1, BlocksOfList
<1>4. IsFiniteSet(D) /\ Cardinality(D) \in Nat /\ Cardinality(D) <= 2
  <2>1. IsFiniteSet({m}) /\ Cardinality({m}) = 1
    BY FS_Singleton
  <2>2. D = {m} \cup {c}
    OBVIOUS
  <2>3. /\ IsFiniteSet({m} \cup {c})
        /\ Cardinality({m} \cup {c}) = IF c \in {m} THEN Cardinality({m}) ELSE Cardinality({m}) + 1
    BY <2>1, FS_AddElement
  <2>4. IsFiniteSet({m} \cup {c}) /\ Cardinality({m} \cup {c}) \in {1, 2}
    <3> DEFINE one == Cardinality({m})
               two == Cardinality({m} \cup {c})
    <3>1. one = 1 /\ (two = one \/ two = one + 1)
      BY <2>1, <2>3
    <3> HIDE DEF one, two
    <3>2. two \in {1, 2}
      BY <3>1
    <3>3. QED BY <2>3, <3>2 DEF two
  <2> DEFINE n == Cardinality({m} \cup {c})
  <2>5. Cardinality(D) = n
    BY <2>2
  <2> HIDE DEF n
  <2>6. n \in Nat /\ n <= 2
    BY <2>4 DEF n
  <2>7. QED BY <2>2, <2>4, <2>5, <2>6
<1> DEFINE T == ((A \cup B) \cup C) \cup D
<1>5. \A b \in Blocks(h) : b \in T
  <2> SUFFICES ASSUME NEW b \in Blocks(h), b \notin T PROVE FALSE
    OBVIOUS
  <2>1. b \in Nat /\ b < Len(h.rc) /\ h.rc[b + 1] # 0
    BY <1>1 DEF Good, Books, FreeRight, Blocks
  <2>2. Held(h.clist, lo, b) = 0
    BY NotHeld
  <2>3. Held(h.nlist, 1, b) = 0 /\ Held(h.stk, 1, b) = 0
    <3> DEFINE one == 1
    <3>1. one \in Nat \ {0}
      OBVIOUS
    <3> HIDE DEF one
    <3>2. Held(h.nlist, one, b) = 0 /\ Held(h.stk, one, b) = 0
      BY <3>1, NotHeld
    <3>3. QED BY <3>2 DEF one
  <2>4. One(m, b) = 0
    BY OneIs
  <2>5. hand[b] = 0
    BY <1>2, <2>1 DEF Hands
  <2> HIDE DEF A, B, C, D
  <2>6. Owed(h, lo, m, hand, b) = 0
    BY <2>2, <2>3, <2>4, <2>5 DEF Owed
  <2>7. Tally(h, b) = Owed(h, lo, m, hand, b)
    BY <2>1 DEF Good, Books, Counted
  <2>8. QED BY <2>1, <2>6, <2>7 DEF Tally
<1>6. IsFiniteSet(Blocks(h)) /\ Cardinality(Blocks(h)) = Len(h.rc)
  <2> DEFINE zero == 0
             n == Len(h.rc) - 1
  <2>1. zero \in Int /\ n \in Int /\ Blocks(h) = zero .. n
    BY <1>1 DEF Blocks
  <2> HIDE DEF zero, n
  <2>2. IsFiniteSet(zero .. n) /\ Cardinality(zero .. n) = (IF zero > n THEN 0 ELSE n - zero + 1)
    BY <2>1, FS_Interval
  <2>3. QED BY <1>1, <2>1, <2>2 DEF zero, n
<1> HIDE DEF A, B, C, D
<1>7. /\ IsFiniteSet(A \cup B) /\ Cardinality(A \cup B) \in Nat
      /\ Cardinality(A \cup B) <= Cardinality(A) + Cardinality(B)
  BY <1>3, UnionSmall
<1>8. /\ IsFiniteSet((A \cup B) \cup C) /\ Cardinality((A \cup B) \cup C) \in Nat
      /\ Cardinality((A \cup B) \cup C) <= Cardinality(A \cup B) + Cardinality(C)
  BY <1>3, <1>7, UnionSmall
<1>9. /\ IsFiniteSet(T) /\ Cardinality(T) \in Nat
      /\ Cardinality(T) <= Cardinality((A \cup B) \cup C) + Cardinality(D)
  BY <1>4, <1>8, UnionSmall
<1> HIDE DEF T
<1>10. Blocks(h) \in SUBSET T
  BY <1>5
<1>11. Cardinality(Blocks(h)) <= Cardinality(T)
  BY <1>9, <1>10, FS_Subset
<1>12. QED
  <2> DEFINE a == Cardinality(A)
             b == Cardinality(B)
             d == Cardinality(C)
             e == Cardinality(D)
             ab == Cardinality(A \cup B)
             abc == Cardinality((A \cup B) \cup C)
             t == Cardinality(T)
             x == Len(h.clist)
             y == Len(h.nlist)
             z == Len(h.stk)
             n == Len(h.rc)
  <2>1. /\ {a, b, d, e, ab, abc, t, x, y, z, n} \subseteq Nat
        /\ a <= x /\ b <= y /\ d <= z /\ e <= 2 /\ ab <= a + b /\ abc <= ab + d
        /\ t <= abc + e /\ n <= t
    BY <1>1, <1>3, <1>4, <1>6, <1>7, <1>8, <1>9, <1>11
  <2> HIDE DEF a, b, d, e, ab, abc, t, x, y, z, n
  <2>2. /\ a \in Nat /\ b \in Nat /\ d \in Nat /\ e \in Nat /\ ab \in Nat /\ abc \in Nat
        /\ t \in Nat /\ x \in Nat /\ y \in Nat /\ z \in Nat /\ n \in Nat
    BY <2>1
  <2>3. abc <= x + y + z
    BY <2>1, <2>2
  <2>4. n <= abc + 2
    BY <2>1, <2>2
  <2>5. n <= x + y + z + 2
    BY <2>2, <2>3, <2>4
  <2>6. QED BY <2>5 DEF n, x, y, z

-----------------------------------------------------------------------------
(* Heaps whose books are right, within w.                                  *)

Sound(h, lo, m, hand, w) ==
  /\ Good(h, lo, m, hand)
  /\ Priced(h, w)
  /\ h.ok => Len(h.rc) <= Made

LEMMA SoundMore ==
  ASSUME call \in Calls, NEW h, NEW lo, NEW m, NEW hand, NEW w \in Nat, NEW v \in Nat,
         Sound(h, lo, m, hand, w), w <= v
  PROVE  Sound(h, lo, m, hand, v)
BY PricedMore DEF Sound

LEMMA PaySound ==
  ASSUME call \in Calls, NEW h, NEW lo, NEW m, NEW hand, NEW w \in Nat,
         Sound(h, lo, m, hand, w), NEW x \in Nat
  PROVE  Sound(Pay(h, x), lo, m, hand, w + x)
<1>1. Good(h, lo, m, hand) /\ Priced(h, w) /\ h \in Heaps
  BY DEF Sound, Good
<1>2. Good(Pay(h, x), lo, m, hand)
  BY <1>1, PayGood
<1>3. Priced(Pay(h, x), w + x)
  BY <1>1, PayPriced
<1>4. Kept(h, Pay(h, x), {}) /\ (Pay(h, x).ok => h.ok)
  BY <1>1, PayKeeps
<1>5. QED BY <1>2, <1>3, <1>4 DEF Sound, Kept

\* Deferring a thread, where the stack has room for it.
LEMMA DeferSound ==
  ASSUME call \in Calls, NEW h, NEW lo \in Nat \ {0}, NEW m, NEW hand \in Hands,
         NEW w \in Nat, Sound(h, lo, m, hand, w), NEW p \in 0 .. (Len(Re.code) - 1),
         NEW b \in Nat, hand[b] > 0, Spare(h, "stk")
  PROVE  /\ Sound(Defer(h, p, b), lo, m, Less(hand, b), w)
         /\ Defer(h, p, b).ok => /\ h.ok /\ Kept(h, Defer(h, p, b), {"stk"})
                                 /\ Len(Defer(h, p, b).stk) = Len(h.stk) + 1
<1> DEFINE a == "stk"
           e == [pc |-> p, h |-> b]
           r == Push(h, a, e)
<1>1. Good(h, lo, m, hand) /\ Priced(h, w) /\ h \in Heaps
  BY DEF Sound, Good
<1>2. a \in Arrays /\ Spare(h, a) /\ e \in Threads(Re) /\ e \in Entries(a) /\ r = Defer(h, p, b)
  BY DEF Arrays, Entries, Lists, Threads, Defer
<1>3. /\ Good(Defer(h, p, b), lo, m, Less(hand, b))
      /\ Defer(h, p, b).ok => h.ok /\ Kept(h, Defer(h, p, b), {"stk"})
  BY <1>1, DeferGood
<1>4. h.stk \in Seq(Threads(Re)) /\ h[a] = h.stk /\ r[a] = r.stk
  BY <1>1 DEF Heaps
<1> HIDE DEF a, e
<1>5. Priced(r, w)
  BY <1>1, <1>2, PushPriced
<1>6. r.ok => r[a] = Append(h[a], e)
  BY <1>1, <1>2, PushKeeps
<1> HIDE DEF r
<1>7. Len(Append(h.stk, e)) = Len(h.stk) + 1
  BY <1>2, <1>4, AppendProperties
<1>8. r.ok => r.rc = h.rc /\ h.ok /\ Len(r.stk) = Len(h.stk) + 1
  BY <1>2, <1>3, <1>4, <1>6, <1>7 DEF Kept
<1>9. QED BY <1>2, <1>3, <1>5, <1>8 DEF Sound

\* Parking one, where the list has.
LEMMA ParkSound ==
  ASSUME call \in Calls, NEW h, NEW lo \in Nat \ {0}, NEW m, NEW hand \in Hands,
         NEW w \in Nat, Sound(h, lo, m, hand, w), NEW p \in 0 .. (Len(Re.code) - 1),
         NEW b \in Nat, hand[b] > 0, NEW list \in {"clist", "nlist"},
         list = "clist" => lo = 1, Spare(h, list)
  PROVE  /\ Sound(Park(h, list, p, b), lo, m, Less(hand, b), w)
         /\ Grown(h, Park(h, list, p, b), list, p, b)
<1> DEFINE e == [pc |-> p, h |-> b]
           r == Push(h, list, e)
<1>1. Good(h, lo, m, hand) /\ Priced(h, w)
  BY DEF Sound
<1>2. list \in Arrays /\ r = Park(h, list, p, b)
  BY DEF Arrays, Park
<1>3. /\ Good(Park(h, list, p, b), lo, m, Less(hand, b))
      /\ Grown(h, Park(h, list, p, b), list, p, b)
  BY <1>1, ParkGood
<1> HIDE DEF e
<1>4. Priced(r, w)
  BY <1>1, <1>2, PushPriced
<1> HIDE DEF r
<1>5. r.ok => r.rc = h.rc /\ h.ok
  <2>1. "rc" \notin {list}
    OBVIOUS
  <2>2. QED BY <1>2, <1>3, <2>1 DEF Grown, Kept
<1>6. QED BY <1>2, <1>3, <1>4, <1>5 DEF Sound

LEMMA ShareSound ==
  ASSUME NEW h, NEW lo \in Nat \ {0}, NEW m, NEW hand \in Hands, NEW w,
         Sound(h, lo, m, hand, w), NEW b \in Nat, hand[b] > 0
  PROVE  /\ Sound(Share(h, b), lo, m, More(hand, b), w)
         /\ Share(h, b).ok => h.ok /\ Kept(h, Share(h, b), {"rc"})
<1> DEFINE x == [h.rc EXCEPT ![b + 1] = @ + 1]
           n == h.rc[b + 1] + 1
<1>1. Good(h, lo, m, hand) /\ Priced(h, w) /\ Ledger(h)
  BY DEF Sound, Priced
<1>2. /\ Good(Share(h, b), lo, m, More(hand, b))
      /\ Share(h, b).ok => h.ok /\ Kept(h, Share(h, b), {"rc"})
  BY <1>1, ShareGood
<1>3. Share(h, b) \in {h, [h EXCEPT !["rc"] = x]} /\ "rc" \in Arrays
  BY DEF Share, Arrays
<1>4. ASSUME h.ok PROVE Len(Share(h, b).rc) = Len(h.rc)
  <2>1. /\ h \in Heaps /\ Len(h.rc) \in Nat /\ b \in Blocks(h) /\ h.rc[b + 1] \in Nat
    BY <1>1, <1>4, HandKnown
  <2>2. n \in Nat /\ Share(h, b) = [h EXCEPT !.rc[b + 1] = n]
    BY <1>4, <2>1 DEF Share
  <2> HIDE DEF n
  <2>3. QED BY <2>1, <2>2, CountSet DEF Recounted
<1> HIDE DEF x, n
<1>5. Priced(Share(h, b), w)
  <2>1. Rebooked(h, [h EXCEPT !["rc"] = x])
    BY <1>1, <1>3, EntriesRebooked
  <2>2. QED BY <1>1, <1>3, <2>1, PricedRebooked
<1>6. QED BY <1>1, <1>2, <1>4, <1>5 DEF Sound

\* A free list with a held block beside it is shorter than the pool.
LEMMA FreeShort ==
  ASSUME NEW h \in Heaps, FreeRight(h), NEW b \in Blocks(h), h.rc[b + 1] # 0
  PROVE  Len(h.free) \in Nat /\ Len(h.free) < Len(h.rc)
<1> DEFINE n == Len(h.free)
           S == 1 .. n
           T == Blocks(h) \ {b}
           f == [k \in S |-> h.free[k]]
           zero == 0
           one == 1
           last == Len(h.rc) - 1
<1>1. n \in Nat /\ Len(h.rc) \in Nat
  BY DEF Heaps
<1>2. /\ zero \in Int /\ one \in Int /\ n \in Int /\ last \in Int
      /\ S = one .. n /\ Blocks(h) = zero .. last
  BY <1>1 DEF Blocks
<1>3. \A k \in S : h.free[k] \in T
  BY DEF FreeRight
<1>4. f \in Injection(S, T)
  <2>1. f \in [S -> T]
    BY <1>3
  <2>2. \A j, k \in S : f[j] = f[k] => j = k
    BY DEF FreeRight
  <2>3. QED BY <2>1, <2>2 DEF Injection, IsInjective
<1> HIDE DEF n, zero, one, last
<1>5. Cardinality(one .. n) = (IF one > n THEN 0 ELSE n - one + 1)
  BY <1>2, FS_Interval
<1>6. IsFiniteSet(zero .. last) /\ Cardinality(zero .. last) = (IF zero > last THEN 0 ELSE last - zero + 1)
  BY <1>2, FS_Interval
<1>7. IsFiniteSet(Blocks(h)) /\ Cardinality(Blocks(h)) = Len(h.rc)
  BY <1>1, <1>2, <1>6 DEF zero, last
<1>8. IsFiniteSet(T) /\ Cardinality(T) = Len(h.rc) - 1
  BY <1>7, FS_RemoveElement
<1>9. Cardinality(S) = n
  BY <1>1, <1>2, <1>5 DEF one
<1> HIDE DEF S, T, f
<1>10. Cardinality(S) <= Cardinality(T)
  BY <1>4, <1>8, FS_Injection
<1>11. n < Len(h.rc)
  BY <1>1, <1>8, <1>9, <1>10
<1>12. QED BY <1>1, <1>11 DEF n

LEMMA DropSound ==
  ASSUME call \in Calls, NEW h, NEW lo \in Nat \ {0}, NEW m, NEW hand \in Hands,
         NEW w \in Nat, Sound(h, lo, m, hand, w), NEW b \in Nat, hand[b] > 0
  PROVE  /\ Sound(Drop(h, b), lo, m, Less(hand, b), w)
         /\ Drop(h, b).ok => h.ok /\ Kept(h, Drop(h, b), {"rc", "free"})
<1>1. Good(h, lo, m, hand) /\ Priced(h, w) /\ Ledger(h)
  BY DEF Sound, Priced
<1>2. /\ Good(Drop(h, b), lo, m, Less(hand, b))
      /\ Drop(h, b).ok => h.ok /\ Kept(h, Drop(h, b), {"rc", "free"})
  BY <1>1, DropGood
<1>3. CASE ~h.ok
  <2>1. Drop(h, b) = h
    BY <1>3 DEF Drop
  <2>2. QED BY <1>1, <1>2, <1>3, <2>1 DEF Sound
<1>4. CASE h.ok
  <2> DEFINE n == h.rc[b + 1] - 1
             less == [h EXCEPT !.rc[b + 1] = n]
             x == [h.rc EXCEPT ![b + 1] = n]
             into0 == "free"
  <2>1. /\ h \in Heaps /\ Len(h.rc) \in Nat /\ b \in Blocks(h)
        /\ h.rc[b + 1] \in Nat /\ h.rc[b + 1] >= hand[b]
    BY <1>1, <1>4, HandKnown
  <2>2. n \in Nat /\ b # NONE /\ h.rc[b + 1] # 0
    <3>1. hand[b] \in Nat
      BY DEF Hands
    <3>2. QED BY <2>1, <3>1 DEF NONE
  <2>3. less \in Heaps /\ Kept(h, less, {"rc"}) /\ less.ok = h.ok /\ Recounted(h, less, b, n)
    BY <2>1, <2>2, CountSet
  <2>4. less = [h EXCEPT !["rc"] = x] /\ "rc" \in Arrays
    BY DEF Arrays
  <2>5. Drop(h, b) \in {less, Push(less, into0, b)}
    BY <1>4, <2>2 DEF Drop
  <2> HIDE DEF x, less, n
  <2>6. Priced(less, w)
    <3>1. Rebooked(h, less)
      BY <1>1, <2>4, EntriesRebooked
    <3>2. QED BY <1>1, <3>1, PricedRebooked
  <2>7. into0 \in Arrays /\ b \in Entries(into0) /\ Most(into0) = Made
        /\ less[into0] = less.free
    BY DEF Arrays, Entries, Lists, Most
  <2>8. Len(less.free) \in Nat /\ Len(less.free) < Made
    <3>1. FreeRight(h)
      BY <1>1, <1>4 DEF Good, Books
    <3>2. Len(h.free) \in Nat /\ Len(h.free) < Len(h.rc) /\ Len(h.rc) <= Made
      BY <1>4, <2>1, <2>2, <3>1, FreeShort DEF Sound
    <3>3. Made \in Nat
      BY Sizes
    <3>4. less.free = h.free
      BY <2>3 DEF Kept
    <3>5. QED BY <2>1, <3>2, <3>3, <3>4
  <2> HIDE DEF into0
  <2>9. Spare(less, into0)
    BY <2>7, <2>8 DEF Spare
  <2>10. Priced(Push(less, into0, b), w)
    BY <2>6, <2>7, <2>9, PushPriced
  <2>11. Push(less, into0, b).ok => Kept(less, Push(less, into0, b), {into0})
    BY <2>3, <2>7, PushKeeps
  <2>12. Drop(h, b).ok => Len(Drop(h, b).rc) = Len(h.rc)
    <3>1. Len(less.rc) = Len(h.rc)
      BY <2>3 DEF Recounted
    <3>2. "rc" \notin {into0}
      BY DEF into0
    <3>3. QED BY <2>5, <2>11, <3>1, <3>2 DEF Kept
  <2>13. QED BY <1>2, <1>4, <2>5, <2>6, <2>10, <2>12 DEF Sound
<1>5. QED BY <1>3, <1>4

LEMMA SameLength ==
  ASSUME NEW S, NEW s \in Seq(S), NEW t \in Seq(S), DOMAIN s = DOMAIN t
  PROVE  Len(s) = Len(t)
<1>1. Len(s) \in Nat /\ Len(t) \in Nat /\ DOMAIN s = 1 .. Len(s) /\ DOMAIN t = 1 .. Len(t)
  BY LenProperties
<1> DEFINE x == Len(s)
           y == Len(t)
<1>2. x \in Nat /\ y \in Nat /\ 1 .. x = 1 .. y
  BY <1>1
<1> HIDE DEF x, y
<1>3. x = y
  <2>1. x > 0 => x \in 1 .. y
    BY <1>2
  <2>2. y > 0 => y \in 1 .. x
    BY <1>2
  <2>3. QED BY <1>2, <2>1, <2>2
<1>4. QED BY <1>3 DEF x, y

\* The pool has room for one more block.
LEMMA WidenedPriced ==
  ASSUME call \in Calls, NEW h \in Heaps, NEW w \in Nat, Priced(h, w),
         h.ok => Len(h.pool) + Width <= Made * Width
  PROVE  Priced(Widened(h), w)
<1>1. Width \in Nat /\ Made \in Nat
  BY Sizes
<1>2. PICK filled :
        /\ Widened(h) = filled[Width]
        /\ \A k \in 0 .. Width :
             filled[k] = IF k = 0 THEN h ELSE Push(filled[k - 1], "pool", UNSET)
  BY WidenedSteps
<1> DEFINE T == {k \in Nat : k <= Width => Wider(h, filled[k], k) /\ Priced(filled[k], w)}
<1>3. 0 \in T
  <2>1. filled[0] = h
    BY <1>1, <1>2
  <2>2. Len(h.pool) \in Nat
    BY DEF Heaps
  <2>3. QED BY <2>1, <2>2 DEF Wider, Kept
<1>4. ASSUME NEW k \in Nat, k \in T PROVE k + 1 \in T
  <2> SUFFICES ASSUME k + 1 <= Width
               PROVE  Wider(h, filled[k + 1], k + 1) /\ Priced(filled[k + 1], w)
    OBVIOUS
  <2> DEFINE g == filled[k]
             a == "pool"
             slots == Made * Width
  <2>1. Wider(h, g, k) /\ Priced(g, w)
    BY <1>1, <1>4
  <2>2. filled[k + 1] = Push(g, "pool", UNSET)
    BY <1>1, <1>2
  <2> HIDE DEF g
  <2>3. Wider(h, filled[k + 1], k + 1)
    BY <2>1, <2>2, WiderByOne
  <2>4. a \in Arrays /\ Most(a) = slots /\ g[a] = g.pool /\ slots \in Nat
    BY <1>1 DEF Arrays, Most
  <2>5. g.ok => Len(g.pool) \in Nat /\ Len(g.pool) < slots
    <3> SUFFICES ASSUME g.ok PROVE Len(g.pool) \in Nat /\ Len(g.pool) < slots
      OBVIOUS
    <3> DEFINE n == Len(h.pool)
    <3>1. h.ok /\ Len(g.pool) = n + k /\ n \in Nat
      BY <2>1 DEF Wider, Heaps
    <3>2. n + Width <= slots
      BY <3>1
    <3> HIDE DEF slots, n
    <3>3. QED BY <1>1, <2>4, <3>1, <3>2
  <2> HIDE DEF a, slots
  <2>6. Spare(g, a)
    BY <2>4, <2>5 DEF Spare
  <2>7. Priced(Push(g, a, UNSET), w)
    BY <2>1, <2>4, <2>6, PushPriced
  <2>8. QED BY <2>2, <2>3, <2>7 DEF a
<1>5. Nat \subseteq T
  <2> HIDE DEF T
  <2>1. QED BY <1>3, <1>4, NatInd
<1>6. QED BY <1>1, <1>2, <1>5

\* Fewer places to hold a block from than blocks allowed.
Uncrowded(h) == Len(h.clist) + Len(h.nlist) + Len(h.stk) + 2 < Made

LEMMA TakeSound ==
  ASSUME call \in Calls, NEW h, NEW lo \in Nat \ {0}, NEW m, NEW hand \in Hands,
         NEW w \in Nat, Sound(h, lo, m, hand, w), h.ok, Alone(hand), Uncrowded(h)
  PROVE  /\ Sound(Take(h).heap, lo, m, More(hand, Take(h).block), w)
         /\ Took(h, Take(h), lo, m, hand)
<1> DEFINE t == Take(h)
<1>1. /\ Good(h, lo, m, hand) /\ Priced(h, w) /\ Ledger(h) /\ h \in Heaps
      /\ Len(h.rc) \in Nat /\ h.rc \in Seq(Nat) /\ Len(h.rc) <= Made
      /\ Made \in Nat /\ Width \in Nat
  <2>1. Good(h, lo, m, hand) /\ Priced(h, w) /\ Len(h.rc) <= Made
    BY DEF Sound
  <2>2. Ledger(h) /\ h \in Heaps
    BY <2>1 DEF Priced, Good
  <2>3. h.rc \in Seq(Nat)
    BY <2>2 DEF Heaps
  <2>4. Len(h.rc) \in Nat
    BY <2>3
  <2>5. Made \in Nat /\ Width \in Nat
    BY Sizes
  <2>6. QED BY <2>1, <2>2, <2>3, <2>4, <2>5
<1>2. Took(h, t, lo, m, hand)
  BY <1>1, TakeGood
<1>3. t.heap \in Heaps /\ t.heap.rc \in Seq(Nat)
  BY <1>2 DEF Took, Good, Heaps
<1>4. CASE h.free # <<>>
  <2> DEFINE b == h.free[Len(h.free)]
             x == SubSeq(h.free, 1, Len(h.free) - 1)
             y == [h.rc EXCEPT ![b + 1] = 1]
             g == [h EXCEPT !["free"] = x]
             r == [g EXCEPT !["rc"] = y]
             q == [h EXCEPT !.free = SubSeq(@, 1, Len(@) - 1), !.rc[b + 1] = 1]
  <2>1. t.heap = q
    BY <1>4 DEF Take
  <2>2. "rc" \in Arrays /\ "free" \in Arrays /\ DOMAIN h = Fields
    BY <1>1 DEF Arrays, Ledger, Figured
  <2>3. q = r
    BY <2>2 DEF Fields
  <2>4. DOMAIN y = DOMAIN h.rc
    OBVIOUS
  <2>5. r.rc = y
    BY <2>2 DEF Fields
  <2> HIDE DEF b, x, y, q
  <2>6. Priced(g, w)
    <3>1. Rebooked(h, g)
      BY <1>1, <2>2, EntriesRebooked
    <3>2. QED BY <1>1, <3>1, PricedRebooked
  <2> HIDE DEF g
  <2>7. Priced(r, w)
    <3>1. Rebooked(g, r)
      BY <2>2, <2>6, EntriesRebooked DEF Priced
    <3>2. QED BY <2>6, <3>1, PricedRebooked
  <2> HIDE DEF r, t
  <2>8. Len(t.heap.rc) = Len(h.rc)
    BY <1>1, <1>3, <2>1, <2>3, <2>4, <2>5, SameLength
  <2>9. QED BY <1>1, <1>2, <2>1, <2>3, <2>7, <2>8 DEF Sound, Took, t
<1>5. CASE h.free = <<>>
  <2> DEFINE a == "rc"
             one == 1
             q == Push(h, a, one)
             n == Len(h.rc)
             slots == Made * Width
  <2>1. t.heap = Widened(q)
    BY <1>5 DEF Take
  <2>2. a \in Arrays /\ one \in Entries(a) /\ one \in Nat /\ h[a] = h.rc /\ Most(a) = Made
    BY DEF Arrays, Entries, Lists, Most
  <2>3. n \in Nat /\ n < Made
    <3>1. n <= Len(h.clist) + Len(h.nlist) + Len(h.stk) + 2
      BY <1>1, <1>5, BlocksHeld
    <3> DEFINE x == Len(h.clist)
               y == Len(h.nlist)
               z == Len(h.stk)
    <3>2. x \in Nat /\ y \in Nat /\ z \in Nat /\ n \in Nat
      BY <1>1 DEF Heaps
    <3>3. n <= x + y + z + 2 /\ x + y + z + 2 < Made
      BY <3>1 DEF Uncrowded
    <3> HIDE DEF x, y, z, n
    <3>4. QED BY <1>1, <3>2, <3>3
  <2>4. q.rc = q[a]
    OBVIOUS
  <2> HIDE DEF a, one
  <2>5. Spare(h, a)
    BY <2>2, <2>3 DEF Spare
  <2>6. Priced(q, w)
    BY <1>1, <2>2, <2>5, PushPriced
  <2>7. q \in Heaps /\ (q.ok => Kept(h, q, {a}) /\ q[a] = Append(h[a], one))
    BY <1>1, <2>2, PushKeeps
  <2> HIDE DEF q
  <2>8. Len(Append(h.rc, one)) = n + 1
    BY <1>1, <2>2, AppendProperties
  <2>9. q.ok => Len(q.rc) = n + 1 /\ q.pool = h.pool
    BY <2>2, <2>4, <2>7, <2>8 DEF Kept, a
  <2>10. Len(h.pool) + Width <= slots
    <3>1. Len(h.pool) = n * Width
      BY <1>1 DEF Good, Books
    <3> HIDE DEF n
    <3>2. n + 1 \in Nat /\ n + 1 <= Made /\ Width <= Width
      BY <1>1, <2>3
    <3>3. (n + 1) * Width <= slots
      BY <1>1, <3>2, Products
    <3>4. (n + 1) * Width = n * Width + Width
      BY <1>1, <2>3
    <3>5. QED BY <3>1, <3>3, <3>4
  <2>11. Priced(Widened(q), w)
    BY <2>6, <2>7, <2>9, <2>10, WidenedPriced
  <2>12. Widened(q).ok => Widened(q).rc = q.rc /\ q.ok
    BY <2>7, WidenedIs DEF Wider, Kept
  <2> HIDE DEF n, t, slots
  <2>13. Len(q.rc) = n + 1 => Len(q.rc) <= Made
    BY <1>1, <2>3
  <2>14. QED BY <1>2, <2>1, <2>9, <2>11, <2>12, <2>13 DEF Sound, Took, t
<1>6. QED BY <1>4, <1>5

LEMMA HandAlone ==
  /\ Alone(NoHand)
  /\ \A b \in Nat : Alone(More(NoHand, b))
<1>1. Alone(NoHand)
  BY EmptyHand DEF Alone
<1>2. ASSUME NEW b \in Nat PROVE Alone(More(NoHand, b))
  <2>1. \A c \in Nat : More(NoHand, b)[c] = NoHand[c] + One(b, c)
    BY EmptyHand, HandTaken
  <2>2. \A c \in Nat : NoHand[c] = 0 /\ (c # b => One(b, c) = 0)
    BY EmptyHand, OneIs
  <2>3. \A c \in Nat : More(NoHand, b)[c] > 0 => c = b
    BY <2>1, <2>2
  <2>4. QED BY <2>3 DEF Alone
<1>3. QED BY <1>1, <1>2

\* A write costs a block at most.
LEMMA WriteSound ==
  ASSUME call \in Calls, NEW h, NEW lo \in Nat \ {0}, NEW m, NEW b \in Nat,
         NEW w \in Nat, Sound(h, lo, m, More(NoHand, b), w), NEW k \in 0 .. (Width - 1),
         NEW value \in Nat, h.ok => Uncrowded(h)
  PROVE  LET wrote == Write(h, b, k, value)
         IN  /\ Sound(wrote.heap, lo, m, More(NoHand, wrote.block), w + Block)
             /\ Wrote(h, wrote, lo, m, NoHand)
<1> DEFINE wrote == Write(h, b, k, value)
           g == More(NoHand, b)
           paid == Pay(h, Block)
           took == Take(paid)
           t == took.heap
           f == took.block
           pool == [s \in DOMAIN t.pool |->
                      IF s \in Slot(f, 0) .. Slot(f, Width - 1)
                      THEN t.pool[s - Slot(f, 0) + Slot(b, 0)]
                      ELSE t.pool[s]]
           x == [pool EXCEPT ![Slot(f, k)] = value]
           y == [t.rc EXCEPT ![b + 1] = @ - 1]
           z == [h.pool EXCEPT ![Slot(b, k)] = value]
           p == [t EXCEPT !["pool"] = x]
           r == [p EXCEPT !["rc"] = y]
           own == [h EXCEPT !["pool"] = z]
<1>1. /\ "rc" \in Arrays /\ "pool" \in Arrays /\ Block \in Nat /\ NoHand \in Hands
      /\ g \in Hands /\ Alone(g)
  BY CallFigures, EmptyHand, HandOne, HandAlone DEF Arrays
<1>2. Good(h, lo, m, g) /\ Priced(h, w) /\ Ledger(h) /\ h \in Heaps
  BY DEF Sound, Good, Priced
<1>3. Wrote(h, wrote, lo, m, NoHand)
  BY <1>1, <1>2, WriteGood
<1>4. Good(wrote.heap, lo, m, More(NoHand, wrote.block))
  BY <1>3 DEF Wrote
<1>5. /\ Sound(paid, lo, m, g, w + Block) /\ w + Block \in Nat
      /\ Kept(h, paid, {}) /\ (paid.ok => h.ok)
  <2>1. Kept(h, paid, {}) /\ (paid.ok => h.ok)
    BY <1>1, <1>2, PayKeeps
  <2> HIDE DEF g
  <2>2. Sound(paid, lo, m, g, w + Block)
    BY <1>1, PaySound DEF g
  <2>3. QED BY <1>1, <2>1, <2>2
<1>6. \/ wrote.heap = h
      \/ wrote.heap = own
      \/ wrote.heap = paid
      \/ wrote.heap \in {t, r} /\ paid.ok
  <2>1. \/ wrote.heap \in {h, own, paid}
        \/ wrote.heap = t /\ paid.ok
        \/ wrote.heap = [t EXCEPT !.pool = x, !.rc[b + 1] = @ - 1] /\ paid.ok
    BY DEF Write
  <2>2. ASSUME paid.ok PROVE [t EXCEPT !.pool = x, !.rc[b + 1] = @ - 1] = r
    <3>1. Ledger(paid)
      BY <1>5 DEF Sound, Priced
    <3> HIDE DEF paid
    <3>2. Ledger(t)
      BY <3>1, TakeLedger
    <3>3. DOMAIN t = Fields
      BY <3>2 DEF Ledger, Figured
    <3> HIDE DEF took, x
    <3>4. QED BY <3>3 DEF Fields
  <2>3. QED BY <2>1, <2>2
<1>7. Priced(h, w + Block) /\ Priced(own, w + Block) /\ own.rc = h.rc /\ own.ok = h.ok
  <2>1. DOMAIN h = Fields
    BY <1>2 DEF Ledger, Figured
  <2>2. own.rc = h.rc /\ own.ok = h.ok
    BY <2>1 DEF Fields
  <2> HIDE DEF z
  <2>3. Rebooked(h, own)
    BY <1>1, <1>2, EntriesRebooked
  <2>4. Priced(own, w)
    BY <1>2, <2>3, PricedRebooked
  <2> HIDE DEF own
  <2> DEFINE v == w + Block
  <2>5. v \in Nat /\ w <= v
    BY <1>1
  <2> HIDE DEF v
  <2>6. Priced(h, v) /\ Priced(own, v)
    BY <1>2, <2>4, <2>5, PricedMore
  <2>7. QED BY <2>2, <2>6 DEF v
<1>8. CASE wrote.heap \in {h, own}
  <2>1. Priced(wrote.heap, w + Block) /\ (wrote.heap.ok => Len(wrote.heap.rc) <= Made)
    <3> HIDE DEF own, wrote
    <3>1. QED BY <1>7, <1>8 DEF Sound
  <2>2. QED BY <1>3, <1>4, <2>1 DEF Sound
<1>9. CASE wrote.heap = paid
  <2>1. Priced(wrote.heap, w + Block) /\ (wrote.heap.ok => Len(wrote.heap.rc) <= Made)
    BY <1>5, <1>9 DEF Sound
  <2>2. QED BY <1>3, <1>4, <2>1 DEF Sound
<1>10. CASE wrote.heap \in {t, r} /\ paid.ok
  <2>1. Uncrowded(paid)
    BY <1>5, <1>10 DEF Uncrowded, Kept
  <2> DEFINE v == w + Block
  <2>2. v \in Nat /\ Sound(paid, lo, m, g, v)
    BY <1>5
  <2> HIDE DEF paid, g, v
  <2>3. Sound(t, lo, m, More(g, f), v)
    BY <1>1, <1>10, <2>1, <2>2, TakeSound
  <2> HIDE DEF took
  <2>4. Priced(t, v) /\ Ledger(t) /\ t \in Heaps /\ t.rc \in Seq(Nat) /\ (t.ok => Len(t.rc) <= Made)
    BY <2>3 DEF Sound, Priced, Good, Heaps
  <2> HIDE DEF t, wrote
  <2>5. DOMAIN y = DOMAIN t.rc /\ r.rc = y /\ r.ok = t.ok
    <3>1. DOMAIN t = Fields
      BY <2>4 DEF Ledger, Figured
    <3>2. QED BY <3>1 DEF Fields
  <2> HIDE DEF x, y
  <2>6. Priced(p, v)
    <3>1. Rebooked(t, p)
      BY <1>1, <2>4, EntriesRebooked
    <3>2. QED BY <2>4, <3>1, PricedRebooked
  <2> HIDE DEF p
  <2>7. Priced(r, v)
    <3>1. Rebooked(p, r)
      BY <1>1, <2>6, EntriesRebooked DEF Priced
    <3>2. QED BY <2>6, <3>1, PricedRebooked
  <2> HIDE DEF r
  <2>8. wrote.heap \in {t, r} => wrote.heap.rc \in Seq(Nat)
    BY <1>4 DEF Good, Heaps
  <2>9. wrote.heap.ok => Len(wrote.heap.rc) <= Made
    <3>1. CASE wrote.heap = t
      BY <2>4, <3>1
    <3>2. CASE wrote.heap = r
      <4>1. Len(r.rc) = Len(t.rc)
        BY <2>4, <2>5, <2>8, <3>2, SameLength
      <4>2. QED BY <2>4, <2>5, <3>2, <4>1
    <3>3. QED BY <1>10, <3>1, <3>2
  <2>10. Priced(wrote.heap, v)
    BY <1>10, <2>4, <2>7
  <2>11. QED BY <1>3, <1>4, <2>9, <2>10 DEF Sound, v, wrote
<1>11. QED BY <1>6, <1>8, <1>9, <1>10

\* The threads behind the one that matched are dropped for nothing.
LEMMA KilledSound ==
  ASSUME call \in Calls, next \in Nat, heap.clist \in Seq(Threads(Re)),
         next < Len(heap.clist), NEW h, NEW m, NEW hand \in Hands, NEW w \in Nat,
         Sound(h, next + 2, m, hand, w), h.ok => h.clist = heap.clist
  PROVE  Sound(Killed(h), Len(heap.clist) + 1, m, hand, w)
<1> DEFINE top == Len(heap.clist)
<1>1. top \in Nat /\ top - (next + 1) \in Nat /\ top = next + 1 + (top - (next + 1))
  <2>1. top \in Nat
    BY LenProperties
  <2>2. top > next
    OBVIOUS
  <2> HIDE DEF top
  <2>3. QED BY <2>1, <2>2
<1>2. PICK left :
        /\ Killed(h) = left[top]
        /\ \A k \in (next + 1) .. top :
             left[k] = IF k = next + 1 THEN h ELSE Drop(left[k - 1], heap.clist[k].h)
  BY <1>1, KilledSteps
<1>3. \A k \in (next + 1) .. top :
        left[k] = IF k = next + 1 THEN h ELSE Drop(left[k - 1], heap.clist[k].h)
  BY <1>2
<1> HIDE DEF top
<1> DEFINE P(k) == /\ Sound(left[k], k + 1, m, hand, w)
                   /\ left[k].ok => left[k].clist = heap.clist
           T == {i \in Nat : next + 1 + i <= top => P(next + 1 + i)}
<1>4. 0 \in T
  <2> DEFINE k == next + 1
  <2>1. k \in k .. top /\ k + 1 = next + 2 /\ k + 0 = k
    BY <1>1
  <2>2. left[k] = h
    BY <1>3, <2>1
  <2> HIDE DEF k
  <2>3. P(k)
    BY <2>1, <2>2
  <2>4. QED BY <2>1, <2>3 DEF k
<1>5. ASSUME NEW i \in Nat, i \in T PROVE i + 1 \in T
  <2> DEFINE k == next + 1 + i
             g == left[k]
             b == heap.clist[k + 1].h
  <2>1. k \in Nat /\ next + 1 + (i + 1) = k + 1 /\ k >= next + 1
    OBVIOUS
  <2> SUFFICES ASSUME k + 1 <= top PROVE P(k + 1)
    BY <2>1
  <2>2. P(k)
    BY <1>1, <1>5, <2>1
  <2> HIDE DEF k
  <2>3. left[k + 1] = Drop(g, b)
    BY <1>1, <1>3, <2>1
  <2>4. Sound(g, k + 1, m, hand, w) /\ (g.ok => g.clist = heap.clist)
    BY <2>2
  <2> HIDE DEF g
  <2>5. CASE ~g.ok
    <3>1. left[k + 1] = g
      BY <2>3, <2>5 DEF Drop
    <3>2. Good(g, k + 1 + 1, m, hand)
      BY <2>4, <2>5, GoodRefused DEF Sound
    <3>3. QED BY <2>4, <2>5, <3>1, <3>2 DEF Sound
  <2>6. CASE g.ok
    <3>1. Good(g, k + 1, m, hand) /\ g.clist = heap.clist
      BY <2>4, <2>6 DEF Sound
    <3>2. k + 1 \in Nat \ {0} /\ k + 1 <= Len(g.clist) /\ k + 1 + 1 \in Nat \ {0}
      BY <1>1, <2>1, <3>1 DEF top
    <3>3. b \in Nat /\ Good(g, k + 1 + 1, m, More(hand, b))
      BY <3>1, <3>2, StepGood
    <3>4. More(hand, b) \in Hands /\ More(hand, b)[b] > 0
      <4>1. More(hand, b) \in Hands /\ \A c \in Nat : More(hand, b)[c] = hand[c] + One(b, c)
        BY <3>3, HandTaken
      <4>2. One(b, b) = 1 /\ hand[b] \in Nat
        BY <3>3, OneIs DEF Hands
      <4> HIDE DEF b
      <4>3. QED BY <3>3, <4>1, <4>2
    <3> HIDE DEF b
    <3> DEFINE lo == k + 1 + 1
               hb == More(hand, b)
    <3>5. lo \in Nat \ {0} /\ hb \in Hands /\ hb[b] > 0 /\ Sound(g, lo, m, hb, w)
      BY <2>4, <3>2, <3>3, <3>4 DEF Sound
    <3> HIDE DEF lo, hb
    <3>6. /\ Sound(Drop(g, b), lo, m, Less(hb, b), w)
          /\ Drop(g, b).ok => g.ok /\ Kept(g, Drop(g, b), {"rc", "free"})
      BY <3>3, <3>5, DropSound
    <3>7. Less(hb, b) = hand
      BY <3>3, HandBack DEF hb
    <3>8. Drop(g, b).ok => Drop(g, b).clist = heap.clist
      BY <3>1, <3>6 DEF Kept
    <3>9. QED BY <2>3, <3>6, <3>7, <3>8 DEF lo
  <2>7. QED BY <2>5, <2>6
<1>6. Nat \subseteq T
  <2> HIDE DEF T
  <2>1. QED BY <1>4, <1>5, NatInd
<1>7. P(top)
  <2> DEFINE i == top - (next + 1)
  <2>1. i \in Nat /\ top = next + 1 + i /\ i \in T
    BY <1>1, <1>6
  <2> HIDE DEF P, i
  <2>2. P(next + 1 + i)
    BY <1>1, <2>1
  <2>3. QED BY <2>1, <2>2
<1>8. QED BY <1>2, <1>7 DEF top


-----------------------------------------------------------------------------
(* Seeding, forking, and recording a match.                                *)

LEMMA SeededSound ==
  ASSUME IInv, phase = "seed", NEW w \in Nat, Sound(heap, 1, mh, NoHand, w),
         Uncrowded(heap), Spare(heap, "stk")
  PROVE  /\ Sound(Seeded(heap), 1, mh, NoHand, w + Block)
         /\ Seeded(heap).ok => Kept(heap, Seeded(heap), {"pool", "rc", "free", "stk"})
         /\ Seeded(heap).ok => Len(Seeded(heap).stk) = Len(heap.stk) + 1
<1> DEFINE took == Take(heap)
           b == took.block
           t == took.heap
           paid == Pay(took.heap, Block)
           blank == [k \in DOMAIN paid.pool |->
                       IF k = Slot(b, 0) THEN pos
                       ELSE IF k \in Slot(b, 1) .. Slot(b, Width - 1) THEN UNSET
                            ELSE paid.pool[k]]
           q == [paid EXCEPT !["pool"] = blank]
           r == Seeded(heap)
           lo == 1
           g == More(NoHand, b)
           v == w + Block
<1>1. r = IF paid.ok THEN Defer(q, 0, b) ELSE paid
  BY DEF Seeded
<1>2. /\ call \in Calls /\ heap \in Heaps /\ heap.ok /\ NoHand \in Hands /\ lo \in Nat \ {0}
      /\ Block \in Nat /\ 0 \in 0 .. (Len(Re.code) - 1) /\ v \in Nat /\ Alone(NoHand)
      /\ "pool" \in Arrays
  <2>1. call \in Calls /\ heap \in Heaps /\ heap.ok
    BY DEF IInv
  <2>2. NoHand \in Hands /\ Alone(NoHand) /\ "pool" \in Arrays
    BY EmptyHand, HandAlone DEF Arrays
  <2>3. Block \in Nat /\ 0 \in 0 .. (Len(Re.code) - 1)
    BY <2>1, CallFigures
  <2>4. QED BY <2>1, <2>2, <2>3
<1>3. /\ Good(r, lo, mh, NoHand)
      /\ r.ok => Kept(heap, r, {"pool", "rc", "free", "stk"})
  BY SeededGood
<1>4. Sound(heap, lo, mh, NoHand, w)
  OBVIOUS
<1> HIDE DEF r, lo, took
<1>5. /\ Sound(took.heap, lo, mh, More(NoHand, took.block), w)
      /\ Took(heap, took, lo, mh, NoHand)
  BY <1>2, <1>4, TakeSound DEF took
<1>6. Sound(t, lo, mh, g, w) /\ b \in Nat
  BY <1>5 DEF Took
<1>7. g \in Hands /\ g[b] > 0 /\ Less(g, b) = NoHand
  BY <1>6, HandOne
<1>8. t \in Heaps /\ (t.ok => Kept(heap, t, {"pool", "rc", "free"}))
  BY <1>5, <1>6 DEF Sound, Good, Took
<1> HIDE DEF b, g, t
<1>9. /\ Sound(paid, lo, mh, g, v) /\ Kept(t, paid, {}) /\ (paid.ok => t.ok)
  <2>1. paid = Pay(t, Block)
    BY DEF t
  <2> HIDE DEF paid
  <2>2. QED BY <1>2, <1>6, <1>8, <2>1, PaySound, PayKeeps
<1> HIDE DEF paid
<1>10. CASE ~paid.ok
  <2>1. r = paid
    BY <1>1, <1>10
  <2>2. Sound(r, lo, mh, NoHand, v)
    BY <1>3, <1>9, <2>1 DEF Sound
  <2>3. QED BY <1>10, <2>1, <2>2 DEF r, lo, v
<1>11. CASE paid.ok
  <2>1. /\ Priced(paid, v) /\ Ledger(paid) /\ paid \in Heaps /\ Good(paid, lo, mh, g)
        /\ Len(paid.rc) <= Made
    BY <1>9, <1>11 DEF Sound, Priced, Good
  <2>2. r = Defer(q, 0, b)
    BY <1>1, <1>11
  <2>3. Priced(q, v)
    <3> HIDE DEF blank
    <3>1. Rebooked(paid, q)
      BY <1>2, <2>1, EntriesRebooked
    <3> HIDE DEF q
    <3>2. QED BY <1>2, <2>1, <3>1, PricedRebooked
  <2>4. Good(q, lo, mh, g) /\ q.rc = paid.rc /\ q.stk = paid.stk /\ q.ok = paid.ok
    <3>1. DOMAIN blank = DOMAIN paid.pool
      OBVIOUS
    <3>2. paid.pool \in Seq(Values) /\ pos \in Values /\ UNSET \in Values
      <4>1. paid.pool \in Seq(Values)
        BY <2>1 DEF Heaps
      <4>2. QED BY <4>1 DEF IInv, Values
    <3>3. blank \in Seq(Values) /\ Len(blank) = Len(paid.pool)
      <4> DEFINE n == Len(paid.pool)
                 u(k) == IF k = Slot(b, 0) THEN pos
                         ELSE IF k \in Slot(b, 1) .. Slot(b, Width - 1) THEN UNSET
                              ELSE paid.pool[k]
      <4>1. n \in Nat /\ DOMAIN paid.pool = 1 .. n /\ \A k \in 1 .. n : paid.pool[k] \in Values
        BY <3>2, LenProperties, ElementOfSeq
      <4>2. \A k \in 1 .. n : u(k) \in Values
        BY <3>2, <4>1
      <4>3. blank = [k \in 1 .. n |-> u(k)]
        BY <4>1
      <4> HIDE DEF blank, n, u
      <4>4. blank \in [1 .. n -> Values]
        BY <4>2, <4>3
      <4>5. blank \in Seq(Values) /\ Len(blank) = n
        BY <4>1, <4>3, <4>4, SeqDef, LenProperties
      <4>6. QED BY <4>5 DEF n
    <3> HIDE DEF blank
    <3>4. q = [paid EXCEPT !.pool = blank]
      OBVIOUS
    <3>5. q \in Heaps /\ q.ok = paid.ok /\ Kept(paid, q, {"pool"}) /\ Good(q, lo, mh, g)
      BY <2>1, <3>3, <3>4, Rewritten
    <3>6. QED BY <3>5 DEF Kept
  <2> HIDE DEF q
  <2>5. Sound(q, lo, mh, g, v)
    BY <1>11, <2>1, <2>3, <2>4 DEF Sound
  <2>6. q.stk = heap.stk
    BY <1>8, <1>9, <1>11, <2>4 DEF Kept
  <2>7. Spare(q, "stk")
    BY <1>2, <2>6 DEF Spare
  <2> DEFINE p == 0
             m == mh
             d == Defer(q, p, b)
  <2>8. /\ p \in 0 .. (Len(Re.code) - 1) /\ r = d
        /\ call \in Calls /\ lo \in Nat \ {0} /\ g \in Hands /\ v \in Nat
        /\ Sound(q, lo, m, g, v) /\ b \in Nat /\ g[b] > 0 /\ Spare(q, "stk")
    BY <1>2, <1>6, <1>7, <2>2, <2>5, <2>7
  <2> HIDE DEF p, v, m
  <2>9. /\ Sound(d, lo, m, Less(g, b), v)
        /\ d.ok => Len(d.stk) = Len(q.stk) + 1
    BY <2>8, DeferSound
  <2>10. QED BY <1>3, <1>7, <2>6, <2>8, <2>9 DEF r, lo, v, m
<1>12. QED BY <1>10, <1>11

\* Two threads deferred, where the stack has room for both.
LEMMA ForkedSound ==
  ASSUME call \in Calls, NEW h, NEW lo \in Nat \ {0}, NEW m, NEW w \in Nat, NEW b \in Nat,
         Sound(h, lo, m, More(NoHand, b), w), NEW p \in 0 .. (Len(Re.code) - 1),
         NEW q \in 0 .. (Len(Re.code) - 1), Spare(h, "stk"),
         h.ok => Len(h.stk) + 1 < Most("stk")
  PROVE  /\ Sound(Forked(h, p, q, b), lo, m, NoHand, w)
         /\ Forked(h, p, q, b).ok =>
              /\ Kept(h, Forked(h, p, q, b), {"rc", "stk"})
              /\ Len(Forked(h, p, q, b).stk) = Len(h.stk) + 2
<1> DEFINE g == More(NoHand, b)
           g2 == More(g, b)
           s == Share(h, b)
           d == Defer(s, q, b)
           r == Defer(d, p, b)
<1>1. g \in Hands /\ g[b] > 0 /\ Less(g, b) = NoHand
  BY HandOne
<1>2. g2 \in Hands /\ g2[b] > 0 /\ Less(g2, b) = g
  <2>1. g2 \in Hands /\ \A c \in Nat : g2[c] = g[c] + One(b, c)
    BY <1>1, HandTaken
  <2>2. One(b, b) = 1 /\ g[b] \in Nat
    BY <1>1, OneIs DEF Hands
  <2>3. Less(g2, b) = g
    BY <1>1, HandBack
  <2> HIDE DEF g
  <2>4. QED BY <1>1, <2>1, <2>2, <2>3
<1>3. /\ Sound(s, lo, m, g2, w)
      /\ s.ok => h.ok /\ Kept(h, s, {"rc"})
  <2>1. Sound(h, lo, m, g, w)
    OBVIOUS
  <2> HIDE DEF g
  <2>2. QED BY <1>1, <2>1, ShareSound
<1> HIDE DEF g, g2, s
<1>4. Spare(s, "stk")
  BY <1>3 DEF Spare, Kept
<1>5. /\ Sound(d, lo, m, g, w)
      /\ d.ok => /\ s.ok /\ Kept(s, d, {"stk"})
                 /\ Len(d.stk) = Len(s.stk) + 1
  BY <1>2, <1>3, <1>4, DeferSound
<1> HIDE DEF d
<1>6. d.ok => h.ok /\ Len(d.stk) = Len(h.stk) + 1 /\ Kept(h, d, {"rc", "stk"})
  BY <1>3, <1>5 DEF Kept
<1>7. Spare(d, "stk")
  BY <1>6 DEF Spare
<1>8. /\ Sound(r, lo, m, NoHand, w)
      /\ r.ok => /\ d.ok /\ Kept(d, r, {"stk"})
                 /\ Len(r.stk) = Len(d.stk) + 1
  BY <1>1, <1>5, <1>7, DeferSound
<1> HIDE DEF r
<1>9. r.ok => Kept(h, r, {"rc", "stk"})
  BY <1>6, <1>8 DEF Kept
<1>10. r.ok => Len(r.stk) = Len(h.stk) + 2
  <2>1. r.ok => /\ Len(r.stk) = Len(d.stk) + 1 /\ Len(d.stk) = Len(h.stk) + 1 /\ h.ok
                /\ Len(h.stk) \in Nat
    BY <1>6, <1>8 DEF Spare
  <2> DEFINE x == Len(r.stk)
             y == Len(d.stk)
             z == Len(h.stk)
  <2>2. r.ok => x = y + 1 /\ y = z + 1 /\ z \in Nat
    BY <2>1
  <2> HIDE DEF x, y, z
  <2>3. r.ok => x = z + 2
    BY <2>2
  <2>4. QED BY <2>3 DEF x, z
<1>11. QED BY <1>8, <1>9, <1>10 DEF Forked, r, d, s

\* The match recorded before is dropped for nothing.
LEMMA MatchSound ==
  ASSUME call \in Calls, mh \in Matches, NEW h, NEW lo \in Nat \ {0}, NEW hand \in Hands,
         NEW w \in Nat, Sound(h, lo, mh, hand, w)
  PROVE  /\ Sound(Drop(h, mh), lo, NONE, hand, w)
         /\ Drop(h, mh).ok => h.ok /\ Kept(h, Drop(h, mh), {"rc", "free"})
<1>1. CASE mh = NONE
  <2>1. Drop(h, mh) = h
    BY <1>1, DropNone
  <2>2. QED BY <1>1, <2>1 DEF Kept
<1>2. CASE mh # NONE
  <2>1. mh \in Nat
    BY <1>2 DEF Matches
  <2> DEFINE g == More(hand, mh)
  <2>2. g \in Hands /\ g[mh] > 0 /\ Less(g, mh) = hand
    <3>1. g \in Hands /\ \A c \in Nat : g[c] = hand[c] + One(mh, c)
      BY <2>1, HandTaken
    <3>2. One(mh, mh) = 1 /\ hand[mh] \in Nat
      BY <2>1, OneIs DEF Hands
    <3>3. Less(g, mh) = hand
      BY <2>1, HandBack
    <3>4. QED BY <2>1, <3>1, <3>2, <3>3
  <2>3. Good(h, lo, NONE, g)
    BY <2>1, MatchGood DEF Sound
  <2>4. Sound(h, lo, NONE, g, w)
    BY <2>3 DEF Sound
  <2> HIDE DEF g
  <2>5. QED BY <2>1, <2>2, <2>4, DropSound
<1>3. QED BY <1>1, <1>2

-----------------------------------------------------------------------------
(* The allowance.  A list in the making has paid one for every address seen *)
(* and a block for every capture saved; a position pays for two lists, one  *)
(* step of every thread, the marks, the seed and the match.                 *)

Saves(re, S) == {q \in 1 .. Len(re.code) : re.code[q].op = "OpSave" /\ q - 1 \in S}
Cell(re) == Novec(re) * REG_SIZE
Gen(re, S) == Cardinality(S) + Cell(re) * Cardinality(Saves(re, S))
Full(re) == Gen(re, 0 .. (Len(re.code) - 1))
PerPos(re) == Len(re.code) + Full(re) + 2 * Cell(re) + Words(re)
Done(c, k) == (k - c.start) * PerPos(c.re)
Whole(c) == Done(c, Size(c) + 1)

LEMMA SavesFinite ==
  ASSUME call \in Calls, NEW S
  PROVE  IsFiniteSet(Saves(Re, S)) /\ Cardinality(Saves(Re, S)) \in Nat
<1> DEFINE one == 1
           n == Count
<1>1. one \in Int /\ n \in Int /\ one .. n = 1 .. Len(Re.code)
  BY Sizes DEF Count
<1> HIDE DEF one
<1>2. IsFiniteSet(one .. n)
  BY <1>1, FS_Interval
<1>3. Saves(Re, S) \in SUBSET (one .. n)
  BY <1>1 DEF Saves
<1> HIDE DEF n
<1>4. QED BY <1>2, <1>3, FS_Subset, FS_CardinalityType

LEMMA SavesInside ==
  ASSUME call \in Calls, NEW S, NEW T, S \subseteq T
  PROVE  Cardinality(Saves(Re, S)) <= Cardinality(Saves(Re, T))
<1>1. Saves(Re, S) \in SUBSET Saves(Re, T)
  BY DEF Saves
<1>2. QED BY <1>1, SavesFinite, FS_Subset

LEMMA AddressesFinite ==
  ASSUME call \in Calls, NEW S \in SUBSET (0 .. (Count - 1))
  PROVE  /\ IsFiniteSet(S) /\ Cardinality(S) \in Nat /\ Cardinality(S) <= Count
         /\ Cardinality(0 .. (Count - 1)) = Count
<1> DEFINE zero == 0
           last == Count - 1
<1>1. zero \in Int /\ last \in Int /\ Count \in Nat /\ zero <= last + 1
      /\ last - zero + 1 = Count /\ (zero > last => Count = 0)
  BY Sizes
<1>2. S \in SUBSET (zero .. last)
  OBVIOUS
<1>3. IsFiniteSet(zero .. last) /\ Cardinality(zero .. last) = Count
  <2> HIDE DEF zero, last
  <2>1. /\ IsFiniteSet(zero .. last)
        /\ Cardinality(zero .. last) = (IF zero > last THEN 0 ELSE last - zero + 1)
    BY <1>1, FS_Interval
  <2>2. QED BY <1>1, <2>1
<1>4. zero .. last = 0 .. (Count - 1)
  OBVIOUS
<1> HIDE DEF zero, last
<1>5. IsFiniteSet(S) /\ Cardinality(S) <= Cardinality(zero .. last) /\ Cardinality(S) \in Nat
  BY <1>2, <1>3, FS_Subset, FS_CardinalityType
<1>6. QED BY <1>3, <1>4, <1>5

\* What a list in the making has paid is a number, and at most the full price.
LEMMA GenIs ==
  ASSUME call \in Calls, NEW S \in SUBSET (0 .. (Count - 1))
  PROVE  Gen(Re, S) \in Nat /\ Gen(Re, S) <= Full(Re) /\ Full(Re) \in Nat
<1> DEFINE T == 0 .. (Count - 1)
           x == Cardinality(S)
           y == Cardinality(T)
           u == Cardinality(Saves(Re, S))
           v == Cardinality(Saves(Re, T))
           b == Cell(Re)
<1>1. x \in Nat /\ y \in Nat /\ x <= y
  BY AddressesFinite, Sizes
<1>2. u \in Nat /\ v \in Nat /\ u <= v
  <2> HIDE DEF T
  <2>1. S \subseteq T
    BY DEF T
  <2>2. QED BY <2>1, SavesFinite, SavesInside
<1>3. b \in Nat
  <2>1. b = Block
    BY DEF Cell, Block, Width
  <2>2. QED BY <2>1, CallFigures
<1>4. Gen(Re, S) = x + b * u /\ Full(Re) = y + b * v
  BY DEF Gen, Full, Count
<1> HIDE DEF x, y, u, v, b
<1>5. b * u <= b * v /\ b * u \in Nat /\ b * v \in Nat
  BY <1>2, <1>3, Products
<1>6. QED BY <1>1, <1>4, <1>5

\* A new address adds one, and a block if it saves a capture.
LEMMA GenGrows ==
  ASSUME call \in Calls, NEW S \in SUBSET (0 .. (Count - 1)), NEW p \in 0 .. (Count - 1),
         p \notin S
  PROVE  /\ S \cup {p} \in SUBSET (0 .. (Count - 1))
         /\ Cardinality(S) < Count /\ Cardinality(S \cup {p}) = Cardinality(S) + 1
         /\ Gen(Re, S \cup {p}) = Gen(Re, S) + 1 + (IF Instr(p).op = "OpSave" THEN Block ELSE 0)
<1> DEFINE T == S \cup {p}
           A == Saves(Re, S)
           B == Saves(Re, T)
           b == Cell(Re)
<1>1. T \in SUBSET (0 .. (Count - 1))
  OBVIOUS
<1>2. /\ IsFiniteSet(S) /\ Cardinality(S) \in Nat
      /\ Cardinality(T) \in Nat /\ Cardinality(T) <= Count
  BY <1>1, AddressesFinite
<1>3. Cardinality(T) = Cardinality(S) + 1 /\ Cardinality(S) < Count
  <2>1. Cardinality(T) = Cardinality(S) + 1
    BY <1>2, FS_AddElement
  <2> DEFINE x == Cardinality(S)
             y == Cardinality(T)
  <2>2. x \in Nat /\ y = x + 1 /\ y <= Count /\ Count \in Nat
    BY <1>2, <2>1, Sizes
  <2> HIDE DEF x, y
  <2>3. x < Count
    BY <2>2
  <2>4. QED BY <2>1, <2>3 DEF x
<1>4. b = Block /\ b \in Nat
  <2>1. b = Block
    BY DEF Cell, Block, Width
  <2>2. QED BY <2>1, CallFigures
<1>5. Count \in Nat /\ p \in Nat /\ p + 1 \in 1 .. Count /\ p + 1 - 1 = p
  BY Sizes
<1>6. IsFiniteSet(A) /\ Cardinality(A) \in Nat
  BY SavesFinite
<1>7. CASE Instr(p).op = "OpSave"
  <2>1. B = A \cup {p + 1} /\ p + 1 \notin A
    BY <1>5, <1>7 DEF Saves, Instr, At, Count
  <2>2. Cardinality(B) = Cardinality(A) + 1
    BY <1>6, <2>1, FS_AddElement
  <2> DEFINE u == Cardinality(A)
             x == Cardinality(S)
  <2>3. Gen(Re, T) = x + 1 + b * (u + 1) /\ Gen(Re, S) = x + b * u /\ u \in Nat /\ x \in Nat
    BY <1>2, <1>3, <1>6, <2>2 DEF Gen
  <2> HIDE DEF u, x, b
  <2>4. b * (u + 1) = b * u + b /\ b * u \in Nat
    BY <1>4, <2>3
  <2>5. Gen(Re, T) = Gen(Re, S) + 1 + b
    BY <1>4, <2>3, <2>4
  <2>6. Gen(Re, T) = Gen(Re, S) + 1 + (IF Instr(p).op = "OpSave" THEN Block ELSE 0)
    BY <1>4, <1>7, <2>5
  <2>7. QED BY <1>1, <1>3, <2>6
<1>8. CASE Instr(p).op # "OpSave"
  <2>1. B = A
    BY <1>5, <1>8 DEF Saves, Instr, At, Count
  <2> DEFINE u == Cardinality(A)
             x == Cardinality(S)
  <2>2. Gen(Re, T) = x + 1 + b * u /\ Gen(Re, S) = x + b * u /\ u \in Nat /\ x \in Nat
    BY <1>2, <1>3, <1>6, <2>1 DEF Gen
  <2> HIDE DEF u, x, b
  <2>3. b * u \in Nat
    BY <1>4, <2>2
  <2>4. Gen(Re, T) = Gen(Re, S) + 1 + 0
    BY <1>4, <2>2, <2>3
  <2>5. Gen(Re, T) = Gen(Re, S) + 1 + (IF Instr(p).op = "OpSave" THEN Block ELSE 0)
    BY <1>8, <2>4
  <2>6. QED BY <1>1, <1>3, <2>5
<1>9. QED BY <1>7, <1>8

\* Nothing seen, nothing paid.
LEMMA GenNone ==
  ASSUME call \in Calls
  PROVE  Gen(Re, {}) = 0 /\ {} \in SUBSET (0 .. (Count - 1)) /\ Cardinality({}) = 0
<1>1. Saves(Re, {}) = {} /\ Cardinality({}) = 0
  BY FS_EmptySet DEF Saves
<1>2. Cell(Re) \in Nat
  BY CallFigures DEF Cell, Block, Width
<1>3. QED BY <1>1, <1>2 DEF Gen

\* The figures a position is made of.
LEMMA PerPosIs ==
  ASSUME call \in Calls
  PROVE  /\ PerPos(Re) = Count + Full(Re) + 2 * Block + Words(Re) /\ PerPos(Re) \in Nat
         /\ Count \in Nat \ {0} /\ Full(Re) \in Nat /\ Block \in Nat /\ Words(Re) \in Nat
         /\ Size(call) \in Nat /\ call.start \in Nat
<1>1. Count \in Nat \ {0} /\ Block \in Nat /\ Words(Re) \in Nat
  BY Sizes, CallFigures
<1>2. Full(Re) \in Nat
  BY GenIs, GenNone
<1>3. PerPos(Re) = Count + Full(Re) + 2 * Block + Words(Re)
  BY DEF PerPos, Count, Cell, Block, Width
<1>4. Size(call) \in Nat /\ call.start \in Nat
  <2>1. call \in CallTypes
    BY PikeCallsAssumption
  <2>2. QED BY <2>1 DEF CallTypes, Size
<1>5. PerPos(Re) \in Nat
  BY <1>1, <1>2, <1>3
<1>6. QED BY <1>1, <1>2, <1>3, <1>4, <1>5

LEMMA DoneIs ==
  ASSUME call \in Calls, NEW k \in Nat, call.start <= k
  PROVE  /\ Done(call, k) \in Nat /\ Done(call, k + 1) = Done(call, k) + PerPos(Re)
         /\ \A j \in Nat : k <= j => Done(call, k) <= Done(call, j)
<1> DEFINE n == PerPos(Re)
           s == call.start
<1>1. n \in Nat /\ s \in Nat /\ s <= k /\ k + 1 \in Nat
  BY PerPosIs
<1>2. \A j \in Nat : Done(call, j) = (j - s) * n
  BY DEF Done, Re
<1> HIDE DEF n, s
<1>3. (k - s) * n \in Nat /\ (k + 1 - s) * n = (k - s) * n + n
  BY <1>1
<1>4. ASSUME NEW j \in Nat, k <= j
      PROVE  (k - s) * n <= (j - s) * n
  <2>1. k - s \in Nat /\ j - s \in Nat /\ k - s <= j - s /\ n <= n
    BY <1>1, <1>4
  <2> DEFINE x == k - s
             y == j - s
  <2> HIDE DEF x, y
  <2>2. x * n <= y * n
    BY <1>1, <2>1, Products DEF x, y
  <2>3. QED BY <2>2 DEF x, y
<1>5. Done(call, k) = (k - s) * n /\ Done(call, k + 1) = (k + 1 - s) * n
  BY <1>1, <1>2
<1>6. \A j \in Nat : k <= j => Done(call, k) <= Done(call, j)
  BY <1>2, <1>4
<1>7. Done(call, k) \in Nat /\ Done(call, k + 1) = Done(call, k) + n
  BY <1>3, <1>5
<1>8. QED BY <1>6, <1>7 DEF n

-----------------------------------------------------------------------------
(* The inductive invariant.                                                *)

\* Paid when a position's threads begin to be stepped.
Listed(c, p) == Done(c, p) + Cell(c.re) + Full(c.re) + Words(c.re)

\* The most that may have been spent beyond the setup and the growth of the
\* arrays: at a position, with the marks, the thread and the list it has got to.
DueAt(c, ph, in, p, s, n, len) ==
  CASE ph = "seed" -> Done(c, p) + Gen(c.re, s)
    [] ph = "clear" \/ (ph = "closure" /\ in = "clist") ->
         Done(c, p) + Cell(c.re) + Gen(c.re, s)
    [] ph = "step" ->
         Listed(c, p) + n + (IF n >= len THEN Cell(c.re) ELSE 0) + Gen(c.re, s)
    [] ph = "closure" /\ in = "nlist" -> Listed(c, p) + n + 1 + Gen(c.re, s)
    [] OTHER -> Whole(c)

\* The scan is inside the subject, the lists hold no more threads than
\* addresses were seen, and the stack one more; at the end of the subject the
\* next list stays empty.
PlacedAt(c, ph, in, p, s, n, h) ==
  LET filling == ph \in {"seed", "clear"} \/ (ph = "closure" /\ in = "clist")
      stepping == ph = "step" \/ (ph = "closure" /\ in = "nlist")
  IN  /\ s \in SUBSET (0 .. (Len(c.re.code) - 1))
      /\ c.start <= p /\ p <= Size(c)
      /\ Len(h.rc) <= 4 * Len(c.re.code) + 2
      /\ ph # "closure" => h.stk = <<>>
      /\ ph = "closure" => Len(h.stk) <= Cardinality(s) + 1
      /\ filling => h.nlist = <<>> /\ Len(h.clist) <= Cardinality(s)
      /\ stepping => Len(h.clist) <= Len(c.re.code) /\ Len(h.nlist) <= Cardinality(s)
      /\ ph = "step" => n <= Len(h.clist) /\ (p = Size(c) => s = {})
      /\ ph = "closure" /\ in = "nlist" => n < Len(h.clist) /\ p < Size(c)

Due == DueAt(call, phase, into, pos, seen, next, Len(heap.clist))
Placed == PlacedAt(call, phase, into, pos, seen, next, heap)

\* A call that came back cost no more than its program's certificate.
Certified ==
  phase = "done" /\ result # "BAD_INPUT" =>
    /\ use.cost <= PolyAt(PikeCert(Re).cost, Size(call))
    /\ use.mem <= PolyAt(PikeCert(Re).mem, Size(call))

PriceInv ==
  /\ IInv
  /\ phase \in Live => Priced(heap, Due)
  /\ phase \in Live \ {"stop"} => Placed
  /\ Certified

\* What the next state must show, of the call it began with.
PriceOnward ==
  /\ phase' \in Live =>
       Priced(heap', DueAt(call, phase', into', pos', seen', next', Len(heap'.clist)))
  /\ phase' \in Live \ {"stop"} =>
       PlacedAt(call, phase', into', pos', seen', next', heap')

LEMMA OnwardPriced ==
  ASSUME IInv', call' = call, PriceOnward, phase' # "done"
  PROVE  PriceInv'
<1>1. Re' = Re
  BY DEF Re
<1>2. Due' = DueAt(call, phase', into', pos', seen', next', Len(heap'.clist))
  BY DEF Due
<1>3. Placed' = PlacedAt(call, phase', into', pos', seen', next', heap')
  BY DEF Placed
<1>4. phase' \in Live => Priced(heap, Due)'
  <2>1. ASSUME phase' \in Live PROVE Priced(heap', Due')
    BY <1>2, <2>1 DEF PriceOnward
  <2>2. QED BY <1>1, <2>1 DEF Priced, Ledger
<1>5. (phase \in Live \ {"stop"})' => Placed'
  BY <1>3 DEF PriceOnward, Live
<1>6. Certified'
  BY DEF Certified
<1>7. QED BY <1>4, <1>5, <1>6 DEF PriceInv, Live

-----------------------------------------------------------------------------
(* Sums that stay within the whole.                                        *)

LEMMA DueIs ==
  ASSUME call \in Calls, NEW p, NEW s, NEW n, NEW len, NEW in
  PROVE  /\ DueAt(call, "seed", in, p, s, n, len) = Done(call, p) + Gen(Re, s)
         /\ DueAt(call, "clear", in, p, s, n, len) = Done(call, p) + Block + Gen(Re, s)
         /\ in = "clist" => DueAt(call, "closure", in, p, s, n, len) = Done(call, p) + Block + Gen(Re, s)
         /\ DueAt(call, "step", in, p, s, n, len) =
              Listed(call, p) + n + (IF n >= len THEN Block ELSE 0) + Gen(Re, s)
         /\ in = "nlist" => DueAt(call, "closure", in, p, s, n, len) = Listed(call, p) + n + 1 + Gen(Re, s)
         /\ DueAt(call, "stop", in, p, s, n, len) = Whole(call)
<1>1. Cell(call.re) = Block /\ call.re = Re
  BY DEF Cell, Block, Width, Re
<1>2. QED BY <1>1 DEF DueAt

LEMMA SumsFit ==
  ASSUME call \in Calls, NEW p \in Nat, call.start <= p, p <= Size(call),
         NEW s \in SUBSET (0 .. (Count - 1))
  PROVE  /\ Done(call, p) \in Nat /\ Listed(call, p) \in Nat /\ Gen(Re, s) \in Nat
         /\ Whole(call) \in Nat /\ Block \in Nat /\ Words(Re) \in Nat /\ Count \in Nat \ {0}
         /\ Listed(call, p) = Done(call, p) + Block + Full(Re) + Words(Re)
         /\ Full(Re) \in Nat /\ Gen(Re, s) <= Full(Re)
         /\ Done(call, p) + Block + Gen(Re, s) + Words(Re) <= Whole(call)
         /\ Listed(call, p) + Count + Block <= Done(call, p + 1)
         /\ Done(call, p + 1) <= Whole(call)
         /\ p < Size(call) => Done(call, p + 1) + PerPos(Re) <= Whole(call)
         /\ p < Size(call) => Listed(call, p) + Count + Block + Gen(Re, s) <= Whole(call)
         /\ Listed(call, p) + Count + Block <= Whole(call)
<1> DEFINE b == Block
           f == Full(Re)
           w == Words(Re)
           g == Gen(Re, s)
           m == PerPos(Re)
           d == Done(call, p)
           d1 == Done(call, p + 1)
           d2 == Done(call, p + 1 + 1)
           all == Whole(call)
           size == Size(call)
<1>1. /\ m = Count + f + 2 * b + w /\ m \in Nat
      /\ Count \in Nat \ {0} /\ f \in Nat /\ b \in Nat /\ w \in Nat
      /\ size \in Nat /\ call.start \in Nat
  BY PerPosIs
<1>2. g \in Nat /\ g <= f
  BY GenIs
<1>3. /\ p + 1 \in Nat /\ call.start <= p + 1 /\ p + 1 <= size + 1 /\ size + 1 \in Nat
      /\ p < size => p + 1 + 1 <= size + 1 /\ p + 1 + 1 \in Nat
  BY <1>1
<1>4. d \in Nat /\ d1 = d + m
  BY DoneIs
<1>5. d1 \in Nat /\ d2 = d1 + m /\ d1 <= all
  <2> DEFINE q == p + 1
             r == size + 1
  <2>1. q \in Nat /\ call.start <= q /\ r \in Nat /\ q <= r
    BY <1>3
  <2> HIDE DEF q, r
  <2>2. /\ Done(call, q) \in Nat /\ Done(call, q + 1) = Done(call, q) + m
        /\ Done(call, q) <= Done(call, r)
    BY <2>1, DoneIs
  <2>3. QED BY <2>2 DEF q, r, Whole
<1>6. p < size => d2 <= all
  <2> DEFINE q == p + 1 + 1
             r == size + 1
  <2>1. ASSUME p < size PROVE q \in Nat /\ call.start <= q /\ r \in Nat /\ q <= r
    BY <1>1, <1>3, <2>1
  <2> HIDE DEF q, r
  <2>2. ASSUME p < size PROVE Done(call, q) <= Done(call, r)
    BY <2>1, <2>2, DoneIs
  <2>3. QED BY <2>2 DEF q, r, Whole
<1>7. all \in Nat
  <2> DEFINE r == size + 1
  <2>1. r \in Nat /\ call.start <= r
    BY <1>1, <1>3
  <2> HIDE DEF r
  <2>2. Done(call, r) \in Nat
    BY <2>1, DoneIs
  <2>3. QED BY <2>2 DEF r, Whole
<1>8. Listed(call, p) = d + b + f + w
  BY DEF Listed, Cell, Block, Width, Re
<1> DEFINE l == Listed(call, p)
<1> HIDE DEF b, f, w, g, m, d, d1, d2, all, size, l
<1>9. /\ l = d + b + f + w /\ l \in Nat
      /\ d + b + g + w <= all
      /\ l + Count + b <= d1
      /\ p < size => d1 + m <= all
      /\ p < size => l + Count + b + g <= all
      /\ l + Count + b <= all
  <2>1. l = d + b + f + w
    BY <1>8 DEF l
  <2>2. QED BY <1>1, <1>2, <1>4, <1>5, <1>6, <1>7, <2>1
<1>10. QED BY <1>1, <1>2, <1>4, <1>5, <1>7, <1>9 DEF b, f, w, g, m, d, d1, d2, all, size, l

\* Going on with a heap that has spent w, or stopping where it was refused.
LEMMA GoOnPriced ==
  ASSUME call \in Calls, NEW h, NEW where \in {"seed", "closure", "clear", "step"},
         heap' = h, phase' = IF h.ok THEN where ELSE "stop",
         NEW w \in Nat, Priced(h, w), Whole(call) \in Nat, w <= Whole(call),
         NEW v \in Nat,
         h.ok => /\ v = DueAt(call, where, into', pos', seen', next', Len(h.clist))
                 /\ w <= v
                 /\ PlacedAt(call, where, into', pos', seen', next', h)
  PROVE  PriceOnward /\ phase' # "done"
<1>1. CASE h.ok
  <2>1. phase' = where
    BY <1>1
  <2>2. Priced(h, v)
    BY <1>1, PricedMore
  <2>3. QED BY <1>1, <2>1, <2>2 DEF PriceOnward, Live
<1>2. CASE ~h.ok
  <2>1. phase' = "stop"
    BY <1>2
  <2>2. Priced(h, Whole(call))
    BY PricedMore
  <2> DEFINE len == Len(h.clist)
  <2> HIDE DEF len
  <2>3. DueAt(call, "stop", into', pos', seen', next', len) = Whole(call)
    BY DueIs
  <2>4. QED BY <2>1, <2>2, <2>3 DEF PriceOnward, Live, len
<1>3. QED BY <1>1, <1>2

LEMMA ContinuePriced ==
  ASSUME call \in Calls, NEW h, NEW where \in {"seed", "closure", "clear", "step"},
         Continue(h, where), NEW w \in Nat, Priced(h, w), Whole(call) \in Nat, w <= Whole(call),
         NEW v \in Nat,
         h.ok => /\ v = DueAt(call, where, into', pos', seen', next', Len(h.clist))
                 /\ w <= v
                 /\ PlacedAt(call, where, into', pos', seen', next', h)
  PROVE  PriceOnward /\ phase' # "done"
<1>1. heap' = h /\ phase' = IF h.ok THEN where ELSE "stop"
  BY DEF Continue
<1>2. QED BY <1>1, GoOnPriced

-----------------------------------------------------------------------------
(* The scan.                                                               *)

\* Where a run is, while it is not over.
LEMMA Here ==
  ASSUME PriceInv, phase \in {"seed", "closure", "clear", "step"}
  PROVE  /\ call \in Calls /\ heap \in Heaps /\ heap.ok /\ mh \in Matches
         /\ pos \in Nat /\ next \in Nat /\ into \in {"clist", "nlist"}
         /\ call.start <= pos /\ pos <= Size(call) /\ Size(call) \in Nat
         /\ seen \in SUBSET (0 .. (Count - 1)) /\ Cardinality(seen) \in Nat
         /\ Cardinality(seen) <= Count
         /\ Len(heap.clist) \in Nat /\ Len(heap.nlist) \in Nat /\ Len(heap.stk) \in Nat
         /\ Len(heap.rc) <= Made /\ Unstepped \in Nat \ {0}
         /\ Due \in Nat /\ Sound(heap, Unstepped, mh, NoHand, Due)
<1>1. phase \in Live \ {"stop"}
  BY DEF Live
<1>2. /\ call \in Calls /\ heap \in Heaps /\ heap.ok /\ mh \in Matches
      /\ pos \in Nat /\ next \in Nat /\ into \in {"clist", "nlist"}
      /\ Good(heap, Unstepped, mh, NoHand)
  BY <1>1 DEF PriceInv, IInv
<1>3. /\ Len(heap.clist) \in Nat /\ Len(heap.nlist) \in Nat /\ Len(heap.stk) \in Nat
  BY <1>2 DEF Heaps
<1>4. /\ seen \in SUBSET (0 .. (Count - 1)) /\ call.start <= pos /\ pos <= Size(call)
      /\ Len(heap.rc) <= Made
  BY <1>1 DEF PriceInv, Placed, PlacedAt, Count, Made, Re
<1>5. Cardinality(seen) \in Nat /\ Cardinality(seen) <= Count
  BY <1>2, <1>4, AddressesFinite
<1>6. Unstepped \in Nat \ {0}
  BY <1>2 DEF Unstepped
<1>7. Due \in Nat
  <2> DEFINE len == Len(heap.clist)
             n == next
             p == pos
             s == seen
             in == into
             ph == phase
             x == IF n >= len THEN Block ELSE 0
  <2>1. /\ p \in Nat /\ n \in Nat /\ len \in Nat /\ call.start <= p /\ p <= Size(call)
        /\ s \in SUBSET (0 .. (Count - 1)) /\ ph \in {"seed", "closure", "clear", "step"}
        /\ in \in {"clist", "nlist"} /\ Due = DueAt(call, ph, in, p, s, n, len)
    BY <1>2, <1>3, <1>4 DEF Due
  <2> HIDE DEF n, p, s, in, ph, len
  <2>2. /\ DueAt(call, "seed", in, p, s, n, len) = Done(call, p) + Gen(Re, s)
        /\ DueAt(call, "clear", in, p, s, n, len) = Done(call, p) + Block + Gen(Re, s)
        /\ in = "clist" => DueAt(call, "closure", in, p, s, n, len) = Done(call, p) + Block + Gen(Re, s)
        /\ DueAt(call, "step", in, p, s, n, len) = Listed(call, p) + n + x + Gen(Re, s)
        /\ in = "nlist" => DueAt(call, "closure", in, p, s, n, len) = Listed(call, p) + n + 1 + Gen(Re, s)
    BY <1>2, DueIs
  <2>3. Done(call, p) \in Nat /\ Listed(call, p) \in Nat /\ Gen(Re, s) \in Nat /\ Block \in Nat
    BY <1>2, <2>1, SumsFit
  <2>4. x \in Nat
    BY <2>3
  <2> HIDE DEF x
  <2>5. /\ Done(call, p) + Gen(Re, s) \in Nat
        /\ Done(call, p) + Block + Gen(Re, s) \in Nat
        /\ Listed(call, p) + n + x + Gen(Re, s) \in Nat
        /\ Listed(call, p) + n + 1 + Gen(Re, s) \in Nat
    BY <2>1, <2>3, <2>4
  <2>6. QED BY <2>1, <2>2, <2>5
<1>8. Priced(heap, Due)
  BY <1>1 DEF PriceInv
<1>9. Size(call) \in Nat
  BY <1>2, PerPosIs
<1>10. QED BY <1>2, <1>3, <1>4, <1>5, <1>6, <1>7, <1>8, <1>9 DEF Sound

LEMMA SeedPrice ==
  ASSUME PriceInv, Seed
  PROVE  PriceOnward /\ phase' # "done"
<1> DEFINE w == Done(call, pos) + Gen(Re, seen)
           v == w + Block
           x == Cardinality(seen)
<1>1. /\ phase = "seed" /\ into' = "clist" /\ pos' = pos /\ seen' = seen /\ next' = next
      /\ \/ Continue(Seeded(heap), "closure")
         \/ Continue(heap, "clear")
  BY DEF Seed
<1>2. /\ call \in Calls /\ heap \in Heaps /\ heap.ok /\ mh \in Matches
      /\ pos \in Nat /\ call.start <= pos /\ pos <= Size(call)
      /\ seen \in SUBSET (0 .. (Count - 1)) /\ x \in Nat /\ x <= Count
      /\ Len(heap.clist) \in Nat /\ Len(heap.rc) <= Made
      /\ Sound(heap, Unstepped, mh, NoHand, Due)
  BY <1>1, Here
<1>3. /\ heap.nlist = <<>> /\ heap.stk = <<>> /\ Len(heap.clist) <= x /\ IInv /\ next = 0
      /\ Unstepped = 1
  BY <1>1 DEF PriceInv, Placed, PlacedAt, Live, IInv, Unstepped
<1>4. /\ w \in Nat /\ v \in Nat /\ v <= Whole(call) /\ w <= v /\ Whole(call) \in Nat
      /\ Block \in Nat /\ Count \in Nat \ {0}
  <2> DEFINE d == Done(call, pos)
             g == Gen(Re, seen)
             c == Words(Re)
  <2>1. /\ d \in Nat /\ g \in Nat /\ Block \in Nat /\ c \in Nat
        /\ d + Block + g + c <= Whole(call) /\ Whole(call) \in Nat
        /\ Count \in Nat \ {0}
    BY <1>2, SumsFit
  <2> HIDE DEF d, g, c
  <2>2. /\ d + g \in Nat /\ d + g + Block \in Nat
        /\ d + g + Block <= Whole(call) /\ d + g <= d + g + Block
    BY <2>1
  <2>3. QED BY <2>1, <2>2 DEF d, g
<1>5. Due = w
  BY <1>1, <1>2, DueIs DEF Due
<1>6. ASSUME NEW len
      PROVE  /\ v = DueAt(call, "closure", into', pos', seen', next', len)
             /\ v = DueAt(call, "clear", into', pos', seen', next', len)
  <2> DEFINE d == Done(call, pos)
             g == Gen(Re, seen)
  <2>1. d \in Nat /\ g \in Nat /\ Block \in Nat
    BY <1>2, SumsFit
  <2>2. d + Block + g = d + g + Block
    <3> HIDE DEF d, g
    <3>1. QED BY <2>1
  <2>3. /\ DueAt(call, "closure", into', pos', seen', next', len) = d + Block + g
        /\ DueAt(call, "clear", into', pos', seen', next', len) = d + Block + g
    BY <1>1, <1>2, DueIs
  <2>4. QED BY <2>2, <2>3
<1>7. Sound(heap, 1, mh, NoHand, w)
  BY <1>2, <1>3, <1>5
<1>8. CASE Continue(Seeded(heap), "closure")
  <2> DEFINE h == Seeded(heap)
             where == "closure"
  <2>1. Uncrowded(heap) /\ Spare(heap, "stk")
    <3>1. Len(heap.nlist) = 0 /\ Len(heap.stk) = 0
      BY <1>3
    <3> HIDE DEF x
    <3>2. QED BY <1>2, <1>3, <1>4, <3>1 DEF Uncrowded, Spare, Made, Most
  <2> HIDE DEF w
  <2>2. /\ Sound(h, 1, mh, NoHand, w + Block)
        /\ h.ok => Kept(heap, h, {"pool", "rc", "free", "stk"})
        /\ h.ok => Len(h.stk) = Len(heap.stk) + 1
    BY <1>1, <1>3, <1>4, <1>7, <2>1, SeededSound
  <2>3. Priced(h, v) /\ (h.ok => Len(h.rc) <= Made) /\ Continue(h, where)
    BY <1>8, <2>2 DEF Sound
  <2> HIDE DEF h, v
  <2>4. ASSUME h.ok PROVE PlacedAt(call, where, into', pos', seen', next', h)
    <3>1. h.clist = heap.clist /\ h.nlist = <<>> /\ Len(h.stk) = 1
      BY <1>3, <2>2, <2>4 DEF Kept
    <3>2. QED BY <1>1, <1>2, <1>3, <2>3, <2>4, <3>1 DEF PlacedAt, Count, Made, Re
  <2>5. v = DueAt(call, where, into', pos', seen', next', Len(h.clist)) /\ v <= v
    BY <1>4, <1>6
  <2>6. where \in {"seed", "closure", "clear", "step"}
    OBVIOUS
  <2> HIDE DEF where
  <2>7. QED BY <1>2, <1>4, <2>3, <2>4, <2>5, <2>6, ContinuePriced
<1>9. CASE Continue(heap, "clear")
  <2> DEFINE where == "clear"
             h == heap
  <2>1. Priced(h, w) /\ Continue(h, where)
    BY <1>7, <1>9 DEF Sound
  <2>2. PlacedAt(call, where, into', pos', seen', next', h)
    BY <1>1, <1>2, <1>3 DEF PlacedAt, Count, Made, Re
  <2>3. v = DueAt(call, where, into', pos', seen', next', Len(h.clist)) /\ w <= Whole(call)
    BY <1>4, <1>6
  <2>4. where \in {"seed", "closure", "clear", "step"}
    OBVIOUS
  <2> HIDE DEF where, h, v, w
  <2>5. QED BY <1>2, <1>4, <2>1, <2>2, <2>3, <2>4, ContinuePriced
<1>10. QED BY <1>1, <1>8, <1>9

LEMMA ClearPrice ==
  ASSUME PriceInv, Clear
  PROVE  PriceOnward /\ phase' # "done"
<1> DEFINE d == Done(call, pos)
           e == Gen(Re, seen)
           c == Words(Re)
           w == d + Block + e
           h == Pay(heap, c)
           where == "step"
           v == Listed(call, pos) + 0 + (IF 0 >= Len(h.clist) THEN Block ELSE 0) + 0
<1>1. /\ phase = "clear" /\ Continue(h, where) /\ next' = 0 /\ pos' = pos
      /\ seen' = IF heap'.ok THEN {} ELSE seen
  BY DEF Clear
<1>2. /\ call \in Calls /\ heap \in Heaps /\ heap.ok
      /\ pos \in Nat /\ call.start <= pos /\ pos <= Size(call)
      /\ seen \in SUBSET (0 .. (Count - 1))
      /\ Cardinality(seen) \in Nat /\ Cardinality(seen) <= Count
      /\ Len(heap.clist) \in Nat /\ Len(heap.rc) <= Made
      /\ Sound(heap, Unstepped, mh, NoHand, Due)
  BY <1>1, Here
<1>3. /\ heap.nlist = <<>> /\ heap.stk = <<>> /\ Len(heap.clist) <= Cardinality(seen)
  BY <1>1 DEF PriceInv, Placed, PlacedAt, Live
<1>4. Due = w
  BY <1>1, <1>2, DueIs DEF Due
<1>5. /\ d \in Nat /\ Listed(call, pos) \in Nat /\ e \in Nat /\ Whole(call) \in Nat
      /\ Block \in Nat /\ c \in Nat /\ Count \in Nat
      /\ Listed(call, pos) = d + Block + Full(Re) + c /\ Full(Re) \in Nat /\ e <= Full(Re)
      /\ d + Block + e + c <= Whole(call)
  BY <1>2, SumsFit
<1> HIDE DEF d, e, c
<1>6. /\ w \in Nat /\ w + c \in Nat /\ w + c <= Whole(call)
      /\ w + c <= Listed(call, pos) /\ v \in Nat /\ Listed(call, pos) <= v
  BY <1>5
<1> HIDE DEF w
<1>7. Priced(h, w + c) /\ (h.ok => Kept(heap, h, {}))
  <2>1. Priced(heap, w)
    BY <1>2, <1>4 DEF Sound
  <2>2. QED BY <1>2, <1>5, <1>6, <2>1, PayPriced, PayKeeps
<1> HIDE DEF h
<1>8. ASSUME h.ok
      PROVE  /\ v = DueAt(call, where, into', pos', seen', next', Len(h.clist))
             /\ PlacedAt(call, where, into', pos', seen', next', h)
  <2>1. heap' = h /\ seen' = {} /\ h.clist = heap.clist /\ h.nlist = <<>> /\ h.stk = <<>>
        /\ h.rc = heap.rc
    BY <1>1, <1>3, <1>7, <1>8 DEF Continue, Kept
  <2>2. Gen(Re, {}) = 0 /\ {} \in SUBSET (0 .. (Count - 1)) /\ Cardinality({}) = 0
    BY <1>2, GenNone
  <2>3. DueAt(call, where, into', pos', seen', next', Len(h.clist)) = v
    <3> DEFINE len == Len(h.clist)
    <3>1. DueAt(call, where, into', pos', seen', next', len)
            = Listed(call, pos') + next' + (IF next' >= len THEN Block ELSE 0) + Gen(Re, seen')
      <4> HIDE DEF len
      <4>1. QED BY <1>2, DueIs
    <3>2. QED BY <1>1, <2>1, <2>2, <3>1
  <2>4. PlacedAt(call, where, into', pos', seen', next', h)
    <3>1. Len(heap.clist) <= Count
      <4> DEFINE x == Cardinality(seen)
      <4>1. x \in Nat /\ x <= Count /\ Len(heap.clist) <= x
        BY <1>2, <1>3
      <4> HIDE DEF x
      <4>2. QED BY <1>2, <1>5, <4>1
    <3>2. QED BY <1>1, <1>2, <2>1, <2>2, <3>1 DEF PlacedAt, Count, Made, Re
  <2>5. QED BY <2>3, <2>4
<1>9. where \in {"seed", "closure", "clear", "step"}
  OBVIOUS
<1> HIDE DEF where, v
<1> DEFINE u == w + c
<1>10. u \in Nat /\ u <= Whole(call) /\ u <= v /\ Priced(h, u)
  BY <1>5, <1>6, <1>7
<1> HIDE DEF u
<1>11. QED BY <1>1, <1>2, <1>5, <1>6, <1>8, <1>9, <1>10, ContinuePriced

\* What the position has paid when thread `next` is to be stepped.
Stepped == Listed(call, pos) + next + Gen(Re, seen)

LEMMA StepThread ==
  ASSUME PriceInv, phase = "step", next < Len(heap.clist)
  PROVE  /\ Stepped \in Nat /\ Block \in Nat /\ Whole(call) \in Nat
         /\ Stepped + 1 + Block <= Whole(call)
         /\ Listed(call, pos) \in Nat /\ Gen(Re, seen) \in Nat
         /\ Sound(Pay(heap, 1), next + 2, mh, More(NoHand, Thread.h), Stepped + 1)
         /\ heap.stk = <<>> /\ Len(heap.clist) <= Count /\ Len(heap.nlist) <= Cardinality(seen)
         /\ pos = Size(call) => seen = {}
<1>1. /\ call \in Calls /\ heap \in Heaps /\ heap.ok /\ next \in Nat
      /\ pos \in Nat /\ call.start <= pos /\ pos <= Size(call) /\ Size(call) \in Nat
      /\ seen \in SUBSET (0 .. (Count - 1)) /\ Len(heap.clist) \in Nat
      /\ Sound(heap, Unstepped, mh, NoHand, Due)
  BY Here
<1>2. /\ heap.stk = <<>> /\ Len(heap.clist) <= Count /\ Len(heap.nlist) <= Cardinality(seen)
      /\ pos = Size(call) => seen = {}
  BY DEF PriceInv, Placed, PlacedAt, Live, Count, Re
<1> DEFINE l == Listed(call, pos)
           g == Gen(Re, seen)
           all == Whole(call)
           n == Len(heap.clist)
<1>3. /\ l \in Nat /\ g \in Nat /\ all \in Nat /\ Block \in Nat /\ Count \in Nat
      /\ pos < Size(call) => l + Count + Block + g <= all
      /\ l + Count + Block <= all
  BY <1>1, SumsFit
<1>4. pos = Size(call) => g = 0
  BY <1>1, <1>2, GenNone
<1>5. Stepped = l + next + g
  BY DEF Stepped
<1>6. Due = Stepped
  <2> DEFINE p == pos
  <2>1. DueAt(call, "step", into, pos, seen, next, n) = l + next + (IF next >= n THEN Block ELSE 0) + g
    <3> HIDE DEF n
    <3>1. QED BY <1>1, DueIs
  <2>2. l + next + 0 + g = l + next + g /\ ~(next >= n)
    <3> HIDE DEF l, g
    <3>1. QED BY <1>1, <1>3
  <2>3. QED BY <1>5, <2>1, <2>2 DEF Due
<1>7. l + next + g \in Nat /\ l + next + g + 1 + Block <= all
  <2>1. next + 1 <= Count /\ n <= Count
    BY <1>1, <1>2, <1>3
  <2>2. pos < Size(call) \/ pos = Size(call)
    BY <1>1
  <2> HIDE DEF l, g, all, n
  <2>3. QED BY <1>1, <1>3, <1>4, <2>1, <2>2
<1>8. Sound(Pay(heap, 1), next + 2, mh, More(NoHand, Thread.h), Stepped + 1)
  <2>1. /\ Good(Pay(heap, 1), next + 2, mh, More(NoHand, Thread.h))
        /\ Kept(heap, Pay(heap, 1), {})
    BY <1>1, ThreadPaid DEF PriceInv
  <2> DEFINE one == 1
             w == Stepped
  <2>2. one \in Nat /\ w \in Nat /\ Priced(heap, w)
    BY <1>1, <1>5, <1>6, <1>7 DEF Sound
  <2> HIDE DEF one, w
  <2>3. Priced(Pay(heap, one), w + one)
    BY <1>1, <2>2, PayPriced
  <2>4. Pay(heap, 1).ok => Len(Pay(heap, 1).rc) <= Made
    BY <1>1, <2>1 DEF Kept, Sound
  <2>5. QED BY <2>1, <2>3, <2>4 DEF Sound, one, w
<1>9. QED BY <1>2, <1>3, <1>5, <1>7, <1>8

\* A thread that dies.
LEMMA StepDropPrice ==
  ASSUME PriceInv, phase = "step", next < Len(heap.clist),
         Continue(Drop(Pay(heap, 1), Thread.h), "step"), next' = next + 1,
         pos' = pos, seen' = seen
  PROVE  PriceOnward /\ phase' # "done"
<1> DEFINE paid == Pay(heap, 1)
           b == Thread.h
           g == More(NoHand, b)
           lo == next + 2
           h == Drop(paid, b)
           where == "step"
           w == Stepped + 1
           v == w + (IF next + 1 >= Len(h.clist) THEN Block ELSE 0)
<1>1. /\ call \in Calls /\ heap.ok /\ heap \in Heaps /\ lo \in Nat \ {0}
      /\ b \in Nat /\ Kept(heap, paid, {}) /\ next \in Nat
  BY ThreadPaid DEF PriceInv, IInv
<1>2. /\ pos \in Nat /\ call.start <= pos /\ pos <= Size(call)
      /\ seen \in SUBSET (0 .. (Count - 1)) /\ Len(heap.clist) \in Nat
  BY Here
<1>3. /\ Stepped \in Nat /\ Block \in Nat /\ Whole(call) \in Nat
      /\ Stepped + 1 + Block <= Whole(call)
      /\ Listed(call, pos) \in Nat /\ Gen(Re, seen) \in Nat
      /\ Sound(paid, lo, mh, g, w)
      /\ heap.stk = <<>> /\ Len(heap.clist) <= Count /\ Len(heap.nlist) <= Cardinality(seen)
      /\ pos = Size(call) => seen = {}
  BY StepThread
<1>4. g \in Hands /\ g[b] > 0 /\ Less(g, b) = NoHand
  BY <1>1, HandOne
<1>5. w \in Nat /\ v \in Nat /\ w <= v /\ w <= Whole(call)
  BY <1>3
<1> HIDE DEF paid, b, lo, g, w
<1>6. /\ Sound(h, lo, mh, NoHand, w)
      /\ h.ok => paid.ok /\ Kept(paid, h, {"rc", "free"})
  BY <1>1, <1>3, <1>4, <1>5, DropSound
<1>7. Continue(h, where) /\ where \in {"seed", "closure", "clear", "step"} /\ Priced(h, w)
  BY <1>6 DEF paid, b, Sound
<1> HIDE DEF h
<1>8. ASSUME h.ok
      PROVE  /\ v = DueAt(call, where, into', pos', seen', next', Len(h.clist))
             /\ PlacedAt(call, where, into', pos', seen', next', h)
  <2>1. /\ h.clist = heap.clist /\ h.nlist = heap.nlist /\ h.stk = <<>> /\ Len(h.rc) <= Made
    BY <1>1, <1>3, <1>6, <1>8 DEF Kept, Sound
  <2>2. DueAt(call, where, into', pos', seen', next', Len(h.clist)) = v
    <3> DEFINE len == Len(h.clist)
               x == IF next + 1 >= len THEN Block ELSE 0
    <3>1. DueAt(call, where, into', pos', seen', next', len)
            = Listed(call, pos') + next' + (IF next' >= len THEN Block ELSE 0) + Gen(Re, seen')
      <4> HIDE DEF len
      <4>1. QED BY <1>1, DueIs
    <3>2. DueAt(call, where, into', pos', seen', next', len)
            = Listed(call, pos) + (next + 1) + x + Gen(Re, seen)
      BY <3>1
    <3>3. x \in Nat
      BY <1>3
    <3> DEFINE l == Listed(call, pos)
               q == Gen(Re, seen)
    <3>4. v = l + next + q + 1 + x
      BY DEF Stepped, w
    <3> HIDE DEF x, l, q, v, where
    <3>5. l + (next + 1) + x + q = l + next + q + 1 + x
      BY <1>1, <1>3, <3>3 DEF l, q
    <3>6. QED BY <3>2, <3>4, <3>5 DEF l, q
  <2>3. PlacedAt(call, where, into', pos', seen', next', h)
    BY <1>1, <1>2, <1>3, <2>1 DEF PlacedAt, Count, Made, Re
  <2>4. QED BY <2>2, <2>3
<1> HIDE DEF where, v
<1>9. QED BY <1>1, <1>3, <1>5, <1>7, <1>8, ContinuePriced

LEMMA StepEaterPrice ==
  ASSUME PriceInv, StepEater
  PROVE  PriceOnward /\ phase' # "done"
<1> DEFINE paid == Pay(heap, 1)
           b == Thread.h
           p == Thread.pc
           g == More(NoHand, b)
           lo == next + 2
           h == Defer(paid, p + 1, b)
           where == "closure"
           w == Stepped + 1
<1>1. /\ phase = "step" /\ next < Len(heap.clist) /\ Instr(p).op # "OpAccept"
      /\ pos' = pos /\ seen' = seen
      /\ \/ /\ Eats(call, Instr(p), pos) = 1
            /\ Continue(h, where) /\ into' = "nlist" /\ next' = next
         \/ Continue(Drop(paid, b), "step") /\ next' = next + 1
  BY DEF StepEater
<1>2. CASE Continue(Drop(paid, b), "step") /\ next' = next + 1
  BY <1>1, <1>2, StepDropPrice
<1>3. CASE /\ Eats(call, Instr(p), pos) = 1
           /\ Continue(h, where) /\ into' = "nlist" /\ next' = next
  <2>1. /\ call \in Calls /\ heap.ok /\ heap \in Heaps /\ lo \in Nat \ {0}
        /\ p \in 0 .. (Len(Re.code) - 1) /\ b \in Nat /\ Kept(heap, paid, {})
        /\ Instr(p).op \in EaterOps \cup {"OpAccept"} /\ next \in Nat
    BY <1>1, ThreadPaid DEF PriceInv, IInv
  <2>2. /\ pos \in Nat /\ call.start <= pos /\ pos <= Size(call) /\ Size(call) \in Nat
        /\ seen \in SUBSET (0 .. (Count - 1)) /\ Len(heap.clist) \in Nat
        /\ Cardinality(seen) \in Nat
    BY <1>1, Here
  <2>3. /\ Stepped \in Nat /\ Block \in Nat /\ Whole(call) \in Nat
        /\ Stepped + 1 + Block <= Whole(call)
        /\ Listed(call, pos) \in Nat /\ Gen(Re, seen) \in Nat
        /\ Sound(paid, lo, mh, g, w)
        /\ heap.stk = <<>> /\ Len(heap.clist) <= Count /\ Len(heap.nlist) <= Cardinality(seen)
    BY <1>1, StepThread
  <2>4. pos < Size(call)
    <3> DEFINE c == call
               i == Instr(p)
               at == pos
    <3>1. c \in CallTypes /\ i \in Insts /\ at \in 0 .. Size(c)
      <4>1. c \in CallTypes
        BY <2>1, PikeCallsAssumption
      <4>2. WellFormed(Re) /\ p \in Nat /\ p < Len(Re.code)
        BY <2>1, CallFigures
      <4>3. i \in Insts
        <5> DEFINE r == Re
        <5> HIDE DEF r, p
        <5>1. WellFormed(r) /\ p < Len(r.code) => At(r.code, p) \in Insts
          BY <4>2, ControlInside
        <5>2. QED BY <4>2, <5>1 DEF r, Instr
      <4>4. QED BY <2>2, <4>1, <4>3
    <3> HIDE DEF c, i, at
    <3>2. at + Eats(c, i, at) <= Size(c)
      BY <3>1, EatsInside
    <3>3. QED BY <1>3, <2>2, <3>2 DEF c, i, at
  <2>5. p + 1 \in 0 .. (Len(Re.code) - 1)
    BY <1>1, <2>1, Control DEF EaterOps
  <2>6. g \in Hands /\ g[b] > 0 /\ Less(g, b) = NoHand
    BY <2>1, HandOne
  <2>7. w \in Nat /\ w <= Whole(call) /\ w <= w
    BY <2>3
  <2>8. Spare(paid, "stk") /\ paid.stk = <<>> /\ Len(paid.stk) = 0
    <3>1. paid.stk = <<>> /\ Len(paid.stk) = 0
      BY <2>1, <2>3 DEF Kept
    <3>2. 0 < Most("stk")
      BY <2>1, Sizes DEF Most
    <3>3. QED BY <3>1, <3>2 DEF Spare
  <2> DEFINE q == p + 1
             m == mh
             d == Defer(paid, q, b)
  <2>9. /\ q \in 0 .. (Len(Re.code) - 1) /\ h = d /\ Sound(paid, lo, m, g, w)
        /\ call \in Calls /\ lo \in Nat \ {0} /\ g \in Hands /\ w \in Nat /\ b \in Nat /\ g[b] > 0
        /\ Spare(paid, "stk")
    BY <2>1, <2>3, <2>5, <2>6, <2>7, <2>8
  <2> HIDE DEF paid, b, lo, g, w, q, m, h
  <2>10. /\ Sound(d, lo, m, Less(g, b), w)
         /\ d.ok => Kept(paid, d, {"stk"}) /\ Len(d.stk) = Len(paid.stk) + 1
    <3>1. Sound(d, lo, m, Less(g, b), w)
      BY <2>9, DeferSound
    <3>2. d.ok => Kept(paid, d, {"stk"})
      BY <2>9, <3>1, DeferSound
    <3>3. d.ok => Len(d.stk) = Len(paid.stk) + 1
      BY <2>9, <3>1, DeferSound
    <3>4. QED BY <3>1, <3>2, <3>3
  <2> HIDE DEF d
  <2>11. Priced(h, w) /\ (h.ok => Len(h.rc) <= Made)
    BY <2>9, <2>10 DEF Sound
  <2>12. ASSUME h.ok
        PROVE  /\ w = DueAt(call, where, into', pos', seen', next', Len(h.clist))
               /\ PlacedAt(call, where, into', pos', seen', next', h)
    <3>1. /\ h.clist = heap.clist /\ h.nlist = heap.nlist /\ Len(h.stk) = 1
      BY <2>1, <2>8, <2>9, <2>10, <2>12 DEF Kept
    <3>2. DueAt(call, where, into', pos', seen', next', Len(h.clist)) = w
      <4> DEFINE len == Len(h.clist)
                 l == Listed(call, pos)
                 y == Gen(Re, seen)
      <4>1. DueAt(call, where, into', pos', seen', next', len)
              = Listed(call, pos') + next' + 1 + Gen(Re, seen')
        <5> DEFINE in == into'
                   n == next'
                   at == pos'
                   s == seen'
        <5>1. in = "nlist"
          BY <1>3
        <5> HIDE DEF len, in, n, at, s
        <5>2. DueAt(call, where, in, at, s, n, len) = Listed(call, at) + n + 1 + Gen(Re, s)
          BY <2>1, <5>1, DueIs
        <5>3. QED BY <5>2 DEF in, n, at, s
      <4>2. DueAt(call, where, into', pos', seen', next', len) = l + next + 1 + y
        BY <1>1, <1>3, <4>1
      <4>3. w = l + next + y + 1
        BY DEF Stepped, w
      <4> HIDE DEF l, y
      <4>4. l + next + 1 + y = l + next + y + 1
        BY <2>1, <2>3 DEF l, y
      <4>5. QED BY <4>2, <4>3, <4>4
    <3>3. PlacedAt(call, where, into', pos', seen', next', h)
      BY SMTT(30), <1>1, <1>3, <2>1, <2>2, <2>3, <2>4, <2>11, <2>12, <3>1 DEF PlacedAt, Count, Made, Re
    <3>4. QED BY <3>2, <3>3
  <2>13. Continue(h, where) /\ where \in {"seed", "closure", "clear", "step"}
    BY <1>3 DEF h, paid, b
  <2> HIDE DEF where
  <2>14. QED BY <2>1, <2>3, <2>7, <2>11, <2>12, <2>13, ContinuePriced
<1>4. QED BY <1>1, <1>2, <1>3

LEMMA StepAcceptPrice ==
  ASSUME PriceInv, StepAccept
  PROVE  PriceOnward /\ phase' # "done"
<1> DEFINE b == Thread.h
           paid == Pay(heap, 1)
           one == 1
           wr == Write(paid, b, one, pos)
           x == wr.heap
           f == wr.block
           d == Drop(x, mh)
           top == Len(heap.clist)
           lo == next + 2
           g == More(NoHand, f)
           r == Killed(d)
           w == Stepped + 1
           u == w + Block
           where == "step"
           v == Listed(call, pos) + top + Block + Gen(Re, seen)
<1>1. /\ phase = "step" /\ next < top /\ pos' = pos /\ seen' = seen
      /\ \/ Continue(Drop(Pay(heap, 1), Thread.h), "step") /\ next' = next + 1
         \/ /\ heap' = r /\ next' = top
            /\ phase' = IF r.ok THEN where ELSE "stop"
  BY DEF StepAccept
<1>2. CASE Continue(Drop(Pay(heap, 1), Thread.h), "step") /\ next' = next + 1
  BY <1>1, <1>2, StepDropPrice
<1>3. CASE /\ heap' = r /\ next' = top
           /\ phase' = IF r.ok THEN where ELSE "stop"
  <2>1. /\ call \in Calls /\ heap.ok /\ heap \in Heaps /\ lo \in Nat \ {0}
        /\ b \in Nat /\ Kept(heap, paid, {}) /\ next \in Nat
        /\ pos \in Nat /\ mh \in Matches
    BY <1>1, ThreadPaid DEF PriceInv, IInv
  <2>2. /\ call.start <= pos /\ pos <= Size(call)
        /\ seen \in SUBSET (0 .. (Count - 1)) /\ top \in Nat
        /\ Cardinality(seen) \in Nat /\ Cardinality(seen) <= Count
        /\ Len(heap.nlist) \in Nat
    BY <1>1, Here
  <2>3. /\ Stepped \in Nat /\ Block \in Nat /\ Whole(call) \in Nat
        /\ Stepped + 1 + Block <= Whole(call)
        /\ Listed(call, pos) \in Nat /\ Gen(Re, seen) \in Nat
        /\ Sound(paid, lo, mh, More(NoHand, b), w)
        /\ heap.stk = <<>> /\ top <= Count /\ Len(heap.nlist) <= Cardinality(seen)
        /\ pos = Size(call) => seen = {}
    BY <1>1, StepThread
  <2>4. heap.clist \in Seq(Threads(Re)) /\ one \in 0 .. (Width - 1)
    <3>1. heap.clist \in Seq(Threads(Re))
      BY <2>1 DEF Heaps
    <3>2. Re.ncap \in Nat
      BY <2>1, CallFigures DEF WellFormed, Res
    <3>3. Width \in Nat /\ Width > 1
      BY <3>2 DEF Width, Novec
    <3>4. QED BY <3>1, <3>3
  <2>5. Uncrowded(paid)
    <3>1. paid.clist = heap.clist /\ paid.nlist = heap.nlist /\ Len(paid.stk) = 0
      BY <2>1, <2>3 DEF Kept
    <3> DEFINE n == Len(heap.nlist)
               c == Cardinality(seen)
    <3>2. /\ n \in Nat /\ c \in Nat /\ n <= c /\ c <= Count /\ top \in Nat /\ top <= Count
          /\ Count \in Nat \ {0}
      BY <2>1, <2>2, <2>3, Sizes
    <3> HIDE DEF n, c, top
    <3>3. top + n + 0 + 2 < Made
      BY <3>2 DEF Made
    <3>4. QED BY <3>1, <3>3 DEF Uncrowded, n, top
  <2>6. /\ w \in Nat /\ u \in Nat /\ u <= Whole(call) /\ v \in Nat /\ u <= v
    <3> DEFINE l == Listed(call, pos)
               e == Gen(Re, seen)
    <3>1. w = l + next + e + 1 /\ u = l + next + e + 1 + Block /\ v = l + top + Block + e
      BY DEF Stepped
    <3>2. l \in Nat /\ e \in Nat /\ w \in Nat /\ u <= Whole(call)
      BY <2>3
    <3> HIDE DEF l, e, w, u, v, top
    <3>3. QED BY <1>1, <2>1, <2>2, <2>3, <3>1, <3>2
  <2> HIDE DEF lo, top, paid, b, one, w, u, v
  <2>7. /\ Sound(x, lo, mh, g, u)
        /\ Wrote(paid, wr, lo, mh, NoHand)
    BY <2>1, <2>3, <2>4, <2>5, <2>6, WriteSound DEF u
  <2>8. /\ f \in Nat
        /\ x.ok => Kept(paid, x, {"pool", "rc", "free"})
    BY <2>7 DEF Wrote
  <2> HIDE DEF wr
  <2>9. g \in Hands
    BY <2>8, HandOne
  <2> HIDE DEF x, f, g
  <2>10. /\ Sound(d, lo, NONE, g, u)
         /\ d.ok => x.ok /\ Kept(x, d, {"rc", "free"})
    BY <2>1, <2>6, <2>7, <2>9, MatchSound
  <2> HIDE DEF d
  <2>11. d.ok => d.clist = heap.clist /\ d.nlist = heap.nlist /\ d.stk = heap.stk
    BY <2>1, <2>8, <2>10 DEF Kept
  <2>12. /\ Sound(r, top + 1, NONE, g, u)
         /\ r.ok => d.ok /\ Kept(d, r, {"rc", "free"})
    <3> DEFINE m == NONE
    <3>1. Sound(d, next + 2, m, g, u) /\ next < Len(heap.clist) /\ Good(d, next + 2, m, g)
      BY <1>1, <2>10 DEF lo, top, Sound
    <3> HIDE DEF m
    <3>2. Sound(Killed(d), Len(heap.clist) + 1, m, g, u)
      BY <2>1, <2>4, <2>6, <2>9, <2>11, <3>1, KilledSound
    <3>3. Killed(d).ok => d.ok /\ Kept(d, Killed(d), {"rc", "free"})
      BY <2>1, <2>4, <2>9, <2>11, <3>1, KilledGood
    <3>4. QED BY <3>2, <3>3 DEF m, top
  <2> HIDE DEF r
  <2>13. Priced(r, u)
    BY <2>12 DEF Sound
  <2>14. ASSUME r.ok
        PROVE  /\ v = DueAt(call, where, into', pos', seen', next', Len(r.clist))
               /\ PlacedAt(call, where, into', pos', seen', next', r)
    <3>1. /\ r.clist = heap.clist /\ r.nlist = heap.nlist /\ r.stk = <<>> /\ Len(r.rc) <= Made
      BY <2>3, <2>11, <2>12, <2>14 DEF Kept, Sound
    <3>2. DueAt(call, where, into', pos', seen', next', Len(r.clist)) = v
      <4> DEFINE len == Len(r.clist)
                 at == pos'
                 s == seen'
                 n == next'
                 in == into'
                 l == Listed(call, pos)
                 e == Gen(Re, seen)
      <4>1. at = pos /\ s = seen /\ n = top /\ len = top /\ top >= top
        BY <1>1, <1>3, <2>2, <3>1 DEF top
      <4>2. v = l + top + Block + e
        BY DEF v
      <4> HIDE DEF len, at, s, n, in
      <4>3. DueAt(call, "step", in, at, s, n, len)
              = Listed(call, at) + n + (IF n >= len THEN Block ELSE 0) + Gen(Re, s)
        BY <2>1, DueIs
      <4>4. Listed(call, at) + n + (IF n >= len THEN Block ELSE 0) + Gen(Re, s) = l + top + Block + e
        BY <4>1
      <4>5. QED BY <4>2, <4>3, <4>4 DEF len, at, s, n, in
    <3>3. PlacedAt(call, where, into', pos', seen', next', r)
      BY <1>1, <1>3, <2>1, <2>2, <2>3, <3>1 DEF PlacedAt, Count, Made, Re, top
    <3>4. QED BY <3>2, <3>3
  <2>15. where \in {"seed", "closure", "clear", "step"}
    OBVIOUS
  <2> HIDE DEF where
  <2>16. heap' = r /\ phase' = IF r.ok THEN where ELSE "stop"
    BY <1>3
  <2>17. QED BY <2>1, <2>3, <2>6, <2>13, <2>14, <2>15, <2>16, GoOnPriced
<1>4. QED BY <1>1, <1>2, <1>3

\* The two lists swap with their capacities: what is spent and held stays.
LEMMA SwapPriced ==
  ASSUME IInv, Advance, NEW w, Priced(heap, w)
  PROVE  Priced(heap', w)
<1> DEFINE caps == [heap.cap EXCEPT !["clist"] = heap.cap["nlist"],
                                    !["nlist"] = heap.cap["clist"]]
           r == [heap EXCEPT !.clist = heap.nlist, !.nlist = <<>>, !.cap = caps]
<1>1. /\ Ledger(heap) /\ heap.cap \in [Arrays -> Nat] /\ DOMAIN heap = Fields
      /\ "clist" \in Arrays /\ "nlist" \in Arrays /\ call \in Calls
  BY DEF Priced, Ledger, Figured, Arrays, IInv
<1>2. heap' = r
  BY <1>1 DEF Advance, Fields
<1>3. /\ caps["clist"] = heap.cap["nlist"] /\ caps["nlist"] = heap.cap["clist"]
      /\ \A a \in Arrays \ {"clist", "nlist"} : caps[a] = heap.cap[a]
  BY <1>1
<1>4. r.cap = caps /\ r.cost = heap.cost /\ r.mem = heap.mem /\ r.peak = heap.peak
  <2> HIDE DEF caps
  <2>1. QED BY <1>1 DEF Fields
<1> HIDE DEF caps, r
<1>5. Ledger(r)
  BY <1>1, <1>2, AdvanceLedger
<1>6. Weights(r) = Weights(heap)
  <2> DEFINE x == Weights(r)
             y == Weights(heap)
             s == Setup(call)
  <2>1. heap.mem = s + y /\ heap.mem = s + x /\ s \in Nat
    BY <1>1, <1>4, <1>5, CallFigures DEF Ledger
  <2>2. x \in Nat /\ y \in Nat
    <3>1. \A a \in Arrays : Weight(r, a) \in Nat /\ Weight(heap, a) \in Nat
      <4> SUFFICES ASSUME NEW a \in Arrays PROVE Weight(r, a) \in Nat /\ Weight(heap, a) \in Nat
        OBVIOUS
      <4>1. r.cap[a] \in Nat /\ heap.cap[a] \in Nat /\ EntrySize(a) \in {4, 8}
        BY <1>1, <1>5, CallFigures DEF Ledger, Figured
      <4>2. QED BY <4>1 DEF Weight
    <3>2. QED BY <3>1 DEF Weights, Arrays
  <2> HIDE DEF x, y, s
  <2>3. x = y
    BY <2>1, <2>2
  <2>4. QED BY <2>3 DEF x, y
<1>7. \A a \in Arrays : r.cap[a] <= PikeRoom(Re)[a]
  <2>1. PikeRoom(Re)["clist"] = PikeRoom(Re)["nlist"]
    BY DEF PikeRoom, Arrays
  <2>2. QED BY <1>1, <1>3, <1>4, <2>1 DEF Priced
<1>8. QED BY <1>2, <1>4, <1>5, <1>6, <1>7 DEF Priced

LEMMA AdvancePrice ==
  ASSUME PriceInv, Advance
  PROVE  PriceOnward /\ phase' # "done"
<1> DEFINE l == Listed(call, pos)
           e == Gen(Re, seen)
           all == Whole(call)
           d1 == Done(call, pos + 1)
           w == Due
           top == Len(heap.clist)
<1>1. /\ phase = "step" /\ next >= top /\ pos' = pos + 1 /\ seen' = seen /\ next' = 0
      /\ \/ phase' = "stop"
         \/ phase' = "seed" /\ pos < Size(call)
  <2>1. pos \in Nat /\ Size(call) \in Nat
    BY Here DEF Advance
  <2>2. QED BY <2>1 DEF Advance
<1>2. /\ call \in Calls /\ heap \in Heaps /\ heap.ok /\ next \in Nat /\ IInv
      /\ pos \in Nat /\ call.start <= pos /\ pos <= Size(call) /\ Size(call) \in Nat
      /\ seen \in SUBSET (0 .. (Count - 1)) /\ top \in Nat
      /\ Cardinality(seen) \in Nat
      /\ w \in Nat /\ Sound(heap, Unstepped, mh, NoHand, w) /\ Len(heap.rc) <= Made
  BY <1>1, Here DEF PriceInv
<1>3. /\ next <= top /\ heap.stk = <<>> /\ top <= Count
      /\ Len(heap.nlist) <= Cardinality(seen)
      /\ pos = Size(call) => seen = {}
  BY <1>1 DEF PriceInv, Placed, PlacedAt, Live, Count, Re
<1>4. /\ l \in Nat /\ e \in Nat /\ all \in Nat /\ Block \in Nat /\ Count \in Nat /\ d1 \in Nat
      /\ l + Count + Block <= d1
      /\ pos < Size(call) => l + Count + Block + e <= all
      /\ l + Count + Block <= all
  <2>1. /\ l \in Nat /\ e \in Nat /\ all \in Nat /\ Block \in Nat /\ Count \in Nat
        /\ l + Count + Block <= d1
        /\ pos < Size(call) => l + Count + Block + e <= all
        /\ l + Count + Block <= all
    BY <1>2, SumsFit
  <2>2. d1 \in Nat
    <3> DEFINE p == pos + 1
    <3>1. p \in Nat /\ call.start <= p
      <4>1. call.start \in Nat
        BY <1>2, PerPosIs
      <4>2. QED BY <1>2, <4>1
    <3> HIDE DEF p
    <3>2. Done(call, p) \in Nat
      BY <1>2, <3>1, DoneIs
    <3>3. QED BY <3>2 DEF p
  <2>3. QED BY <2>1, <2>2
<1>5. w = l + next + Block + e
  <2>1. DueAt(call, "step", into, pos, seen, next, top)
          = l + next + (IF next >= top THEN Block ELSE 0) + e
    <3> HIDE DEF top
    <3>1. QED BY <1>2, DueIs
  <2>2. QED BY <1>1, <2>1 DEF Due
<1>6. pos = Size(call) => e = 0
  BY <1>2, <1>3, GenNone
<1>7. w <= all /\ w <= d1 + e /\ d1 + e \in Nat
  <2>1. next <= Count
    BY <1>2, <1>3, <1>4
  <2>2. pos < Size(call) \/ pos = Size(call)
    BY <1>2
  <2> HIDE DEF l, e, all, d1, w, top
  <2>3. QED BY <1>2, <1>4, <1>5, <1>6, <2>1, <2>2
<1>8. Priced(heap', w)
  <2> HIDE DEF w
  <2>1. QED BY <1>2, SwapPriced DEF Sound
<1>9. CASE phase' = "stop"
  <2> DEFINE len == Len(heap'.clist)
  <2> HIDE DEF len, w
  <2>1. DueAt(call, "stop", into', pos', seen', next', len) = all
    BY <1>2, DueIs
  <2>2. Priced(heap', all)
    BY <1>2, <1>4, <1>7, <1>8, PricedMore
  <2>3. QED BY <1>9, <2>1, <2>2 DEF PriceOnward, Live, len
<1>10. CASE phase' = "seed" /\ pos < Size(call)
  <2> DEFINE v == d1 + e
             len == Len(heap'.clist)
  <2>1. DueAt(call, "seed", into', pos', seen', next', len) = v
    <3> DEFINE p == pos'
    <3> HIDE DEF len, p
    <3>1. DueAt(call, "seed", into', p, seen', next', len) = Done(call, p) + Gen(Re, seen')
      BY <1>2, DueIs
    <3>2. QED BY <1>1, <3>1 DEF p
  <2>2. Priced(heap', v)
    <3> HIDE DEF v, w
    <3>1. v \in Nat /\ w <= v
      BY <1>7 DEF v
    <3>2. QED BY <1>2, <1>8, <3>1, PricedMore
  <2>3. heap'.clist = heap.nlist /\ heap'.nlist = <<>> /\ heap'.stk = heap.stk /\ heap'.rc = heap.rc
    <3>1. DOMAIN heap = Fields
      BY <1>2 DEF Sound, Priced, Ledger, Figured
    <3>2. QED BY <3>1 DEF Advance, Fields
  <2>4. PlacedAt(call, "seed", into', pos', seen', next', heap')
    <3>1. pos + 1 <= Size(call) /\ call.start <= pos + 1
      <4>1. call.start \in Nat
        BY <1>2, PerPosIs
      <4>2. QED BY <1>2, <1>10, <4>1
    <3>2. QED BY <1>1, <1>2, <1>3, <2>3, <3>1 DEF PlacedAt, Count, Made, Re
  <2> HIDE DEF v
  <2>5. QED BY <1>10, <2>1, <2>2, <2>4 DEF PriceOnward, Live, len
<1>11. QED BY <1>1, <1>9, <1>10

-----------------------------------------------------------------------------
(* The closure.                                                            *)

\* What the position had paid when this closure began.
Closed == IF into = "clist" THEN Done(call, pos) + Block ELSE Listed(call, pos) + next + 1

\* The lists hold what a closure that has seen the addresses s may have built.
Fitting(h, s) ==
  IF into = "clist" THEN h.nlist = <<>> /\ Len(h.clist) <= Cardinality(s)
  ELSE /\ next < Len(h.clist) /\ pos < Size(call)
       /\ Len(h.clist) <= Count /\ Len(h.nlist) <= Cardinality(s)

LEMMA ClosedIs ==
  ASSUME PriceInv, phase = "closure", NEW s \in SUBSET (0 .. (Count - 1))
  PROVE  /\ Closed \in Nat /\ Whole(call) \in Nat /\ Gen(Re, s) \in Nat
         /\ Closed + Gen(Re, s) <= Whole(call)
         /\ \A len : DueAt(call, "closure", into, pos, s, next, len) = Closed + Gen(Re, s)
<1> DEFINE d == Done(call, pos)
           l == Listed(call, pos)
           e == Gen(Re, s)
           all == Whole(call)
<1>1. /\ call \in Calls /\ next \in Nat /\ into \in {"clist", "nlist"}
      /\ pos \in Nat /\ call.start <= pos /\ pos <= Size(call)
      /\ Len(heap.clist) \in Nat
  BY Here
<1>2. into = "nlist" => next < Len(heap.clist) /\ pos < Size(call) /\ Len(heap.clist) <= Count
  BY DEF PriceInv, Placed, PlacedAt, Live, Count, Re
<1>3. /\ d \in Nat /\ l \in Nat /\ e \in Nat /\ all \in Nat /\ Block \in Nat /\ Words(Re) \in Nat
      /\ Count \in Nat
      /\ d + Block + e + Words(Re) <= all
      /\ pos < Size(call) => l + Count + Block + e <= all
  BY <1>1, SumsFit
<1>4. CASE into = "clist"
  <2>1. Closed = d + Block
    BY <1>4 DEF Closed
  <2>2. ASSUME NEW len
        PROVE  DueAt(call, "closure", into, pos, s, next, len) = d + Block + e
    <3> DEFINE in == into
               n == next
               p == pos
    <3>1. in = "clist" /\ call \in Calls
      BY <1>1, <1>4
    <3> HIDE DEF in, n, p
    <3>2. DueAt(call, "closure", in, p, s, n, len) = Done(call, p) + Block + Gen(Re, s)
      BY <3>1, DueIs
    <3>3. QED BY <3>2 DEF in, n, p
  <2> DEFINE c == Closed
  <2> HIDE DEF d, e, all, c
  <2>3. c = d + Block
    BY <2>1 DEF c
  <2>4. c \in Nat /\ c + e <= all /\ c + e = d + Block + e
    BY <1>3, <2>3
  <2>5. QED BY <1>3, <2>2, <2>4 DEF c, e, all
<1>5. CASE into = "nlist"
  <2>1. Closed = l + next + 1
    BY <1>5 DEF Closed
  <2>2. ASSUME NEW len
        PROVE  DueAt(call, "closure", into, pos, s, next, len) = l + next + 1 + e
    <3> DEFINE in == into
               n == next
               p == pos
    <3>1. in = "nlist" /\ call \in Calls
      BY <1>1, <1>5
    <3> HIDE DEF in, n, p
    <3>2. DueAt(call, "closure", in, p, s, n, len) = Listed(call, p) + n + 1 + Gen(Re, s)
      BY <3>1, DueIs
    <3>3. QED BY <3>2 DEF in, n, p
  <2>3. next + 1 <= Count /\ pos < Size(call)
    BY <1>1, <1>2, <1>3, <1>5
  <2> DEFINE c == Closed
  <2> HIDE DEF l, e, all, c
  <2>4. c = l + next + 1
    BY <2>1 DEF c
  <2>5. c \in Nat /\ c + e <= all /\ c + e = l + next + 1 + e
    BY <1>1, <1>3, <2>3, <2>4
  <2>6. QED BY <1>3, <2>2, <2>5 DEF c, e, all
<1>6. QED BY <1>1, <1>4, <1>5

\* The closure goes on, with s seen.
LEMMA ClosurePriced ==
  ASSUME PriceInv, phase = "closure", NEW h, Continue(h, "closure"),
         pos' = pos, into' = into, next' = next,
         NEW s \in SUBSET (0 .. (Count - 1)), seen' = s,
         Priced(h, Closed + Gen(Re, s)),
         h.ok => /\ Len(h.rc) <= Made /\ Len(h.stk) <= Cardinality(s) + 1
                 /\ Fitting(h, s)
  PROVE  PriceOnward /\ phase' # "done"
<1> DEFINE where == "closure"
           w == Closed + Gen(Re, s)
<1>1. /\ call \in Calls /\ pos \in Nat /\ call.start <= pos /\ pos <= Size(call)
      /\ into \in {"clist", "nlist"}
  BY Here
<1>2. /\ Closed \in Nat /\ Whole(call) \in Nat /\ Gen(Re, s) \in Nat
      /\ w <= Whole(call)
      /\ \A len : DueAt(call, "closure", into, pos, s, next, len) = w
  BY ClosedIs
<1>3. w \in Nat /\ w <= w
  BY <1>2
<1>4. ASSUME h.ok
      PROVE  /\ w = DueAt(call, where, into', pos', seen', next', Len(h.clist))
             /\ PlacedAt(call, where, into', pos', seen', next', h)
  <2>1. DueAt(call, where, into', pos', seen', next', Len(h.clist)) = w
    BY <1>2
  <2>2. PlacedAt(call, where, into', pos', seen', next', h)
    BY <1>1, <1>4 DEF PlacedAt, Fitting, Count, Made, Re
  <2>3. QED BY <2>1, <2>2
<1>5. Continue(h, where) /\ where \in {"seed", "closure", "clear", "step"} /\ Priced(h, w)
  OBVIOUS
<1> HIDE DEF where, w
<1>6. QED BY <1>1, <1>2, <1>3, <1>4, <1>5, ContinuePriced

\* The thread taken off the stack.
LEMMA PoppedSound ==
  ASSUME PriceInv, phase = "closure", heap.stk # <<>>
  PROVE  /\ Fitting(heap, seen)
         /\ Sound(Popped, Unstepped, mh, More(NoHand, Closing.h), Closed + Gen(Re, seen))
         /\ Kept(heap, Popped, {"stk"})
         /\ Len(Popped.stk) \in Nat /\ Len(Popped.stk) <= Cardinality(seen)
<1> DEFINE w == Closed + Gen(Re, seen)
           x == SubSeq(heap.stk, 1, Len(heap.stk) - 1)
           h == Popped
<1>1. /\ call \in Calls /\ heap \in Heaps /\ heap.ok /\ into \in {"clist", "nlist"}
      /\ seen \in SUBSET (0 .. (Count - 1)) /\ Cardinality(seen) \in Nat
      /\ Len(heap.stk) \in Nat /\ Sound(heap, Unstepped, mh, NoHand, Due)
  BY Here
<1>2. Fitting(heap, seen) /\ Len(heap.stk) <= Cardinality(seen) + 1
  BY <1>1 DEF PriceInv, Placed, PlacedAt, Live, Count, Re, Fitting
<1>3. Due = w
  BY <1>1, ClosedIs DEF Due
<1>4. /\ Good(h, Unstepped, mh, More(NoHand, Closing.h)) /\ Kept(heap, h, {"stk"})
  BY ClosingPopped DEF PriceInv
<1>5. "stk" \in Arrays /\ h = [heap EXCEPT !["stk"] = x]
  BY DEF Popped, Arrays
<1>6. Priced(heap, w) /\ Ledger(heap) /\ Len(heap.rc) <= Made
  BY <1>1, <1>3 DEF Sound, Priced
<1>7. h.stk = x /\ Len(x) = Len(heap.stk) - 1 /\ Len(heap.stk) \in Nat \ {0}
  <2>1. heap.stk \in Seq(Threads(Re)) /\ DOMAIN heap = Fields
    BY <1>1, <1>6 DEF Heaps, Ledger, Figured
  <2>2. Len(x) = Len(heap.stk) - 1 /\ Len(heap.stk) \in Nat \ {0}
    BY <2>1, AllButLast
  <2> HIDE DEF x
  <2>3. h.stk = x
    BY <1>5, <2>1 DEF Fields
  <2>4. QED BY <2>2, <2>3
<1> HIDE DEF x, h, w
<1>8. Priced(h, w)
  <2>1. Rebooked(heap, h)
    BY <1>5, <1>6, EntriesRebooked
  <2>2. QED BY <1>6, <2>1, PricedRebooked
<1>9. h.rc = heap.rc
  BY <1>4 DEF Kept
<1>10. Len(h.stk) \in Nat /\ Len(h.stk) <= Cardinality(seen)
  BY <1>1, <1>2, <1>7
<1>11. Sound(h, Unstepped, mh, More(NoHand, Closing.h), w)
  BY <1>4, <1>6, <1>8, <1>9 DEF Sound
<1>12. QED BY <1>2, <1>4, <1>10, <1>11 DEF h, w

\* A thread at an address not seen yet, paid for: room for two more on the
\* stack, one more in the list, and one more block.
LEMMA PaidSound ==
  ASSUME PriceInv, phase = "closure", heap.stk # <<>>, Closing.pc \notin seen
  PROVE  /\ seen \cup {Closing.pc} \in SUBSET (0 .. (Count - 1))
         /\ Cardinality(seen) \in Nat
         /\ Cardinality(seen \cup {Closing.pc}) = Cardinality(seen) + 1
         /\ Closed + Gen(Re, seen) + 1 \in Nat /\ Closed + Gen(Re, seen \cup {Closing.pc}) \in Nat
         /\ Closed + Gen(Re, seen \cup {Closing.pc})
              = Closed + Gen(Re, seen) + 1 + (IF Instr(Closing.pc).op = "OpSave" THEN Block ELSE 0)
         /\ Sound(Paid, Unstepped, mh, More(NoHand, Closing.h), Closed + Gen(Re, seen) + 1)
         /\ Kept(heap, Paid, {"stk"})
         /\ Len(Paid.stk) \in Nat /\ Len(Paid.stk) <= Cardinality(seen)
         /\ Len(Paid.stk) + 1 < Most("stk") /\ Spare(Paid, "stk") /\ Spare(Paid, into)
         /\ Uncrowded(Paid)
<1> DEFINE p == Closing.pc
           n == Cardinality(seen)
           k == Len(Paid.stk)
           x == Len(Paid.clist)
           y == Len(Paid.nlist)
           w == Closed + Gen(Re, seen)
<1>1. /\ call \in Calls /\ heap \in Heaps /\ into \in {"clist", "nlist"}
      /\ seen \in SUBSET (0 .. (Count - 1))
      /\ Len(heap.clist) \in Nat /\ Len(heap.nlist) \in Nat
  BY Here
<1>2. p \in 0 .. (Count - 1)
  BY ClosingPopped DEF PriceInv, Count
<1>3. /\ seen \cup {p} \in SUBSET (0 .. (Count - 1))
      /\ n < Count /\ Cardinality(seen \cup {p}) = n + 1
      /\ Gen(Re, seen \cup {p}) = Gen(Re, seen) + 1 + (IF Instr(p).op = "OpSave" THEN Block ELSE 0)
  <2> HIDE DEF p, n
  <2>1. p \notin seen
    BY DEF p
  <2>2. QED BY <1>1, <1>2, <2>1, GenGrows DEF n
<1>4. Count \in Nat \ {0} /\ n \in Nat /\ Block \in Nat
  BY <1>1, Sizes, AddressesFinite, CallFigures
<1>5. /\ Closed \in Nat /\ Gen(Re, seen) \in Nat /\ Gen(Re, seen \cup {p}) \in Nat
  BY <1>1, <1>3, ClosedIs
<1>6. /\ Fitting(heap, seen) /\ Sound(Popped, Unstepped, mh, More(NoHand, Closing.h), w)
      /\ Kept(heap, Popped, {"stk"})
      /\ Len(Popped.stk) \in Nat /\ Len(Popped.stk) <= n
  BY PoppedSound
<1>7. Paid \in Heaps /\ Kept(heap, Paid, {"stk"})
  BY ClosingPaid DEF PriceInv
<1>8. /\ Sound(Paid, Unstepped, mh, More(NoHand, Closing.h), w + 1)
      /\ Paid.stk = Popped.stk
  <2> DEFINE one == 1
             h == Popped
             lo == Unstepped
             m == mh
             g == More(NoHand, Closing.h)
  <2>1. one \in Nat /\ w \in Nat /\ Sound(h, lo, m, g, w) /\ h \in Heaps
    BY <1>5, <1>6 DEF Sound, Good
  <2> HIDE DEF one, h, lo, m, g, w
  <2>2. Sound(Pay(h, one), lo, m, g, w + one) /\ Kept(h, Pay(h, one), {})
    BY <1>1, <2>1, PaySound, PayKeeps
  <2>3. QED BY <2>2 DEF Paid, Kept, one, h, lo, m, g
<1>9. k \in Nat /\ k <= n /\ Paid.clist = heap.clist /\ Paid.nlist = heap.nlist
  BY <1>6, <1>7, <1>8 DEF Kept
<1>10. /\ x \in Nat /\ y \in Nat /\ x <= Count /\ y <= n
       /\ into = "clist" => x <= n
  <2>1. x = Len(heap.clist) /\ y = Len(heap.nlist)
    BY <1>9
  <2>2. CASE into = "clist"
    <3>1. Len(heap.clist) <= n /\ Len(heap.nlist) = 0
      BY <1>6, <2>2 DEF Fitting
    <3> HIDE DEF x, y, n
    <3>2. QED BY <1>1, <1>3, <1>4, <2>1, <3>1
  <2>3. CASE into # "clist"
    BY <1>1, <1>6, <2>1, <2>3 DEF Fitting
  <2>4. QED BY <2>2, <2>3
<1>11. k + 1 < Most("stk") /\ Spare(Paid, "stk") /\ Spare(Paid, into)
  <2>1. Most("stk") = 2 * Count /\ Most("clist") = Count /\ Most("nlist") = Count
    BY DEF Most
  <2>2. k + 1 < 2 * Count /\ k < 2 * Count /\ y < Count /\ (into = "clist" => x < Count)
    <3>1. /\ n \in Nat /\ n < Count /\ Count \in Nat \ {0} /\ k \in Nat /\ k <= n
          /\ x \in Nat /\ y \in Nat /\ y <= n /\ (into = "clist" => x <= n)
      BY <1>3, <1>4, <1>9, <1>10
    <3> HIDE DEF k, x, y, n
    <3>2. QED BY <3>1
  <2>5. Spare(Paid, "stk")
    BY <1>9, <2>1, <2>2 DEF Spare
  <2>6. Spare(Paid, into)
    <3>1. CASE into = "clist"
      BY <1>10, <2>1, <2>2, <3>1 DEF Spare
    <3>2. CASE into = "nlist"
      BY <1>10, <2>1, <2>2, <3>2 DEF Spare
    <3>3. QED BY <1>1, <3>1, <3>2
  <2>7. QED BY <2>1, <2>2, <2>5, <2>6
<1>12. Uncrowded(Paid)
  <2>1. x + y + k + 2 < Made
    <3>1. /\ n \in Nat /\ n < Count /\ Count \in Nat \ {0} /\ k \in Nat /\ k <= n
          /\ x \in Nat /\ y \in Nat /\ x <= Count /\ y <= n
      BY <1>3, <1>4, <1>9, <1>10
    <3> HIDE DEF x, y, k, n
    <3>2. QED BY <3>1 DEF Made
  <2>2. QED BY <2>1 DEF Uncrowded
<1>13. /\ Closed + Gen(Re, seen) + 1 \in Nat /\ Closed + Gen(Re, seen \cup {p}) \in Nat
       /\ Closed + Gen(Re, seen \cup {p})
            = Closed + Gen(Re, seen) + 1 + (IF Instr(p).op = "OpSave" THEN Block ELSE 0)
  <2> DEFINE c == Closed
             e == Gen(Re, seen)
             e2 == Gen(Re, seen \cup {p})
             z == IF Instr(p).op = "OpSave" THEN Block ELSE 0
  <2>1. c \in Nat /\ e \in Nat /\ e2 \in Nat /\ e2 = e + 1 + z /\ z \in Nat
    BY <1>3, <1>4, <1>5
  <2> HIDE DEF c, e, e2, z
  <2>2. c + e + 1 \in Nat /\ c + e2 \in Nat /\ c + e2 = c + e + 1 + z
    BY <2>1
  <2>3. QED BY <2>2 DEF c, e, e2, z
<1>14. QED BY <1>3, <1>4, <1>7, <1>8, <1>9, <1>11, <1>12, <1>13

\* A visit went on with a heap whose lists fit what has now been seen.
LEMMA VisitPriced ==
  ASSUME PriceInv, NEW ops, Visits(ops), NEW h, Visited(h), NEW w \in Nat,
         Sound(h, Unstepped, mh, NoHand, w),
         w <= Closed + Gen(Re, seen \cup {Closing.pc}),
         h.ok => /\ Len(h.stk) <= Cardinality(seen) + 2
                 /\ Fitting(h, seen \cup {Closing.pc})
  PROVE  PriceOnward /\ phase' # "done"
<1> DEFINE s == seen \cup {Closing.pc}
           v == Closed + Gen(Re, s)
           n == Cardinality(seen)
<1>1. /\ phase = "closure" /\ heap.stk # <<>> /\ Closing.pc \notin seen
      /\ Continue(h, "closure") /\ pos' = pos /\ into' = into /\ next' = next /\ seen' = s
  BY DEF Visits, Visited
<1>2. /\ s \in SUBSET (0 .. (Count - 1)) /\ v \in Nat
      /\ n \in Nat /\ Cardinality(s) = n + 1
  BY <1>1, PaidSound
<1>3. call \in Calls
  BY <1>1, Here
<1> HIDE DEF s
<1>4. Priced(h, v)
  <2>1. Priced(h, w) /\ w <= v
    BY DEF Sound, s
  <2> HIDE DEF v
  <2>2. QED BY <1>2, <1>3, <2>1, PricedMore
<1>5. h.ok => /\ Len(h.rc) <= Made /\ Len(h.stk) <= Cardinality(s) + 1
              /\ Fitting(h, s)
  <2>1. h.ok => Len(h.rc) <= Made /\ Len(h.stk) <= n + 2 /\ Fitting(h, s) /\ Len(h.stk) \in Nat
    BY DEF Sound, s, Good, Heaps
  <2>2. Cardinality(s) + 1 = n + 2
    <3> DEFINE c == Cardinality(s)
    <3>1. n \in Nat /\ c = n + 1
      BY <1>2
    <3> HIDE DEF c, n
    <3>2. c + 1 = n + 2
      BY <3>1
    <3>3. QED BY <3>2 DEF c
  <2>3. QED BY <2>1, <2>2
<1>6. QED BY <1>1, <1>2, <1>4, <1>5, ClosurePriced

\* A visit that leaves the lists alone.
LEMMA ListsFit ==
  ASSUME PriceInv, phase = "closure", heap.stk # <<>>, Closing.pc \notin seen,
         NEW h, h.clist = Paid.clist, h.nlist = Paid.nlist
  PROVE  Fitting(h, seen \cup {Closing.pc})
<1> DEFINE n == Cardinality(seen)
           c == Cardinality(seen \cup {Closing.pc})
           x == Len(heap.clist)
           y == Len(heap.nlist)
<1>1. n \in Nat /\ c = n + 1 /\ Kept(heap, Paid, {"stk"})
  BY PaidSound
<1>2. Fitting(heap, seen)
  BY PoppedSound
<1>3. h.clist = heap.clist /\ h.nlist = heap.nlist
  BY <1>1 DEF Kept
<1>4. x \in Nat /\ y \in Nat
  BY Here
<1>5. (x <= n => x <= c) /\ (y <= n => y <= c)
  <2> HIDE DEF n, c, x, y
  <2>1. QED BY <1>1, <1>4
<1>6. QED BY <1>2, <1>3, <1>5 DEF Fitting

LEMMA CloseSeenPrice ==
  ASSUME PriceInv, CloseSeen
  PROVE  PriceOnward /\ phase' # "done"
<1> DEFINE h == Popped
           b == Closing.h
           g == More(NoHand, b)
           lo == Unstepped
           m == mh
           s == seen
           w == Closed + Gen(Re, s)
           n == Cardinality(s)
           r == Drop(h, b)
<1>1. /\ phase = "closure" /\ heap.stk # <<>> /\ Continue(r, "closure")
      /\ pos' = pos /\ into' = into /\ next' = next /\ seen' = s
  BY DEF CloseSeen
<1>2. /\ call \in Calls /\ s \in SUBSET (0 .. (Count - 1)) /\ n \in Nat
  BY <1>1, Here
<1>3. w \in Nat
  <2>1. Closed \in Nat /\ Gen(Re, s) \in Nat
    BY <1>1, <1>2, ClosedIs
  <2>2. QED BY <2>1
<1>4. lo \in Nat \ {0} /\ b \in Nat /\ g \in Hands /\ g[b] > 0 /\ Less(g, b) = NoHand
  BY <1>1, ClosingPopped DEF PriceInv
<1>5. /\ Fitting(heap, s) /\ Sound(h, lo, m, g, w) /\ Kept(heap, h, {"stk"})
      /\ Len(h.stk) \in Nat /\ Len(h.stk) <= n
  BY <1>1, PoppedSound
<1> HIDE DEF h, b, g, lo, m, s, w
<1>6. Sound(r, lo, m, Less(g, b), w) /\ (r.ok => Kept(h, r, {"rc", "free"}))
  <2>1. Sound(r, lo, m, Less(g, b), w)
    BY <1>2, <1>3, <1>4, <1>5, DropSound
  <2>2. r.ok => Kept(h, r, {"rc", "free"})
    BY <1>2, <1>3, <1>4, <1>5, DropSound
  <2>3. QED BY <2>1, <2>2
<1> HIDE DEF r
<1>7. r.ok => Len(r.rc) <= Made /\ Len(r.stk) <= n + 1 /\ Fitting(r, s)
  <2>1. r.ok => /\ r.clist = heap.clist /\ r.nlist = heap.nlist /\ r.stk = h.stk
                /\ Len(r.rc) <= Made
    BY <1>5, <1>6 DEF Kept, Sound
  <2>2. Len(h.stk) <= n + 1
    <3> HIDE DEF n
    <3>1. QED BY <1>2, <1>5
  <2>3. QED BY <1>5, <2>1, <2>2 DEF Fitting
<1>8. Priced(r, Closed + Gen(Re, s))
  BY <1>6 DEF Sound, w
<1>9. QED BY <1>1, <1>2, <1>7, <1>8, ClosurePriced

LEMMA CloseParkPrice ==
  ASSUME PriceInv, ClosePark
  PROVE  PriceOnward /\ phase' # "done"
<1> DEFINE ops == (EaterOps \ {"OpBsr"}) \cup {"OpAccept"}
           h == Paid
           p == Closing.pc
           b == Closing.h
           g == More(NoHand, b)
           lo == Unstepped
           m == mh
           in == into
           s == seen \cup {p}
           n == Cardinality(seen)
           w == Closed + Gen(Re, seen) + 1
           r == Park(h, in, p, b)
<1>1. Visits(ops) /\ Visited(r)
  BY DEF ClosePark
<1>2. /\ phase = "closure" /\ heap.stk # <<>> /\ p \notin seen
      /\ Instr(p).op # "OpSave"
  BY <1>1 DEF Visits, EaterOps
<1>3. /\ call \in Calls /\ in \in {"clist", "nlist"} /\ Len(heap.clist) \in Nat
      /\ Len(heap.nlist) \in Nat
  BY <1>2, Here
<1>4. /\ lo \in Nat \ {0} /\ b \in Nat /\ g \in Hands /\ g[b] > 0 /\ Less(g, b) = NoHand
      /\ p \in 0 .. (Len(Re.code) - 1)
  BY <1>2, ClosingPopped DEF PriceInv
<1>5. /\ n \in Nat /\ Cardinality(s) = n + 1 /\ w \in Nat /\ w <= Closed + Gen(Re, s)
      /\ Sound(h, lo, m, g, w) /\ Kept(heap, h, {"stk"})
      /\ Len(h.stk) \in Nat /\ Len(h.stk) <= n /\ Spare(h, in)
  <2>1. /\ n \in Nat /\ Cardinality(s) = n + 1 /\ w \in Nat
        /\ Closed + Gen(Re, s) = w + (IF Instr(p).op = "OpSave" THEN Block ELSE 0)
        /\ Sound(h, lo, m, g, w) /\ Kept(heap, h, {"stk"})
        /\ Len(h.stk) \in Nat /\ Len(h.stk) <= n /\ Spare(h, in)
    BY <1>2, PaidSound
  <2>2. w <= Closed + Gen(Re, s)
    <3> DEFINE v == Closed + Gen(Re, s)
    <3>1. v = w + 0 /\ w \in Nat
      BY <1>2, <2>1
    <3> HIDE DEF v, w
    <3>2. w <= v
      BY <3>1
    <3>3. QED BY <3>2 DEF v
  <2>3. QED BY <2>1, <2>2
<1>6. in = "clist" => lo = 1
  BY <1>2 DEF PriceInv, IInv, Unstepped, Live
<1> HIDE DEF h, p, b, g, lo, m, in, w
<1>7. Sound(r, lo, m, Less(g, b), w) /\ Grown(h, r, in, p, b)
  <2>1. /\ call \in Calls /\ lo \in Nat \ {0} /\ g \in Hands /\ w \in Nat /\ Sound(h, lo, m, g, w)
        /\ p \in 0 .. (Len(Re.code) - 1) /\ b \in Nat /\ g[b] > 0
        /\ in \in {"clist", "nlist"} /\ (in = "clist" => lo = 1) /\ Spare(h, in)
    BY <1>3, <1>4, <1>5, <1>6
  <2>2. Sound(r, lo, m, Less(g, b), w)
    BY <2>1, ParkSound
  <2>3. Grown(h, r, in, p, b)
    <3>1. Good(h, lo, m, g)
      BY <2>1 DEF Sound
    <3>2. QED BY <2>1, <3>1, ParkGood
  <2>4. QED BY <2>2, <2>3
<1> HIDE DEF r
<1>8. ASSUME r.ok
      PROVE  Len(r.stk) <= n + 2 /\ Fitting(r, s)
  <2> DEFINE x == Len(heap.clist)
             y == Len(heap.nlist)
             k == Len(h.stk)
             c == Cardinality(s)
  <2>1. r.stk = h.stk
    BY <1>3, <1>7, <1>8 DEF Grown, Kept
  <2>2. Fitting(heap, seen)
    BY <1>2, PoppedSound
  <2>3. n \in Nat /\ c = n + 1 /\ x \in Nat /\ y \in Nat /\ k \in Nat /\ k <= n
    BY <1>3, <1>5
  <2>4. k <= n + 2 /\ (x <= n => x + 1 <= c) /\ (y <= n => y + 1 <= c)
    <3> HIDE DEF n, c, x, y, k
    <3>1. QED BY <2>3
  <2> DEFINE e == [pc |-> p, h |-> b]
  <2>5. /\ h.clist = heap.clist /\ h.nlist = heap.nlist /\ r[in] = Append(h[in], e)
        /\ Kept(h, r, {in})
    BY <1>5, <1>7, <1>8 DEF Grown, Kept
  <2>6. h.clist \in Seq(Threads(Re)) /\ h.nlist \in Seq(Threads(Re))
    BY <1>5 DEF Sound, Good, Heaps
  <2> HIDE DEF e
  <2>7. /\ Len(Append(h.clist, e)) = Len(heap.clist) + 1
        /\ Len(Append(h.nlist, e)) = Len(heap.nlist) + 1
    BY <2>5, <2>6
  <2>8. CASE in = "clist"
    <3>1. r.nlist = heap.nlist /\ Len(r.clist) = Len(heap.clist) + 1
      BY <2>5, <2>7, <2>8 DEF Kept
    <3>2. QED BY <2>1, <2>2, <2>4, <2>8, <3>1 DEF Fitting, in
  <2>9. CASE in = "nlist"
    <3>1. r.clist = heap.clist /\ Len(r.nlist) = Len(heap.nlist) + 1
      BY <2>5, <2>7, <2>9 DEF Kept
    <3>2. QED BY <2>1, <2>2, <2>4, <2>9, <3>1 DEF Fitting, in
  <2>10. QED BY <1>3, <2>8, <2>9
<1>9. Sound(r, Unstepped, mh, NoHand, w)
  BY <1>4, <1>7 DEF lo, m
<1> HIDE DEF ops, n
<1>10. QED BY <1>1, <1>5, <1>8, <1>9, VisitPriced DEF s, p, n

\* What the position has paid once this visit is charged.
Charged == Closed + Gen(Re, seen) + 1

\* A visit to an instruction that saves nothing.
LEMMA VisitPaid ==
  ASSUME PriceInv, NEW ops, Visits(ops), "OpSave" \notin ops
  PROVE  /\ phase = "closure" /\ heap.stk # <<>> /\ Closing.pc \notin seen
         /\ call \in Calls /\ Unstepped \in Nat \ {0} /\ Closing.h \in Nat
         /\ More(NoHand, Closing.h) \in Hands /\ More(NoHand, Closing.h)[Closing.h] > 0
         /\ Less(More(NoHand, Closing.h), Closing.h) = NoHand
         /\ Charged \in Nat /\ Charged <= Closed + Gen(Re, seen \cup {Closing.pc})
         /\ Sound(Paid, Unstepped, mh, More(NoHand, Closing.h), Charged)
         /\ Cardinality(seen) \in Nat
         /\ Len(Paid.stk) \in Nat /\ Len(Paid.stk) <= Cardinality(seen)
         /\ Len(Paid.stk) + 1 < Most("stk") /\ Spare(Paid, "stk")
<1>1. /\ phase = "closure" /\ heap.stk # <<>> /\ Closing.pc \notin seen
      /\ Instr(Closing.pc).op # "OpSave"
  BY DEF Visits
<1>2. /\ call \in Calls /\ Unstepped \in Nat \ {0} /\ Closing.h \in Nat
      /\ More(NoHand, Closing.h) \in Hands /\ More(NoHand, Closing.h)[Closing.h] > 0
      /\ Less(More(NoHand, Closing.h), Closing.h) = NoHand
  BY <1>1, ClosingPopped DEF PriceInv
<1>3. /\ Charged \in Nat /\ Cardinality(seen) \in Nat
      /\ Closed + Gen(Re, seen \cup {Closing.pc})
           = Charged + (IF Instr(Closing.pc).op = "OpSave" THEN Block ELSE 0)
      /\ Sound(Paid, Unstepped, mh, More(NoHand, Closing.h), Charged)
      /\ Len(Paid.stk) \in Nat /\ Len(Paid.stk) <= Cardinality(seen)
      /\ Len(Paid.stk) + 1 < Most("stk") /\ Spare(Paid, "stk")
  BY <1>1, PaidSound DEF Charged
<1>4. Charged <= Closed + Gen(Re, seen \cup {Closing.pc})
  <2> DEFINE v == Closed + Gen(Re, seen \cup {Closing.pc})
             w == Charged
  <2>1. v = w + 0 /\ w \in Nat
    BY <1>1, <1>3
  <2> HIDE DEF v, w
  <2>2. w <= v
    BY <2>1
  <2>3. QED BY <2>2 DEF v, w
<1>5. QED BY <1>1, <1>2, <1>3, <1>4

LEMMA VisitDefer ==
  ASSUME PriceInv, NEW ops, Visits(ops), "OpSave" \notin ops,
         NEW q \in 0 .. (Len(Re.code) - 1), Visited(Defer(Paid, q, Closing.h))
  PROVE  PriceOnward /\ phase' # "done"
<1> DEFINE h == Paid
           b == Closing.h
           g == More(NoHand, b)
           lo == Unstepped
           m == mh
           w == Charged
           n == Cardinality(seen)
           s == seen \cup {Closing.pc}
           d == Defer(h, q, b)
<1>1. phase = "closure" /\ heap.stk # <<>> /\ Closing.pc \notin seen
  BY VisitPaid
<1>2. /\ call \in Calls /\ lo \in Nat \ {0} /\ g \in Hands /\ w \in Nat /\ b \in Nat
      /\ g[b] > 0 /\ Sound(h, lo, m, g, w) /\ Spare(h, "stk") /\ q \in 0 .. (Len(Re.code) - 1)
  BY VisitPaid
<1>3. /\ Less(g, b) = NoHand /\ w <= Closed + Gen(Re, s)
      /\ n \in Nat /\ Len(h.stk) \in Nat /\ Len(h.stk) <= n
  BY VisitPaid
<1>4. Visited(d)
  OBVIOUS
<1> HIDE DEF h, b, g, lo, m, w, n
<1>5. Sound(d, lo, m, Less(g, b), w)
  BY <1>2, DeferSound
<1>6. d.ok => Kept(h, d, {"stk"})
  BY <1>2, <1>5, DeferSound
<1>7. d.ok => Len(d.stk) = Len(h.stk) + 1
  BY <1>2, <1>5, DeferSound
<1> HIDE DEF d
<1>8. ASSUME d.ok PROVE Len(d.stk) <= n + 2 /\ Fitting(d, s)
  <2>1. d.clist = Paid.clist /\ d.nlist = Paid.nlist
    BY <1>6, <1>8 DEF Kept, h
  <2>2. Fitting(d, s)
    BY <1>1, <2>1, ListsFit
  <2>3. Len(d.stk) <= n + 2
    <3> DEFINE k == Len(h.stk)
               x == Len(d.stk)
    <3>1. x = k + 1 /\ k \in Nat /\ k <= n /\ n \in Nat
      BY <1>3, <1>7, <1>8
    <3> HIDE DEF k, x
    <3>2. x <= n + 2
      BY <3>1
    <3>3. QED BY <3>2 DEF x
  <2>4. QED BY <2>2, <2>3
<1>9. Sound(d, Unstepped, mh, NoHand, w)
  BY <1>3, <1>5 DEF lo, m
<1>10. QED BY <1>2, <1>3, <1>4, <1>8, <1>9, VisitPriced DEF n

LEMMA VisitDrop ==
  ASSUME PriceInv, NEW ops, Visits(ops), "OpSave" \notin ops, Visited(Drop(Paid, Closing.h))
  PROVE  PriceOnward /\ phase' # "done"
<1> DEFINE h == Paid
           b == Closing.h
           g == More(NoHand, b)
           lo == Unstepped
           m == mh
           w == Charged
           n == Cardinality(seen)
           s == seen \cup {Closing.pc}
           d == Drop(h, b)
<1>1. phase = "closure" /\ heap.stk # <<>> /\ Closing.pc \notin seen
  BY VisitPaid
<1>2. /\ call \in Calls /\ lo \in Nat \ {0} /\ g \in Hands /\ w \in Nat /\ b \in Nat
      /\ g[b] > 0 /\ Sound(h, lo, m, g, w)
  BY VisitPaid
<1>3. /\ Less(g, b) = NoHand /\ w <= Closed + Gen(Re, s)
      /\ n \in Nat /\ Len(h.stk) \in Nat /\ Len(h.stk) <= n
  BY VisitPaid
<1>4. Visited(d)
  OBVIOUS
<1> HIDE DEF h, b, g, lo, m, w, n
<1>5. Sound(d, lo, m, Less(g, b), w)
  BY <1>2, DropSound
<1>6. d.ok => Kept(h, d, {"rc", "free"})
  BY <1>2, <1>5, DropSound
<1> HIDE DEF d
<1>7. ASSUME d.ok PROVE Len(d.stk) <= n + 2 /\ Fitting(d, s)
  <2>1. d.clist = Paid.clist /\ d.nlist = Paid.nlist /\ d.stk = h.stk
    BY <1>6, <1>7 DEF Kept, h
  <2>2. Fitting(d, s)
    BY <1>1, <2>1, ListsFit
  <2>3. Len(h.stk) <= n + 2
    BY <1>3
  <2>4. QED BY <2>1, <2>2, <2>3
<1>8. Sound(d, Unstepped, mh, NoHand, w)
  BY <1>3, <1>5 DEF lo, m
<1>9. QED BY <1>2, <1>3, <1>4, <1>7, <1>8, VisitPriced DEF n

LEMMA VisitFork ==
  ASSUME PriceInv, NEW ops, Visits(ops), "OpSave" \notin ops,
         NEW p \in 0 .. (Len(Re.code) - 1), NEW q \in 0 .. (Len(Re.code) - 1),
         Visited(Forked(Paid, p, q, Closing.h))
  PROVE  PriceOnward /\ phase' # "done"
<1> DEFINE h == Paid
           b == Closing.h
           lo == Unstepped
           m == mh
           w == Charged
           n == Cardinality(seen)
           s == seen \cup {Closing.pc}
           d == Forked(h, p, q, b)
<1>1. phase = "closure" /\ heap.stk # <<>> /\ Closing.pc \notin seen
  BY VisitPaid
<1>2. /\ call \in Calls /\ lo \in Nat \ {0} /\ w \in Nat /\ b \in Nat
      /\ Sound(h, lo, m, More(NoHand, b), w) /\ Spare(h, "stk")
      /\ p \in 0 .. (Len(Re.code) - 1) /\ q \in 0 .. (Len(Re.code) - 1)
      /\ Len(h.stk) + 1 < Most("stk")
  BY VisitPaid
<1>3. /\ w <= Closed + Gen(Re, s)
      /\ n \in Nat /\ Len(h.stk) \in Nat /\ Len(h.stk) <= n
  BY VisitPaid
<1>4. Visited(d)
  OBVIOUS
<1> HIDE DEF h, b, lo, m, w, n
<1>5. Sound(d, lo, m, NoHand, w)
  BY <1>2, ForkedSound
<1>6. d.ok => Kept(h, d, {"rc", "stk"}) /\ Len(d.stk) = Len(h.stk) + 2
  <2>1. d.ok => Kept(h, d, {"rc", "stk"})
    BY <1>2, <1>5, ForkedSound
  <2>2. d.ok => Len(d.stk) = Len(h.stk) + 2
    BY <1>2, <1>5, ForkedSound
  <2>3. QED BY <2>1, <2>2
<1> HIDE DEF d
<1>7. ASSUME d.ok PROVE Len(d.stk) <= n + 2 /\ Fitting(d, s)
  <2>1. d.clist = Paid.clist /\ d.nlist = Paid.nlist
    BY <1>6, <1>7 DEF Kept, h
  <2>2. Fitting(d, s)
    BY <1>1, <2>1, ListsFit
  <2>3. Len(d.stk) <= n + 2
    <3> DEFINE k == Len(h.stk)
               x == Len(d.stk)
    <3>1. x = k + 2 /\ k \in Nat /\ k <= n /\ n \in Nat
      BY <1>3, <1>6, <1>7
    <3> HIDE DEF k, x
    <3>2. x <= n + 2
      BY <3>1
    <3>3. QED BY <3>2 DEF x
  <2>4. QED BY <2>2, <2>3
<1>8. Sound(d, Unstepped, mh, NoHand, w)
  BY <1>5 DEF lo, m
<1>9. QED BY <1>2, <1>3, <1>4, <1>7, <1>8, VisitPriced DEF n

LEMMA CloseForkPrice ==
  ASSUME PriceInv, CloseSplit \/ CloseRepFork
  PROVE  PriceOnward /\ phase' # "done"
<1>1. CASE CloseSplit
  <2> DEFINE ops == {"OpSplit"}
             p == Instr(Closing.pc).arg
             q == Instr(Closing.pc).alt
  <2>1. Visits(ops) /\ Visited(Forked(Paid, p, q, Closing.h)) /\ "OpSave" \notin ops
    BY <1>1 DEF CloseSplit
  <2>2. call \in Calls /\ Closing.pc \in 0 .. (Len(Re.code) - 1)
    BY <2>1, ClosingPopped DEF PriceInv, Visits
  <2>3. p \in 0 .. (Len(Re.code) - 1) /\ q \in 0 .. (Len(Re.code) - 1)
    BY <2>1, <2>2, Control DEF Visits
  <2> HIDE DEF ops, p, q
  <2>4. QED BY <2>1, <2>3, VisitFork
<1>2. CASE CloseRepFork
  <2> DEFINE ops == {"OpRepLoop", "OpRepNext"}
             rep == At(Re.reps, Instr(Closing.pc).arg)
             p == IF rep.greedy THEN rep.body ELSE rep.after
             q == IF rep.greedy THEN rep.after ELSE rep.body
  <2>1. Visits(ops) /\ Visited(Forked(Paid, p, q, Closing.h)) /\ "OpSave" \notin ops
    BY <1>2 DEF CloseRepFork
  <2>2. call \in Calls /\ Closing.pc \in 0 .. (Len(Re.code) - 1)
    BY <2>1, ClosingPopped DEF PriceInv, Visits
  <2>3. p \in 0 .. (Len(Re.code) - 1) /\ q \in 0 .. (Len(Re.code) - 1)
    <3>1. Instr(Closing.pc).op \in RepOps
      BY <2>1 DEF Visits, RepOps
    <3>2. {rep.body, rep.after} \subseteq 0 .. (Len(Re.code) - 1)
      BY <2>2, <3>1, Control
    <3> HIDE DEF rep
    <3>3. QED BY <3>2
  <2> HIDE DEF ops, p, q
  <2>4. QED BY <2>1, <2>3, VisitFork
<1>3. QED BY <1>1, <1>2

LEMMA CloseDeferPrice ==
  ASSUME PriceInv, CloseJump \/ CloseRepEpsilon \/ CloseAssert
  PROVE  PriceOnward /\ phase' # "done"
<1>1. CASE CloseJump
  <2> DEFINE ops == {"OpJump"}
             q == Instr(Closing.pc).arg
  <2>1. Visits(ops) /\ Visited(Defer(Paid, q, Closing.h)) /\ "OpSave" \notin ops
    BY <1>1 DEF CloseJump
  <2>2. call \in Calls /\ Closing.pc \in 0 .. (Len(Re.code) - 1)
    BY <2>1, ClosingPopped DEF PriceInv, Visits
  <2>3. q \in 0 .. (Len(Re.code) - 1)
    BY <2>1, <2>2, Control DEF Visits
  <2> HIDE DEF ops, q
  <2>4. QED BY <2>1, <2>3, VisitDefer
<1>2. CASE CloseRepEpsilon \/ CloseAssert
  <2>1. PICK ops \in {{"OpRepZero", "OpRepEnter"}, AssertOps} :
          /\ Visits(ops)
          /\ \/ Visited(Defer(Paid, Closing.pc + 1, Closing.h))
             \/ Visited(Drop(Paid, Closing.h))
    <3>1. CASE CloseRepEpsilon
      BY <3>1 DEF CloseRepEpsilon
    <3>2. CASE CloseAssert
      BY <3>2 DEF CloseAssert
    <3>3. QED BY <1>2, <3>1, <3>2
  <2> DEFINE q == Closing.pc + 1
  <2>2. "OpSave" \notin ops
    BY DEF AssertOps
  <2>3. call \in Calls /\ Closing.pc \in 0 .. (Len(Re.code) - 1)
    BY <2>1, ClosingPopped DEF PriceInv, Visits
  <2>4. q \in 0 .. (Len(Re.code) - 1)
    BY <2>1, <2>3, Control DEF Visits, AssertOps
  <2>5. CASE Visited(Defer(Paid, q, Closing.h))
    <3> HIDE DEF q
    <3>1. QED BY <2>1, <2>2, <2>4, <2>5, VisitDefer
  <2>6. CASE Visited(Drop(Paid, Closing.h))
    BY <2>1, <2>2, <2>6, VisitDrop
  <2>7. QED BY <2>1, <2>5, <2>6
<1>3. QED BY <1>1, <1>2

LEMMA CloseSavePrice ==
  ASSUME PriceInv, CloseSave
  PROVE  PriceOnward /\ phase' # "done"
<1> DEFINE ops == {"OpSave"}
           h == Paid
           b == Closing.h
           lo == Unstepped
           m == mh
           k == Instr(Closing.pc).arg
           at == ClosingPos
           wr == Write(h, b, k, at)
           x == wr.heap
           f == wr.block
           g == More(NoHand, f)
           q == Closing.pc + 1
           d == Defer(x, q, f)
           w == Charged
           u == w + Block
           n == Cardinality(seen)
           s == seen \cup {Closing.pc}
<1>1. Visits(ops) /\ Visited(d)
  BY DEF CloseSave, Saved
<1>2. /\ phase = "closure" /\ heap.stk # <<>> /\ Closing.pc \notin seen
      /\ Instr(Closing.pc).op = "OpSave"
  BY <1>1 DEF Visits
<1>3. /\ call \in Calls /\ lo \in Nat \ {0} /\ b \in Nat /\ Closing.pc \in 0 .. (Len(Re.code) - 1)
  BY <1>2, ClosingPopped DEF PriceInv
<1>4. k \in 0 .. (Width - 1) /\ q \in 0 .. (Len(Re.code) - 1)
  BY <1>2, <1>3, Control
<1>5. at \in Nat
  <2>1. pos \in Nat
    BY <1>2, Here
  <2>2. QED BY <2>1 DEF ClosingPos
<1>6. /\ w \in Nat /\ n \in Nat
      /\ Closed + Gen(Re, s) = w + Block
      /\ Sound(h, lo, m, More(NoHand, b), w)
      /\ Len(h.stk) \in Nat /\ Len(h.stk) <= n
      /\ Spare(h, "stk") /\ Uncrowded(h)
  BY <1>2, PaidSound DEF Charged
<1>7. u \in Nat /\ u <= Closed + Gen(Re, s)
  <2> DEFINE v == Closed + Gen(Re, s)
  <2>1. v = u /\ w \in Nat /\ Block \in Nat
    BY <1>3, <1>6, CallFigures
  <2> HIDE DEF v, w
  <2>2. u \in Nat /\ u <= v
    BY <2>1
  <2>3. QED BY <2>2 DEF v
<1> HIDE DEF ops, h, b, lo, m, k, at, q, w, u, n
<1>8. /\ call \in Calls /\ lo \in Nat \ {0} /\ b \in Nat /\ w \in Nat
      /\ Sound(h, lo, m, More(NoHand, b), w) /\ k \in 0 .. (Width - 1) /\ at \in Nat
      /\ Uncrowded(h)
  BY <1>3, <1>4, <1>5, <1>6
<1>9. Sound(x, lo, m, g, u) /\ Wrote(h, wr, lo, m, NoHand)
  BY <1>8, WriteSound DEF u
<1>10. f \in Nat /\ (x.ok => h.ok /\ Kept(h, x, {"pool", "rc", "free"}))
  BY <1>9 DEF Wrote
<1> HIDE DEF wr
<1>11. g \in Hands /\ g[f] > 0 /\ Less(g, f) = NoHand
  BY <1>10, HandOne
<1> HIDE DEF x, f, g
<1>12. Spare(x, "stk")
  <2>1. x.ok => h.ok /\ x.stk = h.stk
    BY <1>10 DEF Kept
  <2>2. QED BY <1>6, <2>1 DEF Spare
<1>13. /\ call \in Calls /\ lo \in Nat \ {0} /\ g \in Hands /\ u \in Nat /\ f \in Nat
       /\ g[f] > 0 /\ Sound(x, lo, m, g, u) /\ Spare(x, "stk") /\ q \in 0 .. (Len(Re.code) - 1)
  BY <1>3, <1>4, <1>7, <1>9, <1>10, <1>11, <1>12
<1>14. Sound(d, lo, m, Less(g, f), u)
  BY <1>13, DeferSound
<1>15. d.ok => x.ok /\ Kept(x, d, {"stk"})
  BY <1>13, <1>14, DeferSound
<1>16. d.ok => Len(d.stk) = Len(x.stk) + 1
  BY <1>13, <1>14, DeferSound
<1> HIDE DEF d
<1>17. ASSUME d.ok PROVE Len(d.stk) <= n + 2 /\ Fitting(d, s)
  <2>1. d.clist = Paid.clist /\ d.nlist = Paid.nlist /\ x.stk = h.stk
    BY <1>10, <1>15, <1>17 DEF Kept, h
  <2>2. Fitting(d, s)
    BY <1>2, <2>1, ListsFit
  <2>3. Len(d.stk) <= n + 2
    <3> DEFINE i == Len(h.stk)
               j == Len(d.stk)
    <3>1. j = i + 1 /\ i \in Nat /\ i <= n /\ n \in Nat
      BY <1>6, <1>16, <1>17, <2>1
    <3> HIDE DEF i, j
    <3>2. j <= n + 2
      BY <3>1
    <3>3. QED BY <3>2 DEF j
  <2>4. QED BY <2>2, <2>3
<1>18. Sound(d, Unstepped, mh, NoHand, u)
  BY <1>11, <1>14 DEF lo, m
<1>19. QED BY <1>1, <1>7, <1>17, <1>18, VisitPriced DEF n

\* A list is complete: the marks are next, or the next thread.
LEMMA CloseDonePrice ==
  ASSUME PriceInv, CloseDone
  PROVE  PriceOnward /\ phase' # "done"
<1> DEFINE w == Closed + Gen(Re, seen)
           len == Len(heap.clist)
<1>1. /\ phase = "closure" /\ heap.stk = <<>> /\ heap' = heap
      /\ phase' = IF into = "clist" THEN "clear" ELSE "step"
      /\ next' = IF into = "clist" THEN next ELSE next + 1
      /\ pos' = pos /\ seen' = seen /\ into' = into
  BY DEF CloseDone
<1>2. /\ call \in Calls /\ heap \in Heaps /\ heap.ok /\ into \in {"clist", "nlist"}
      /\ pos \in Nat /\ next \in Nat /\ call.start <= pos /\ pos <= Size(call)
      /\ seen \in SUBSET (0 .. (Count - 1)) /\ len \in Nat
      /\ Len(heap.rc) <= Made /\ Sound(heap, Unstepped, mh, NoHand, Due)
  BY <1>1, Here
<1>3. /\ Closed \in Nat /\ Gen(Re, seen) \in Nat /\ Due = w /\ Size(call) \in Nat
  BY <1>1, <1>2, ClosedIs, PerPosIs DEF Due
<1>4. Priced(heap, w) /\ w \in Nat
  BY <1>2, <1>3 DEF Sound
<1>5. Fitting(heap, seen)
  BY <1>1, <1>2 DEF PriceInv, Placed, PlacedAt, Live, Count, Re, Fitting
<1>6. CASE into = "clist"
  <2>1. DueAt(call, phase', into', pos', seen', next', Len(heap'.clist)) = w
    <3> DEFINE in == into'
               p == pos'
               n == next'
               s == seen'
               l == Len(heap'.clist)
    <3> HIDE DEF in, p, n, s, l
    <3>1. DueAt(call, "clear", in, p, s, n, l) = Done(call, p) + Block + Gen(Re, s)
      BY <1>2, DueIs
    <3>2. w = Done(call, p) + Block + Gen(Re, s)
      BY <1>1, <1>6 DEF Closed, p, s
    <3>3. phase' = "clear"
      BY <1>1, <1>6
    <3>4. QED BY <3>1, <3>2, <3>3 DEF in, p, n, s, l
  <2>2. PlacedAt(call, phase', into', pos', seen', next', heap')
    BY <1>1, <1>2, <1>5, <1>6 DEF PlacedAt, Fitting, Count, Made, Re
  <2>3. QED BY <1>1, <1>4, <1>6, <2>1, <2>2 DEF PriceOnward
<1>7. CASE into = "nlist"
  <2> DEFINE x == IF next + 1 >= len THEN Block ELSE 0
             v == w + x
             l == Listed(call, pos)
             e == Gen(Re, seen)
  <2>1. l \in Nat /\ e \in Nat /\ Block \in Nat
    BY <1>2, SumsFit
  <2>2. w = l + next + 1 + e /\ x \in Nat
    BY <1>7, <2>1 DEF Closed
  <2>3. v \in Nat /\ w <= v
    <3> HIDE DEF w, x
    <3>1. QED BY <1>4, <2>2
  <2>4. DueAt(call, phase', into', pos', seen', next', Len(heap'.clist)) = v
    <3> DEFINE in == into'
               p == pos'
               n == next'
               s == seen'
               y == Len(heap'.clist)
    <3> HIDE DEF in, p, n, s, y
    <3>1. DueAt(call, "step", in, p, s, n, y)
            = Listed(call, p) + n + (IF n >= y THEN Block ELSE 0) + Gen(Re, s)
      BY <1>2, DueIs
    <3>2. Listed(call, p) = l /\ n = next + 1 /\ Gen(Re, s) = e /\ y = len
      BY <1>1, <1>7 DEF p, n, s, y
    <3> HIDE DEF l, e, len
    <3>3. DueAt(call, "step", in, p, s, n, y) = l + (next + 1) + x + e
      BY <3>1, <3>2
    <3> HIDE DEF x, w
    <3>4. l + (next + 1) + x + e = w + x
      BY <1>2, <2>1, <2>2
    <3>5. phase' = "step"
      BY <1>1, <1>7
    <3>6. QED BY <3>3, <3>4, <3>5 DEF in, p, n, s, y
  <2>5. Priced(heap, v)
    <3> HIDE DEF v, w
    <3>1. QED BY <1>2, <1>4, <2>3, PricedMore
  <2>6. PlacedAt(call, phase', into', pos', seen', next', heap')
    <3>1. next < len /\ pos < Size(call) /\ len <= Count /\ Len(heap.nlist) <= Cardinality(seen)
      BY <1>5, <1>7 DEF Fitting
    <3>2. next + 1 <= len /\ pos # Size(call)
      BY <1>2, <1>3, <3>1
    <3>3. QED BY <1>1, <1>2, <1>7, <3>1, <3>2 DEF PlacedAt, Count, Made, Re
  <2> HIDE DEF v
  <2>7. QED BY <1>1, <1>7, <2>4, <2>5, <2>6 DEF PriceOnward
<1>8. phase' # "done"
  BY <1>1
<1>9. QED BY <1>2, <1>6, <1>7, <1>8

-----------------------------------------------------------------------------
(* The certificate.                                                        *)

LEMMA CertIs ==
  ASSUME call \in Calls
  PROVE  /\ PolyAt(PikeCert(Re).cost, Size(call))
              = 2 * Block + Words(Re) + 3 * Reserved(Re) + (Size(call) + 1) * PerPos(Re)
         /\ PolyAt(PikeCert(Re).mem, Size(call)) = 2 * Block + Words(Re) + 2 * Reserved(Re)
<1> DEFINE all == 0 .. (Len(Re.code) - 1)
           saves == Cardinality(Saves(Re, all))
           b == Block
           n == Count
           k == Words(Re)
           v == Reserved(Re)
           f == Full(Re)
           m == PerPos(Re)
           r == Size(call) + 1
           position == 2 * n + (saves + 2) * b + k
           line(c0, c1) ==
             [base |-> 1, coef |-> [d \in Degrees |-> CASE d = 0 -> c0
                                                        [] d = 1 -> c1
                                                        [] OTHER -> 0]]
<1>1. /\ m = n + f + 2 * b + k /\ n \in Nat \ {0} /\ f \in Nat /\ b \in Nat /\ k \in Nat
      /\ r \in Nat /\ v \in Nat /\ m \in Nat
  BY PerPosIs, ReservedIs
<1>2. saves \in Nat
  BY SavesFinite
<1>3. f = n + b * saves
  <2>1. Cardinality(0 .. (Count - 1)) = Count
    BY AddressesFinite, GenNone
  <2>2. Cardinality(all) = n
    BY <2>1 DEF Count
  <2>3. f = Cardinality(all) + Cell(Re) * saves
    BY DEF Full, Gen
  <2>4. QED BY <2>2, <2>3 DEF Cell, Block, Width
<1>4. position = m
  <2> HIDE DEF saves, b, n, k, f, m
  <2>1. (saves + 2) * b = b * saves + 2 * b /\ b * saves \in Nat
    BY <1>1, <1>2
  <2>2. QED BY <1>1, <1>2, <1>3, <2>1
<1>5. {p \in 1 .. Len(Re.code) : Re.code[p].op = "OpSave"} = Saves(Re, all)
  <2>1. Len(Re.code) \in Nat
    BY <1>1 DEF Count
  <2>2. QED BY <2>1 DEF Saves
<1>6. /\ PikeCert(Re).cost = line(2 * b + k + 3 * v, position)
      /\ PikeCert(Re).mem = line(2 * b + k + 2 * v, 0)
  <2> DEFINE setup == 2 * (Novec(Re) * REG_SIZE) + Words(Re)
             saved == {p \in 1 .. Len(Re.code) : Re.code[p].op = "OpSave"}
             each == 2 * Len(Re.code) + (Cardinality(saved) + 2) * (Novec(Re) * REG_SIZE) + Words(Re)
  <2>1. /\ PikeCert(Re).cost = line(setup + 3 * Reserved(Re), each)
        /\ PikeCert(Re).mem = line(setup + 2 * Reserved(Re), 0)
    BY DEF PikeCert
  <2>2. setup = 2 * b + k /\ each = position
    BY <1>5 DEF Block, Width, Count
  <2> HIDE DEF line, setup, each, position
  <2>3. QED BY <2>1, <2>2
<1>7. ASSUME NEW c0 \in Nat, NEW c1 \in Nat
      PROVE  PolyAt(line(c0, c1), Size(call)) = c0 + r * c1
  <2> DEFINE p == line(c0, c1)
  <2>1. /\ p.base = 1 /\ p.coef[0] = c0 /\ p.coef[1] = c1
        /\ p.coef[2] = 0 /\ p.coef[3] = 0 /\ p.coef[4] = 0
    BY DEF Degrees
  <2> HIDE DEF p
  <2>2. PolyAt(p, Size(call)) = 1 * (c0 + r * (c1 + r * (0 + r * (0 + r * 0))))
    BY <2>1 DEF PolyAt
  <2> HIDE DEF r
  <2>3. r * 0 = 0 /\ r * (0 + r * 0) = 0 /\ r * c1 \in Nat /\ r * (0 + r * (0 + r * 0)) = 0
    BY <1>1
  <2>4. PolyAt(p, Size(call)) = c0 + r * c1
    BY <1>1, <2>2, <2>3
  <2>5. QED BY <2>4 DEF p
<1> DEFINE c == 2 * b + k + 3 * v
           d == 2 * b + k + 2 * v
           zero == 0
<1>8. c \in Nat /\ d \in Nat /\ zero \in Nat /\ position \in Nat /\ r * zero = 0 /\ d + 0 = d
  <2> HIDE DEF b, k, v, m, position, r
  <2>1. QED BY <1>1, <1>4
<1> HIDE DEF c, d, position, line, r, zero
<1>9. PikeCert(Re).cost = line(c, position) /\ PikeCert(Re).mem = line(d, zero)
  BY <1>6 DEF c, d, zero
<1>10. /\ PolyAt(line(c, position), Size(call)) = c + r * position
       /\ PolyAt(line(d, zero), Size(call)) = d + r * zero
  BY <1>7, <1>8
<1>11. /\ PolyAt(PikeCert(Re).cost, Size(call)) = c + r * m
       /\ PolyAt(PikeCert(Re).mem, Size(call)) = d
  BY <1>4, <1>8, <1>9, <1>10
<1>12. QED BY <1>11 DEF c, d, r

\* A run that stops has spent no more than the closed form.
LEMMA FinishPrice ==
  ASSUME PriceInv, Finish, IInv'
  PROVE  PriceInv'
<1> DEFINE n == Size(call) + 1
           s == call.start
           m == PerPos(Re)
           whole == Whole(call)
           b == Block
           k == Words(Re)
           v == Reserved(Re)
           x == Weights(heap)
           c == heap.cost
           certain == PolyAt(PikeCert(Re).cost, Size(call))
           held == PolyAt(PikeCert(Re).mem, Size(call))
<1>1. /\ phase = "stop" /\ phase' = "done" /\ call' = call
      /\ use'.cost \in {c, c + b} /\ use'.mem = heap.peak
  BY DEF Finish
<1>2. call \in Calls /\ Priced(heap, Due)
  BY <1>1 DEF PriceInv, IInv, Live
<1>3. Due = whole
  BY <1>1, <1>2, DueIs DEF Due
<1>4. /\ n \in Nat /\ s \in Nat /\ m \in Nat /\ b \in Nat /\ k \in Nat /\ v \in Nat
  BY <1>2, PerPosIs, ReservedIs
<1>5. whole \in Int /\ whole <= n * m /\ n * m \in Nat
  <2>1. whole = (n - s) * m
    BY DEF Whole, Done, Re
  <2> HIDE DEF whole, n, s, m
  <2>2. (n - s) * m = n * m - s * m /\ s * m \in Nat /\ n * m \in Nat
    BY <1>4
  <2>3. QED BY <2>1, <2>2
<1>6. Setup(call) = b + k
  BY DEF Setup, Block, Width, Re
<1>7. /\ c \in Nat /\ x \in Nat /\ x <= v
      /\ c <= b + k + whole + 3 * x
      /\ heap.peak \in Nat /\ heap.peak <= b + k + 2 * v
  <2>1. x \in Nat /\ x <= v
    BY <1>2, WeightsFit DEF Priced
  <2>2. c \in Nat /\ heap.peak \in Nat
    BY <1>2 DEF Priced, Ledger, Figured
  <2>3. c <= Setup(call) + whole + 3 * x /\ heap.peak <= Setup(call) + 2 * v
    BY <1>2, <1>3 DEF Priced
  <2>4. QED BY <1>6, <2>1, <2>2, <2>3
<1>8. certain = 2 * b + k + 3 * v + n * m /\ held = 2 * b + k + 2 * v
  BY <1>2, CertIs
<1> HIDE DEF n, s, m, whole, b, k, v, x, c, certain, held
<1>9. c + b <= certain /\ c <= certain /\ heap.peak <= held
  BY <1>4, <1>5, <1>7, <1>8
<1>10. use'.cost <= certain /\ use'.mem <= held
  BY <1>1, <1>9
<1>11. Re' = Re
  BY <1>1 DEF Re
<1>12. Certified'
  BY <1>1, <1>10, <1>11 DEF Certified, certain, held
<1>13. QED BY <1>1, <1>12 DEF PriceInv, Live

\* A call begins: nothing spent beyond the setup, or nothing at all.
LEMMA EnterPrice ==
  ASSUME PriceInv, PikeMatch(call), IInv'
  PROVE  PriceInv'
<1>1. /\ call \in Calls /\ IInv /\ call' = call
      /\ phase' \in {"done", "seed"} /\ use' = NoUse /\ pos' = call.start
      /\ into' = "clist" /\ next' = 0
  BY DEF PriceInv, IInv, PikeMatch, Enter
<1>2. CASE phase' = "done"
  <2> DEFINE certain == PolyAt(PikeCert(Re).cost, Size(call))
             held == PolyAt(PikeCert(Re).mem, Size(call))
  <2>1. 0 <= certain /\ 0 <= held
    <3> DEFINE b == Block
               k == Words(Re)
               v == Reserved(Re)
               n == Size(call) + 1
               m == PerPos(Re)
    <3>1. certain = 2 * b + k + 3 * v + n * m /\ held = 2 * b + k + 2 * v
      BY <1>1, CertIs
    <3>2. b \in Nat /\ k \in Nat /\ v \in Nat /\ n \in Nat /\ m \in Nat
      BY <1>1, PerPosIs, ReservedIs
    <3> HIDE DEF certain, held, b, k, v, n, m
    <3>3. n * m \in Nat
      BY <3>2
    <3>4. QED BY <3>1, <3>2, <3>3
  <2>2. use'.cost = 0 /\ use'.mem = 0 /\ Re' = Re
    BY <1>1 DEF NoUse, Re
  <2>3. Certified'
    BY <1>1, <2>1, <2>2 DEF Certified
  <2>4. QED BY <1>2, <2>3 DEF PriceInv, Live
<1>3. CASE phase' = "seed"
  <2> DEFINE r == heap'
             w == Done(call, call.start) + Gen(Re, {})
  <2>1. Ledger(r)
    BY <1>1, <1>3, EnterLedger DEF LedgerOnward, Live
  <2>2. /\ r.cap = [a \in Arrays |-> 0] /\ r.cost = Setup(call) /\ r.peak = Setup(call)
        /\ r.rc = <<>> /\ r.stk = <<>> /\ r.nlist = <<>> /\ r.clist = <<>> /\ seen' = {}
        /\ call.start <= Size(call)
    <3>1. /\ r = [Stale(NoCaps) EXCEPT !.cost = Setup(call), !.mem = Setup(call),
                                        !.peak = Setup(call)]
          /\ seen' = {} /\ ~(call.start > Size(call))
      BY <1>3 DEF PikeMatch, Enter
    <3>2. Size(call) \in Nat /\ call.start \in Nat
      BY <1>1, PerPosIs
    <3>3. call.start <= Size(call)
      BY <3>1, <3>2
    <3> DEFINE setup == Setup(call)
    <3> HIDE DEF setup, r
    <3>4. /\ r.cap = [a \in Arrays |-> 0] /\ r.cost = setup /\ r.peak = setup
          /\ r.rc = <<>> /\ r.stk = <<>> /\ r.nlist = <<>> /\ r.clist = <<>>
      BY <3>1 DEF Stale, NoCaps, setup
    <3>5. QED BY <3>1, <3>3, <3>4 DEF setup
  <2>3. w = 0
    <3> DEFINE s == call.start
               n == PerPos(Re)
    <3>1. s \in Nat /\ n \in Nat /\ Gen(Re, {}) = 0
      BY <1>1, PerPosIs, GenNone
    <3>2. Done(call, s) = (s - s) * n
      BY DEF Done, Re
    <3> HIDE DEF s, n
    <3>3. (s - s) * n = 0
      BY <3>1
    <3>4. QED BY <3>1, <3>2, <3>3 DEF s
  <2> HIDE DEF r, w
  <2>4. Priced(r, w)
    <3>1. \A a \in Arrays : PikeRoom(Re)[a] \in Nat /\ r.cap[a] = 0
      <4>1. \A a \in Arrays : PikeRoom(Re)[a] \in Nat
        <5> SUFFICES ASSUME NEW a \in Arrays PROVE PikeRoom(Re)[a] \in Nat
          OBVIOUS
        <5> DEFINE room == PikeRoom(Re)[a]
                   most == Most(a)
        <5>1. room = 4 + 2 * most /\ most \in Nat
          BY <1>1, RoomIs
        <5> HIDE DEF room, most
        <5>2. room \in Nat
          BY <5>1
        <5>3. QED BY <5>2 DEF room
      <4>2. QED BY <2>2, <4>1
    <3>2. \A a \in Arrays : r.cap[a] <= PikeRoom(Re)[a]
      <4> SUFFICES ASSUME NEW a \in Arrays PROVE r.cap[a] <= PikeRoom(Re)[a]
        OBVIOUS
      <4> DEFINE room == PikeRoom(Re)[a]
                 cap == r.cap[a]
      <4>1. room \in Nat /\ cap = 0
        BY <3>1
      <4> HIDE DEF room, cap
      <4>2. cap <= room
        BY <4>1
      <4>3. QED BY <4>2 DEF room, cap
    <3>3. Weights(r) \in Nat /\ Reserved(Re) \in Nat /\ Setup(call) \in Nat
      BY <1>1, <2>1, <3>2, WeightsFit, ReservedIs, CallFigures
    <3> DEFINE x == Weights(r)
               v == Reserved(Re)
               t == Setup(call)
    <3> HIDE DEF x, v, t
    <3>4. t <= t + w + 3 * x /\ t <= t + 2 * v
      <4>1. x \in Nat /\ v \in Nat /\ t \in Nat
        BY <3>3 DEF x, v, t
      <4>2. QED BY <2>3, <4>1
    <3>5. r.cost = t /\ r.peak = t
      BY <2>2 DEF t
    <3>6. QED BY <2>1, <3>2, <3>4, <3>5 DEF Priced, x, v, t
  <2>5. DueAt(call, phase', into', pos', seen', next', Len(r.clist)) = w
    <3> DEFINE len == Len(r.clist)
               p == pos'
               s == seen'
               n == next'
               in == into'
    <3> HIDE DEF len, p, s, n, in
    <3>1. DueAt(call, "seed", in, p, s, n, len) = Done(call, p) + Gen(Re, s)
      BY <1>1, DueIs
    <3>2. p = call.start /\ s = {}
      BY <1>1, <2>2 DEF p, s
    <3>3. QED BY <1>3, <3>1, <3>2 DEF len, p, s, n, in, w
  <2>6. PlacedAt(call, phase', into', pos', seen', next', r)
    <3>1. Cardinality({}) = 0
      BY <1>1, GenNone
    <3>2. /\ seen' = {} /\ pos' = call.start /\ call.start <= Size(call)
          /\ Len(r.rc) = 0 /\ Len(r.clist) = 0 /\ r.stk = <<>> /\ r.nlist = <<>>
          /\ call.start \in Nat /\ Len(call.re.code) \in Nat
      BY <1>1, <2>2, PerPosIs DEF Count, Re
    <3>3. call.start <= call.start /\ 0 <= 4 * Len(call.re.code) + 2
      BY <3>2
    <3>4. QED BY <1>1, <1>3, <3>1, <3>2, <3>3 DEF PlacedAt
  <2>7. PriceOnward /\ phase' # "done"
    BY <1>3, <2>4, <2>5, <2>6 DEF PriceOnward, r
  <2>8. QED BY <1>1, <2>7, OnwardPriced
<1>4. QED BY <1>1, <1>2, <1>3

LEMMA NextPriced ==
  ASSUME PriceInv, [Next]_vars
  PROVE  PriceInv'
<1>1. IInv /\ IInv'
  BY NextRight DEF PriceInv
<1>2. call' = call
  BY <1>1 DEF Next, PikeMatch, Enter, Run, Seed, Clear, StepEater, StepAccept, Advance, Finish,
     Closure, CloseSeen, ClosePark, CloseSplit, CloseJump, CloseSave, CloseAssert,
     CloseRepEpsilon, CloseRepFork, CloseDone, Visited, Returned, vars
<1>3. CASE PikeMatch(call)
  BY <1>1, <1>3, EnterPrice
<1>4. CASE Finish
  BY <1>1, <1>4, FinishPrice
<1>5. CASE Seed \/ Clear \/ StepEater \/ StepAccept \/ Advance \/ Closure
  <2>1. PriceOnward /\ phase' # "done"
    <3>1. CASE Seed \/ Clear \/ StepEater \/ StepAccept \/ Advance
      BY <3>1, SeedPrice, ClearPrice, StepEaterPrice, StepAcceptPrice, AdvancePrice
    <3>2. CASE Closure
      BY <3>2, CloseSeenPrice, CloseParkPrice, CloseForkPrice, CloseDeferPrice, CloseSavePrice,
         CloseDonePrice DEF Closure
    <3>3. QED BY <1>5, <3>1, <3>2
  <2>2. QED BY <1>1, <1>2, <2>1, OnwardPriced
<1>6. CASE Returned \/ UNCHANGED vars
  <2>1. UNCHANGED vars
    BY <1>6 DEF Returned
  <2>2. /\ call' = call /\ phase' = phase /\ heap' = heap /\ pos' = pos /\ seen' = seen
        /\ into' = into /\ next' = next /\ use' = use /\ result' = result
    BY <2>1 DEF vars
  <2>3. Re' = Re /\ Due' = Due
    BY <2>2 DEF Re, Due
  <2>4. (Placed' <=> Placed) /\ (Certified' <=> Certified)
    BY <2>2, <2>3 DEF Placed, Certified
  <2>5. Priced(heap, Due)' <=> Priced(heap, Due)
    BY <2>2, <2>3 DEF Priced, Ledger
  <2>6. QED BY <1>1, <2>2, <2>4, <2>5 DEF PriceInv, Live
<1>7. QED BY <1>3, <1>4, <1>5, <1>6 DEF Next, Run

-----------------------------------------------------------------------------
(* The price.                                                              *)

\* At every moment of every run of pike_run the arrays stay inside the room
\* pike_room reserved, the memory charged is what they weigh, and no limit of
\* the caller is passed; and a call that comes back, other than refused, has
\* cost no more than the closed form of pike_price at its subject's length.
THEOREM PriceHolds == Spec => []WithinPikePrice
<1>1. Init => PriceInv
  BY InitRight DEF PriceInv, Certified, Init, Live
<1>2. PriceInv /\ [Next]_vars => PriceInv'
  BY NextPriced
<1>3. PriceInv /\ LedgerExact => WithinPikePrice
  BY DEF PriceInv, Priced, Certified, WithinPikePrice, RoomSuffices
<1>4. QED BY <1>1, <1>2, <1>3, LedgerHolds, PTL DEF Spec
=============================================================================
