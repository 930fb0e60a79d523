--------------------------- MODULE ProgramProofs ---------------------------
(***************************************************************************)
(* Lemmas the proofs about both matchers rest on: about natural numbers,   *)
(* about sequences, and about the operators of Program.                    *)
(***************************************************************************)
EXTENDS Program, SequenceTheorems, FiniteSetTheorems, WellFoundedInduction, TLAPS

-----------------------------------------------------------------------------
(* Natural numbers.                                                        *)

\* The least-number principle.
LEMMA LeastOf ==
  ASSUME NEW S \in SUBSET Nat, S # {}
  PROVE  \E m \in S : \A k \in S : m <= k
<1> DEFINE R == {ss \in Nat \X Nat : ss[1] < ss[2]}
<1>1. IsWellFoundedOn(R, Nat)
  BY NatLessThanWellFounded DEF OpToRel
<1> HIDE DEF R
<1>2. PICK m \in S : \A k \in S : ~ (<<k, m>> \in R)
  BY <1>1, WFMin
<1>3. \A k \in S : ~(k < m)
  BY <1>2 DEF R
<1>4. QED BY <1>3

\* Induction, for a property given as the set of the numbers that have it.
LEMMA NatInd ==
  ASSUME NEW S, 0 \in S, \A n \in Nat : n \in S => n + 1 \in S
  PROVE  Nat \subseteq S
<1>1. SUFFICES ASSUME Nat \ S # {} PROVE FALSE
  OBVIOUS
<1>2. PICK m \in Nat \ S : \A k \in Nat \ S : m <= k
  BY <1>1, LeastOf
<1>3. m # 0 /\ m - 1 \in Nat /\ m - 1 \in S
  BY <1>2
<1>4. QED BY <1>2, <1>3

-----------------------------------------------------------------------------
(* Sequences.                                                              *)

\* Taking the last entry off a sequence leaves the others as they were.
LEMMA AllButLast ==
  ASSUME NEW S, NEW s \in Seq(S), s # <<>>
  PROVE  /\ SubSeq(s, 1, Len(s) - 1) \in Seq(S)
         /\ Len(SubSeq(s, 1, Len(s) - 1)) = Len(s) - 1
         /\ \A i \in 1 .. (Len(s) - 1) : SubSeq(s, 1, Len(s) - 1)[i] = s[i]
         /\ s[Len(s)] \in S
         /\ Len(s) \in Nat \ {0}
<1>1. Len(s) \in Nat \ {0}
  BY EmptySeq
<1>2. \A i \in 1 .. Len(s) : s[i] \in S
  BY ElementOfSeq
<1> DEFINE n == Len(s) - 1
           t == SubSeq(s, 1, n)
<1>3. n \in Nat /\ n \in Int /\ \A i \in 1 .. n : s[i] \in S
  BY <1>1, <1>2
<1> HIDE DEF n
<1>4. /\ t \in Seq(S)
      /\ Len(t) = IF 1 <= n THEN n - 1 + 1 ELSE 0
      /\ \A i \in 1 .. (n - 1 + 1) : t[i] = s[1 + i - 1]
  BY <1>3, SubSeqProperties
<1> HIDE DEF t
<1>5. t \in Seq(S) /\ Len(t) = n /\ \A i \in 1 .. n : t[i] = s[i]
  BY <1>3, <1>4
<1>6. s[Len(s)] \in S
  BY <1>1, <1>2
<1>7. QED BY <1>1, <1>5, <1>6 DEF t, n

\* What is on top of a stack, and what is below.
LEMMA TopOf ==
  ASSUME NEW S, NEW s \in Seq(S), NEW x \in S
  PROVE  /\ Append(s, x) # <<>>
         /\ Append(s, x)[Len(Append(s, x))] = x
         /\ SubSeq(Append(s, x), 1, Len(Append(s, x)) - 1) = s
         /\ Append(s, x) = s \o <<x>>
<1> DEFINE q == Append(s, x)
<1>1. /\ q \in Seq(S) /\ Len(q) = Len(s) + 1 /\ q[Len(s) + 1] = x /\ q = s \o <<x>>
      /\ \A i \in 1 .. Len(s) : q[i] = s[i]
  BY AppendProperties, AppendIsConcat
<1>2. q # <<>> /\ Len(s) \in Nat /\ Len(q) \in Nat
  BY <1>1, EmptySeq, LenProperties
<1> HIDE DEF q
<1>3. /\ SubSeq(q, 1, Len(q) - 1) \in Seq(S)
      /\ Len(SubSeq(q, 1, Len(q) - 1)) = Len(s)
      /\ \A i \in 1 .. Len(s) : SubSeq(q, 1, Len(q) - 1)[i] = s[i]
  BY <1>1, <1>2, AllButLast
<1>4. SubSeq(q, 1, Len(q) - 1) = s
  BY <1>3, SeqEqual
<1>5. QED BY <1>1, <1>2, <1>4 DEF q

\* Two entries, one after the other.
LEMMA Pair ==
  ASSUME NEW S, NEW a \in S, NEW b \in S
  PROVE  <<a>> \in Seq(S) /\ <<b>> \in Seq(S) /\ <<a>> \o <<b>> = <<a, b>>
<1> DEFINE q == Append(<<a>>, b)
           w == <<a, b>>
<1>1. <<a>> \in Seq(S) /\ Len(<<a>>) = 1 /\ <<a>>[1] = a /\ <<b>> \in Seq(S)
  OBVIOUS
<1>2. q \in Seq(S) /\ Len(q) = 2 /\ q[1] = a /\ q[2] = b /\ q = <<a>> \o <<b>>
  BY <1>1, AppendProperties, AppendIsConcat
<1>3. w \in Seq(S) /\ Len(w) = 2 /\ w[1] = a /\ w[2] = b
  OBVIOUS
<1> HIDE DEF q, w
<1>4. ASSUME NEW i \in 1 .. Len(q) PROVE q[i] = w[i]
  <2>1. i = 1 \/ i = 2
    BY <1>2
  <2>2. QED BY <1>2, <1>3, <2>1
<1>5. q = w
  BY <1>2, <1>3, <1>4, SeqEqual
<1>6. QED BY <1>1, <1>2, <1>5 DEF q, w

-----------------------------------------------------------------------------
(* Facts about the operators of Program.                                   *)

\* Growing an array never shrinks it, never passes the portable bound, and
\* makes room for at least one more entry below that bound.
LEMMA GrownCapGrows ==
  ASSUME NEW cap \in Nat, NEW maxv \in Nat, cap <= maxv
  PROVE  /\ GrownCap(cap, maxv) \in Nat
         /\ cap <= GrownCap(cap, maxv)
         /\ GrownCap(cap, maxv) <= maxv
         /\ cap < maxv => cap < GrownCap(cap, maxv)
BY DEF GrownCap, GROW_FACTOR, GROW_MIN

\* The newline at a position lies inside the subject.
LEMMA NewlineInside ==
  ASSUME NEW s \in Seq(Bytes), NEW p \in 0 .. Len(s), NEW nl \in NewlineTypes
  PROVE  NewlineAt(s, p, nl) \in Nat /\ p + NewlineAt(s, p, nl) <= Len(s)
BY DEF NewlineAt, CrLfAt, NewlineTypes

\* A consuming instruction eats no more than there is.
LEMMA EatsInside ==
  ASSUME NEW c \in CallTypes, NEW inst \in Insts, NEW p \in 0 .. Size(c)
  PROVE  Eats(c, inst, p) \in Nat /\ p + Eats(c, inst, p) <= Size(c)
<1>1. c.subj \in Seq(Bytes) /\ Size(c) = Len(c.subj) /\ Len(c.subj) \in Nat
  BY DEF CallTypes, Size
<1>2. BsrAt(c.subj, p, c.re.bsr) \in Nat /\ p + BsrAt(c.subj, p, c.re.bsr) <= Size(c)
  BY <1>1, NewlineInside DEF BsrAt, NewlineTypes
<1>3. CASE inst.op = "OpBsr"
  BY <1>2, <1>3 DEF Eats
<1>4. CASE inst.op # "OpBsr"
  BY <1>1, <1>4 DEF Eats
<1>5. QED BY <1>3, <1>4

\* Control of a well-formed program stays inside it.
LEMMA ControlInside ==
  ASSUME NEW re, WellFormed(re), NEW p \in Nat, p < Len(re.code)
  PROVE  /\ Len(re.code) \in Nat
         /\ At(re.code, p) \in Insts
         /\ Successors(re, p) \subseteq 0 .. (Len(re.code) - 1)
         /\ At(re.code, p).op = "OpSave" => At(re.code, p).arg \in Slots(re)
         /\ At(re.code, p).op \in RepOps =>
              /\ At(re.reps, At(re.code, p).arg) \in Reps
              /\ CountSlot(re, At(re.code, p).arg) \in Slots(re)
              /\ EntrySlot(re, At(re.code, p).arg) \in Slots(re)
<1>1. re.code \in Seq(Insts) /\ re.reps \in Seq(Reps) /\ re.ncap \in Nat
      /\ re.nregs \in Nat
  BY DEF WellFormed, Res
<1>2. Len(re.code) \in Nat /\ Len(re.reps) \in Nat /\ At(re.code, p) \in Insts
  BY <1>1 DEF At
<1>3. At(re.code, p).arg \in Nat /\ p \in 0 .. (Len(re.code) - 1)
  BY <1>2 DEF Insts
<1>4. /\ At(re.code, p).op \in RepOps => At(re.code, p).arg < Len(re.reps)
      /\ At(re.code, p).op = "OpSave" => At(re.code, p).arg < Novec(re)
      /\ Successors(re, p) \subseteq 0 .. (Len(re.code) - 1)
      /\ re.nregs = Novec(re) + 2 * Len(re.reps)
  BY <1>3 DEF WellFormed
<1>5. ASSUME At(re.code, p).op \in RepOps
      PROVE  At(re.reps, At(re.code, p).arg) \in Reps
  BY <1>1, <1>2, <1>3, <1>4, <1>5 DEF At
<1>6. ASSUME At(re.code, p).op \in RepOps
      PROVE  /\ CountSlot(re, At(re.code, p).arg) \in Slots(re)
             /\ EntrySlot(re, At(re.code, p).arg) \in Slots(re)
  <2> DEFINE a == At(re.code, p).arg
             k == Len(re.reps)
             n == Novec(re)
  <2>1. a \in Nat /\ k \in Nat /\ n \in Nat /\ a < k /\ re.nregs = n + 2 * k
    BY <1>1, <1>2, <1>3, <1>4, <1>6 DEF Novec
  <2>2. CountSlot(re, a) = n + 2 * a /\ EntrySlot(re, a) = n + 2 * a + 1
    BY DEF CountSlot, EntrySlot
  <2>3. Slots(re) = 0 .. (n + 2 * k - 1)
    BY <2>1 DEF Slots
  <2> HIDE DEF a, k, n
  <2>4. n + 2 * a \in 0 .. (n + 2 * k - 1) /\ n + 2 * a + 1 \in 0 .. (n + 2 * k - 1)
    BY <2>1
  <2>5. QED BY <2>2, <2>3, <2>4 DEF a
<1>7. ASSUME At(re.code, p).op = "OpSave"
      PROVE  At(re.code, p).arg \in Slots(re)
  <2> DEFINE a == At(re.code, p).arg
             k == Len(re.reps)
             n == Novec(re)
  <2>1. a \in Nat /\ k \in Nat /\ n \in Nat /\ a < n /\ re.nregs = n + 2 * k
    BY <1>1, <1>2, <1>3, <1>4, <1>7 DEF Novec
  <2> HIDE DEF a, k, n
  <2>2. QED BY <2>1 DEF Slots, a
<1>8. QED BY <1>2, <1>4, <1>5, <1>6, <1>7
=============================================================================
