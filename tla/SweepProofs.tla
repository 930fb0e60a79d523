----------------------------- MODULE SweepProofs -----------------------------
(***************************************************************************)
(* What becomes of the failures of a sweep.  Their way into the corpora,   *)
(* for every population of failing cases, however many sweeps and          *)
(* promotions are run and however many of them are killed: no corpus holds *)
(* a name twice, a promotion nobody kills is there as a whole, and what a  *)
(* corpus is about to gain is fixed.  The reduction of a failing case,     *)
(* whatever the case and whatever makes it fail: it goes on failing, never *)
(* grows, and ends where nothing more can be taken away.  And the report   *)
(* of a campaign, whatever its cases come to: it is the one a single       *)
(* process makes, whoever ran which chunk and whenever it came back.       *)
(***************************************************************************)
EXTENDS SweepCaseProofs, WellFoundedInduction

-----------------------------------------------------------------------------
(* The failure loop: its inductive invariant.                              *)

LoopKinds == Semantic \cup Invariants
Entries == [case : Failing, kind : LoopKinds, minimized : BOOLEAN]
Names == [case : Failing, kind : LoopKinds, number : Nat]

\* A sequence of names with none of them twice.
Distinct(s) == \A i, j \in 1..Len(s) : s[i] = s[j] => i = j
NameList(s) == s \in Seq(Names) /\ Distinct(s)

Apart(s, t) == ToSet(s) \cap ToSet(t) = {}

LoopTypes ==
  /\ broken \in SUBSET (Failing \X LoopKinds)
  /\ failures \in Seq(Entries)
  /\ NameList(wave1) /\ NameList(kept)
  /\ writing \in [wave1 : Seq(Names), kept : Seq(Names), stage : {"idle", "wave1", "kept"}]
  /\ killed \in Nat

\* What a promotion has still to write is new to the corpus it is for.
WritingRight ==
  /\ writing.stage = "idle" => writing.wave1 = <<>> /\ writing.kept = <<>>
  /\ Distinct(writing.wave1) /\ Distinct(writing.kept)
  /\ writing.stage = "wave1" => Apart(writing.wave1, wave1)
  /\ Apart(writing.kept, kept)

\* A promotion nobody killed has been written, or is being.
BatchesRight ==
  killed = 0 => \A batch \in batches :
    /\ ToSet(batch[1]) \subseteq ToSet(wave1) \cup (IF writing.stage = "wave1" THEN ToSet(writing.wave1) ELSE {})
    /\ ToSet(batch[2]) \subseteq ToSet(kept) \cup ToSet(writing.kept)

LoopInv == LoopTypes /\ WritingRight /\ BatchesRight /\ Loop!GainsAreFixed

PromotionInv == about = "loop" => LoopInv

-----------------------------------------------------------------------------
(* Numbers and sequences.                                                  *)

\* Induction, for a property given as the set of the numbers that have it.
LEMMA CountingUp ==
  ASSUME NEW S, 0 \in S, \A n \in Nat : n \in S => n + 1 \in S
  PROVE  Nat \subseteq S
<1> DEFINE R == {ss \in Nat \X Nat : ss[1] < ss[2]}
<1>1. IsWellFoundedOn(R, Nat)
  BY NatLessThanWellFounded DEF OpToRel
<1> HIDE DEF R
<1>2. SUFFICES ASSUME Nat \ S # {} PROVE FALSE
  OBVIOUS
<1>3. PICK m \in Nat \ S : \A k \in Nat \ S : ~ (<<k, m>> \in R)
  <2>1. Nat \ S \in SUBSET Nat
    OBVIOUS
  <2>2. QED BY <1>1, <1>2, <2>1, WFMin
<1>4. m # 0 /\ m - 1 \in Nat /\ m - 1 \notin S
  BY <1>3
<1>5. <<m - 1, m>> \in R
  BY <1>4 DEF R
<1>6. QED BY <1>3, <1>4, <1>5

\* The entries of a sequence are its members.
LEMMA Members ==
  ASSUME NEW S, NEW s \in Seq(S)
  PROVE  /\ ToSet(s) \in SUBSET S /\ Len(s) \in Nat
         /\ \A x : x \in ToSet(s) <=> \E i \in 1..Len(s) : x = s[i]
BY ElementOfSeq, LenProperties DEF ToSet

\* A sequence with no entry twice has as many members as places.
LEMMA DistinctCount ==
  ASSUME NEW S, NEW s \in Seq(S), Distinct(s)
  PROVE  Cardinality(ToSet(s)) = Len(s)
<1> DEFINE n == Len(s)
<1>1. n \in Nat /\ IsFiniteSet(1..n) /\ Cardinality(1..n) = n
  <2>1. n \in Nat
    BY LenProperties
  <2> HIDE DEF n
  <2>2. 1 \in Int /\ n \in Int /\ (1 > n => n = 0) /\ n - 1 + 1 = n
    BY <2>1
  <2>3. IsFiniteSet(1..n) /\ Cardinality(1..n) = IF 1 > n THEN 0 ELSE n - 1 + 1
    BY <2>2, FS_Interval
  <2>4. QED BY <2>1, <2>2, <2>3
<1>2. s \in Bijection(1..n, ToSet(s))
  <2>1. s \in [1..n -> ToSet(s)]
    BY LenProperties DEF ToSet
  <2>2. \A i, j \in 1..n : s[i] = s[j] => i = j
    BY DEF Distinct
  <2>3. \A x \in ToSet(s) : \E i \in 1..n : s[i] = x
    BY Members
  <2>4. QED BY <2>1, <2>2, <2>3 DEF Bijection, Injection, Surjection, IsInjective
<1>3. ExistsBijection(1..n, ToSet(s))
  BY <1>2 DEF ExistsBijection
<1>4. QED BY <1>1, <1>3, FS_Bijection

\* Two lists that share no name make one that has no name twice.
LEMMA Joined ==
  ASSUME NEW S, NEW s \in Seq(S), NEW t \in Seq(S)
  PROVE  /\ s \o t \in Seq(S)
         /\ ToSet(s \o t) = ToSet(s) \cup ToSet(t)
         /\ Distinct(s) /\ Distinct(t) /\ Apart(t, s) => Distinct(s \o t)
<1> DEFINE u == s \o t
           m == Len(s)
           n == Len(t)
<1>1. /\ u \in Seq(S) /\ Len(u) = m + n /\ m \in Nat /\ n \in Nat
      /\ \A i \in 1..(m + n) : u[i] = IF i <= m THEN s[i] ELSE t[i - m]
  BY ConcatProperties, LenProperties
<1>2. /\ \A x : x \in ToSet(s) <=> \E i \in 1..m : x = s[i]
      /\ \A x : x \in ToSet(t) <=> \E i \in 1..n : x = t[i]
  BY Members
<1> HIDE DEF u
<1>3. \A x : x \in ToSet(u) <=> \E i \in 1..(m + n) : x = u[i]
  <2>1. \A x : x \in ToSet(u) <=> \E i \in 1..Len(u) : x = u[i]
    BY <1>1, Members
  <2>2. QED BY <1>1, <2>1
<1> HIDE DEF m, n
<1>4. /\ \A i \in 1..m : i \in 1..(m + n) /\ u[i] = s[i]
      /\ \A i \in 1..n : i + m \in 1..(m + n) /\ u[i + m] = t[i]
  <2>1. \A i \in 1..n : i + m \in 1..(m + n) /\ ~(i + m <= m) /\ (i + m) - m = i
    BY <1>1
  <2>2. \A i \in 1..m : i \in 1..(m + n) /\ i <= m
    BY <1>1
  <2>3. QED BY <1>1, <2>1, <2>2
<1>5. \A i \in 1..(m + n) : i \in 1..m \/ (i - m \in 1..n /\ u[i] = t[i - m])
  BY <1>1
<1>6. ToSet(u) = ToSet(s) \cup ToSet(t)
  <2>1. ASSUME NEW x \in ToSet(u) PROVE x \in ToSet(s) \cup ToSet(t)
    <3>1. PICK i \in 1..(m + n) : x = u[i]
      BY <1>3
    <3>2. QED BY <3>1, <1>2, <1>4, <1>5
  <2>2. ASSUME NEW x \in ToSet(s) PROVE x \in ToSet(u)
    BY <1>2, <1>3, <1>4
  <2>3. ASSUME NEW x \in ToSet(t) PROVE x \in ToSet(u)
    <3>1. PICK i \in 1..n : x = t[i]
      BY <1>2
    <3>2. QED BY <3>1, <1>3, <1>4
  <2>4. QED BY <2>1, <2>2, <2>3
<1>7. ASSUME Distinct(s), Distinct(t), Apart(t, s) PROVE Distinct(u)
  <2>1. /\ \A i, j \in 1..m : s[i] = s[j] => i = j
        /\ \A i, j \in 1..n : t[i] = t[j] => i = j
    BY <1>7 DEF Distinct, m, n
  <2>2. \A i \in 1..m, j \in 1..n : s[i] # t[j]
    BY <1>2, <1>7 DEF Apart
  <2>3. SUFFICES ASSUME NEW i \in 1..(m + n), NEW j \in 1..(m + n), u[i] = u[j] PROVE i = j
    BY <1>1 DEF Distinct
  <2>4. CASE i \in 1..m /\ j \in 1..m
    BY <2>1, <2>3, <2>4, <1>4
  <2>5. CASE i \in 1..m /\ j \notin 1..m
    BY SMTT(30), <2>2, <2>3, <2>5, <1>4, <1>5
  <2>6. CASE i \notin 1..m /\ j \in 1..m
    BY <2>2, <2>3, <2>6, <1>4, <1>5
  <2>7. CASE i \notin 1..m /\ j \notin 1..m
    <3>1. i - m = j - m
      BY <2>1, <2>3, <2>7, <1>5
    <3>2. QED BY <3>1, <1>1
  <2>8. QED BY <2>4, <2>5, <2>6, <2>7
<1>8. QED BY <1>1, <1>6, <1>7 DEF u

\* What an entry added at the end changes.
LEMMA Appended ==
  ASSUME NEW S, NEW s \in Seq(S), NEW e \in S
  PROVE  /\ Append(s, e) \in Seq(S)
         /\ ToSet(Append(s, e)) = ToSet(s) \cup {e}
         /\ Distinct(s) /\ e \notin ToSet(s) => Distinct(Append(s, e))
<1> DEFINE t == <<e>>
<1>1. t \in Seq(S) /\ Len(t) = 1 /\ t[1] = e
  OBVIOUS
<1>2. ToSet(t) = {e} /\ Distinct(t)
  <2>1. DOMAIN t = {1}
    BY <1>1
  <2>2. ToSet(t) = {e}
    BY <1>1, <2>1 DEF ToSet
  <2>3. QED BY <1>1, <2>2 DEF Distinct
<1>3. Append(s, e) = s \o t
  BY AppendIsConcat
<1> HIDE DEF t
<1>4. QED BY <1>1, <1>2, <1>3, Joined DEF Apart

-----------------------------------------------------------------------------
(* The operators of Promotion.                                             *)

\* Promotion reads the standard operators as this module does.
LEMMA LoopReads ==
  /\ \A S : Loop!Cardinality(S) = Cardinality(S)
  /\ \A s : Loop!ToSet(s) = ToSet(s)
<1>1. ASSUME NEW S PROVE Loop!Cardinality(S) = Cardinality(S)
  BY DEF Loop!Cardinality, Cardinality
<1>2. ASSUME NEW s PROVE Loop!ToSet(s) = ToSet(s)
  BY DEF Loop!ToSet, ToSet
<1>3. QED BY <1>1, <1>2

\* Entries are chosen one after the other.
LEMMA ChosenSteps ==
  ASSUME NEW entries, NEW S, Len(entries) \in Nat
  PROVE  \E from : /\ Loop!Chosen(entries, S) = from[Len(entries)]
                   /\ \A k \in 0..Len(entries) :
                        from[k] = IF k = 0 THEN <<>>
                                  ELSE IF entries[k] \in S THEN Append(from[k - 1], entries[k])
                                       ELSE from[k - 1]
<1> DEFINE Step(x, k) == IF entries[k] \in S THEN Append(x, entries[k]) ELSE x
           F(f, n) == f = [k \in 0..n |-> IF k = 0 THEN <<>>
                                          ELSE IF entries[k] \in S THEN Append(f[k - 1], entries[k])
                                               ELSE f[k - 1]]
           Q == {n \in Nat : \E f : F(f, n)}
<1>1. 0 \in Q
  <2> DEFINE f == [k \in 0..0 |-> <<>>]
  <2>1. F(f, 0)
    OBVIOUS
  <2>2. QED BY <2>1
<1>2. ASSUME NEW n \in Nat, n \in Q PROVE n + 1 \in Q
  <2>1. PICK f : F(f, n)
    BY <1>2
  <2> DEFINE g == [k \in 0..(n + 1) |-> IF k = n + 1 THEN Step(f[n], n + 1) ELSE f[k]]
             e == [k \in 0..(n + 1) |-> IF k = 0 THEN <<>> ELSE Step(g[k - 1], k)]
  <2>2. \A k \in 0..n : f[k] = IF k = 0 THEN <<>> ELSE Step(f[k - 1], k)
    BY <2>1
  <2> HIDE DEF Step
  <2>3. ASSUME NEW k \in 0..(n + 1) PROVE g[k] = e[k]
    <3>1. CASE k = n + 1
      <4>1. k - 1 \in 0..(n + 1) /\ k - 1 # n + 1 /\ k - 1 = n /\ k # 0
        BY <3>1
      <4>2. g[k] = Step(f[n], k) /\ g[k - 1] = f[n]
        BY <3>1, <4>1
      <4>3. e[k] = Step(g[k - 1], k)
        BY <4>1
      <4>4. QED BY <4>2, <4>3
    <3>2. CASE k # n + 1 /\ k # 0
      <4>1. k \in 0..n /\ k - 1 \in 0..(n + 1) /\ k - 1 # n + 1
        BY <3>2
      <4>2. g[k] = f[k] /\ g[k - 1] = f[k - 1]
        BY <3>2, <4>1
      <4>3. QED BY <2>2, <3>2, <4>1, <4>2
    <3>3. CASE k = 0
      <4>1. 0 \in 0..n /\ 0 # n + 1
        OBVIOUS
      <4>2. QED BY <2>2, <3>3, <4>1
    <3>4. QED BY <3>1, <3>2, <3>3
  <2>4. g = e
    BY <2>3
  <2>5. F(g, n + 1)
    BY <2>4 DEF Step
  <2> HIDE DEF g
  <2>6. n + 1 \in Nat /\ \E f0 : F(f0, n + 1)
    <3> HIDE DEF F
    <3>1. QED BY <2>5
  <2> HIDE DEF F
  <2>7. QED BY <2>6
<1>3. Nat \subseteq Q
  <2> HIDE DEF Q
  <2>1. QED BY <1>1, <1>2, CountingUp
<1>4. \E f : F(f, Len(entries))
  BY <1>3
<1> DEFINE from == CHOOSE f : F(f, Len(entries))
<1>5. F(from, Len(entries))
  BY <1>4
<1>6. Loop!Chosen(entries, S) = from[Len(entries)]
  BY DEF Loop!Chosen
<1> HIDE DEF from, Q
<1>7. \A k \in 0..Len(entries) :
        from[k] = IF k = 0 THEN <<>>
                  ELSE IF entries[k] \in S THEN Append(from[k - 1], entries[k]) ELSE from[k - 1]
  BY <1>5
<1> HIDE DEF F
<1>8. QED BY <1>6, <1>7

\* The chosen entries are those in S, and none of them twice if none was.
LEMMA ChosenIs ==
  ASSUME NEW T, NEW entries \in Seq(T), NEW S
  PROVE  /\ Loop!Chosen(entries, S) \in Seq(T)
         /\ ToSet(Loop!Chosen(entries, S)) = ToSet(entries) \cap S
         /\ Distinct(entries) => Distinct(Loop!Chosen(entries, S))
<1> DEFINE N == Len(entries)
<1>1. /\ N \in Nat /\ \A i \in 1..N : entries[i] \in T
      /\ \A x : x \in ToSet(entries) <=> \E i \in 1..N : x = entries[i]
  BY Members, ElementOfSeq
<1>2. PICK from :
        /\ Loop!Chosen(entries, S) = from[N]
        /\ \A k \in 0..N : from[k] = IF k = 0 THEN <<>>
                                     ELSE IF entries[k] \in S THEN Append(from[k - 1], entries[k])
                                          ELSE from[k - 1]
  BY <1>1, ChosenSteps
<1>n. N = Len(entries) OBVIOUS
<1> HIDE DEF N
<1> DEFINE First(k) == {entries[i] : i \in 1..k} \cap S
           Right(k) == /\ from[k] \in Seq(T) /\ ToSet(from[k]) = First(k)
                       /\ Distinct(entries) => Distinct(from[k])
           Q == {k \in Nat : k <= N => Right(k)}
<1>3. 0 \in Q
  <2>1. from[0] = <<>>
    BY <1>1, <1>2
  <2>2. First(0) = {} /\ ToSet(<<>>) = {} /\ <<>> \in Seq(T) /\ Distinct(<<>>)
    BY DEF ToSet, Distinct
  <2> HIDE DEF First
  <2>3. QED BY <2>1, <2>2
<1>4. ASSUME NEW k \in Nat, k \in Q PROVE k + 1 \in Q
  <2> SUFFICES ASSUME k + 1 <= N PROVE Right(k + 1)
    OBVIOUS
  <2>1. Right(k)
    BY SMTT(30), <1>1, <1>4
  <2>2. k + 1 \in 1..N /\ k + 1 \in 0..N /\ entries[k + 1] \in T /\ (k + 1) - 1 = k /\ k + 1 # 0
    BY <1>1
  <2>3. from[k + 1] = IF entries[k + 1] \in S THEN Append(from[k], entries[k + 1]) ELSE from[k]
    BY <1>2, <2>2
  <2>4. First(k + 1) = IF entries[k + 1] \in S THEN First(k) \cup {entries[k + 1]} ELSE First(k)
    <3>1. 1..(k + 1) = 1..k \cup {k + 1}
      OBVIOUS
    <3>2. {entries[i] : i \in 1..(k + 1)} = {entries[i] : i \in 1..k} \cup {entries[k + 1]}
      BY <3>1
    <3>3. QED BY <3>2
  <2>5. Distinct(entries) => entries[k + 1] \notin First(k)
    <3>1. \A i \in 1..k : i \in 1..N /\ i # k + 1
      BY <2>2, <1>1
    <3>2. QED BY <3>1, <2>2, <1>n DEF Distinct
  <2> HIDE DEF First
  <2>6. CASE entries[k + 1] \in S
    <3> DEFINE s == from[k]
               e == entries[k + 1]
    <3>1. s \in Seq(T) /\ e \in T
      BY <2>1, <2>2
    <3> HIDE DEF s, e
    <3>2. /\ Append(s, e) \in Seq(T) /\ ToSet(Append(s, e)) = ToSet(s) \cup {e}
          /\ Distinct(s) /\ e \notin ToSet(s) => Distinct(Append(s, e))
      BY <3>1, Appended
    <3>3. from[k + 1] = Append(s, e)
      BY <2>3, <2>6 DEF s, e
    <3>4. QED BY <2>1, <2>4, <2>5, <2>6, <3>2, <3>3 DEF s, e
  <2>7. CASE entries[k + 1] \notin S
    BY <2>1, <2>3, <2>4, <2>7
  <2>8. QED BY <2>6, <2>7
<1>5. Nat \subseteq Q
  <2> HIDE DEF Q
  <2>1. QED BY <1>3, <1>4, CountingUp
<1>6. Right(N)
  <2> HIDE DEF Right
  <2>1. N \in Q /\ N <= N
    BY <1>1, <1>5
  <2>2. QED BY <2>1
<1>7. First(N) = ToSet(entries) \cap S
  BY <1>1
<1>8. QED BY <1>2, <1>6, <1>7

\* Named gives each entry a name of its own.
LEMMA NamedIs ==
  ASSUME NEW entries \in Seq(Entries)
  PROVE  Loop!Named(entries) \in Seq(Names) /\ Distinct(Loop!Named(entries))
<1> DEFINE N == Len(entries)
           Alike(i) == {j \in 1..i : /\ entries[j].case = entries[i].case
                                     /\ entries[j].kind = entries[i].kind}
           named == [i \in 1..N |-> [case |-> entries[i].case, kind |-> entries[i].kind,
                                     number |-> Cardinality(Alike(i))]]
<1>1. N \in Nat /\ \A i \in 1..N : entries[i] \in Entries
  BY Members, ElementOfSeq
<1>2. ASSUME NEW i \in 1..N PROVE IsFiniteSet(Alike(i)) /\ Cardinality(Alike(i)) \in Nat
  <2>1. 1 \in Int /\ i \in Int
    BY <1>1
  <2>2. IsFiniteSet(1..i)
    BY <2>1, FS_Interval
  <2>3. Alike(i) \in SUBSET (1..i)
    OBVIOUS
  <2>4. QED BY <2>2, <2>3, FS_Subset, FS_CardinalityType
<1>3. ASSUME NEW i \in 1..N, NEW j \in 1..N, i < j,
             entries[i].case = entries[j].case, entries[i].kind = entries[j].kind
      PROVE  Cardinality(Alike(i)) # Cardinality(Alike(j))
  <2>1. Alike(i) \in SUBSET Alike(j) /\ j \in Alike(j) /\ j \notin Alike(i)
    BY <1>1, <1>3
  <2> HIDE DEF Alike
  <2>2. QED BY <2>1, <1>2, FS_Subset
<1>4. Loop!Named(entries) = named
  BY LoopReads DEF Loop!Named
<1>5. \A i \in 1..N : named[i] \in Names
  <2> HIDE DEF Alike
  <2>1. QED BY <1>1, <1>2 DEF Entries, Names
<1>6. named \in Seq(Names)
  <2>1. named \in [1..N -> Names] /\ Len(named) = N /\ DOMAIN named = 1..N
    BY <1>1, <1>5
  <2> HIDE DEF named
  <2>2. named = [i \in 1..N |-> named[i]]
    BY <2>1
  <2>3. QED BY <1>1, <1>5, <2>2
<1>7. ASSUME NEW i \in 1..N, NEW j \in 1..N, named[i] = named[j] PROVE i = j
  <2>1. /\ entries[i].case = entries[j].case /\ entries[i].kind = entries[j].kind
        /\ Cardinality(Alike(i)) = Cardinality(Alike(j))
    <3> HIDE DEF Alike
    <3>1. QED BY <1>7
  <2> HIDE DEF Alike
  <2>2. ~(i < j) /\ ~(j < i)
    BY <2>1, <1>3
  <2>3. QED BY <2>2, <1>1
<1>8. Len(named) = N
  BY <1>1
<1>9. QED BY <1>4, <1>6, <1>7, <1>8 DEF Distinct

\* Sequences of entries, put end to end, are one.
LEMMA FlattenIs ==
  ASSUME NEW T, NEW seqs, Len(seqs) \in Nat \ {0}, \A i \in 1..Len(seqs) : seqs[i] \in Seq(T)
  PROVE  Loop!FlattenSeq(seqs) \in Seq(T)
<1> DEFINE N == Len(seqs)
           Step(x, k) == x \o seqs[k]
           F(f, n) == f = [k \in 1..n |-> IF k = 1 THEN seqs[k] ELSE f[k - 1] \o seqs[k]]
           Q == {n \in Nat : \E f : F(f, n)}
<1>1. 0 \in Q
  <2> DEFINE f == [k \in 1..0 |-> seqs[k]]
  <2>1. F(f, 0)
    OBVIOUS
  <2>2. QED BY <2>1
<1>2. ASSUME NEW n \in Nat, n \in Q PROVE n + 1 \in Q
  <2>1. PICK f : F(f, n)
    BY <1>2
  <2> DEFINE g == [k \in 1..(n + 1) |-> IF k = n + 1 /\ k # 1 THEN Step(f[n], k)
                                        ELSE IF k = 1 THEN seqs[k] ELSE f[k]]
             e == [k \in 1..(n + 1) |-> IF k = 1 THEN seqs[k] ELSE Step(g[k - 1], k)]
  <2>2. \A k \in 1..n : f[k] = IF k = 1 THEN seqs[k] ELSE Step(f[k - 1], k)
    BY <2>1
  <2> HIDE DEF Step
  <2>3. ASSUME NEW k \in 1..(n + 1) PROVE g[k] = e[k]
    <3>1. CASE k = 1
      BY <3>1
    <3>2. CASE k # 1 /\ k = n + 1
      <4>1. k - 1 \in 1..(n + 1) /\ k - 1 # n + 1 /\ k - 1 = n /\ n \in 1..n
        BY <3>2
      <4>2. g[k - 1] = f[n]
        BY <2>2, <4>1
      <4>3. QED BY <3>2, <4>2
    <3>3. CASE k # 1 /\ k # n + 1
      <4>1. k \in 1..n /\ k - 1 \in 1..(n + 1) /\ k - 1 # n + 1 /\ k - 1 \in 1..n
        BY <3>3
      <4>2. g[k] = f[k] /\ g[k - 1] = f[k - 1]
        BY <2>2, <3>3, <4>1
      <4>3. QED BY <2>2, <3>3, <4>1, <4>2
    <3>4. QED BY <3>1, <3>2, <3>3
  <2>4. g = e
    BY <2>3
  <2>5. F(g, n + 1)
    BY <2>4 DEF Step
  <2> HIDE DEF g
  <2>6. n + 1 \in Nat /\ \E f0 : F(f0, n + 1)
    <3> HIDE DEF F
    <3>1. QED BY <2>5
  <2> HIDE DEF F
  <2>7. QED BY <2>6
<1>3. Nat \subseteq Q
  <2> HIDE DEF Q
  <2>1. QED BY <1>1, <1>2, CountingUp
<1>4. \E f : F(f, N)
  BY <1>3
<1> DEFINE flatten == CHOOSE f : F(f, N)
<1>5. F(flatten, N)
  BY <1>4
<1>6. Loop!FlattenSeq(seqs) = flatten[N]
  BY DEF Loop!FlattenSeq
<1> HIDE DEF flatten, Q
<1>7. \A k \in 1..N : flatten[k] = IF k = 1 THEN seqs[k] ELSE flatten[k - 1] \o seqs[k]
  BY <1>5
<1>8. N \in Nat \ {0} /\ \A k \in 1..N : seqs[k] \in Seq(T)
  OBVIOUS
<1> HIDE DEF F, N
<1> DEFINE P == {k \in Nat : k + 1 <= N => flatten[k + 1] \in Seq(T)}
<1>9. 0 \in P
  BY <1>7, <1>8
<1>10. ASSUME NEW k \in Nat, k \in P PROVE k + 1 \in P
  <2> SUFFICES ASSUME (k + 1) + 1 <= N PROVE flatten[(k + 1) + 1] \in Seq(T)
    OBVIOUS
  <2>1. flatten[k + 1] \in Seq(T)
    BY <1>8, <1>10
  <2>2. (k + 1) + 1 \in 1..N /\ (k + 1) + 1 # 1 /\ ((k + 1) + 1) - 1 = k + 1
    BY <1>8
  <2>3. flatten[(k + 1) + 1] = flatten[k + 1] \o seqs[(k + 1) + 1] /\ seqs[(k + 1) + 1] \in Seq(T)
    BY <1>7, <1>8, <2>2
  <2>4. QED BY <2>1, <2>3, ConcatProperties
<1>11. Nat \subseteq P
  <2> HIDE DEF P
  <2>1. QED BY <1>9, <1>10, CountingUp
<1>12. N - 1 \in P /\ (N - 1) + 1 = N
  <2> HIDE DEF P
  <2>1. N - 1 \in Nat
    BY <1>8
  <2>2. QED BY <1>8, <1>11, <2>1
<1>13. QED BY <1>6, <1>8, <1>12

\* What a sweep writes down is a sequence of failures.
LEMMA SweepWrites ==
  ASSUME LoopTypes, Loop!RunSweep
  PROVE  failures' \in Seq(Entries)
<1>1. failures \in Seq(Entries) /\ broken \in SUBSET (Failing \X LoopKinds)
  BY DEF LoopTypes
<1>2. PICK twice \in SUBSET broken, order \in {Loop!SetToSeq(broken)} :
        failures' = IF broken = {} THEN failures
                    ELSE Loop!FlattenSeq([i \in 1..Len(order) |->
                             LET one == [case |-> order[i][1], kind |-> order[i][2], minimized |-> FALSE]
                             IN  IF order[i] \in twice THEN <<one, one>> ELSE <<one>>])
  BY DEF Loop!RunSweep
<1>3. CASE broken = {}
  BY <1>1, <1>2, <1>3
<1>4. CASE broken # {}
  <2> DEFINE n == Cardinality(broken)
             one(i) == [case |-> order[i][1], kind |-> order[i][2], minimized |-> FALSE]
             seqs == [i \in 1..Len(order) |-> IF order[i] \in twice THEN <<one(i), one(i)>> ELSE <<one(i)>>]
  <2>1. IsFiniteSet(broken)
    <3>1. IsFiniteSet(LoopKinds)
      BY SweepAssumption, FS_Union DEF LoopKinds, SweepAssumption
    <3>2. IsFiniteSet(Failing \X LoopKinds)
      BY <3>1, SweepAssumption, FS_Product DEF SweepAssumption
    <3>3. QED BY <3>2, <1>1, FS_Subset
  <2>2. n \in Nat \ {0} /\ ExistsBijection(1..n, broken)
    BY <1>4, <2>1, FS_CardinalityType, FS_EmptySet
  <2>3. \E f \in [1..n -> broken] : \A a, b \in DOMAIN f : f[a] = f[b] => a = b
    <3>1. PICK f \in Bijection(1..n, broken) : TRUE
      BY <2>2 DEF ExistsBijection
    <3>2. QED BY <3>1 DEF Bijection, Injection, IsInjective
  <2>4. order = CHOOSE f \in [1..n -> broken] : \A a, b \in DOMAIN f : f[a] = f[b] => a = b
    BY LoopReads DEF Loop!SetToSeq, Loop!IsInjective
  <2>5. order \in [1..n -> broken]
    BY <2>3, <2>4
  <2>6. Len(order) = n /\ \A i \in 1..n : order[i] \in Failing \X LoopKinds
    <3> HIDE DEF n
    <3>1. order = [i \in 1..n |-> order[i]] /\ n \in Nat /\ \A i \in 1..n : order[i] \in broken
      BY <2>2, <2>5
    <3>2. order \in Seq(broken)
      BY <3>1
    <3>3. DOMAIN order = 1..n
      BY <2>5
    <3>4. QED BY <3>1, <3>2, <3>3, <1>1, LenProperties
  <2> HIDE DEF n
  <2>7. ASSUME NEW i \in 1..n PROVE seqs[i] \in Seq(Entries)
    <3>1. one(i) \in Entries
      BY <2>6 DEF Entries
    <3>2. seqs[i] = IF order[i] \in twice THEN <<one(i), one(i)>> ELSE <<one(i)>>
      BY <2>6
    <3> HIDE DEF one, seqs
    <3>3. QED BY <3>1, <3>2
  <2>8. Len(seqs) = n
    BY <2>2, <2>6
  <2>9. failures' = Loop!FlattenSeq(seqs)
    BY <1>2, <1>4
  <2> HIDE DEF seqs
  <2>10. QED BY <2>2, <2>7, <2>8, <2>9, FlattenIs
<1>5. QED BY <1>3, <1>4

-----------------------------------------------------------------------------
(* The failure loop.                                                       *)

LEMMA LoopInvInit == Loop!Init => LoopInv
<1> SUFFICES ASSUME Loop!Init PROVE LoopInv
  OBVIOUS
<1>1. /\ broken \in SUBSET (Failing \X LoopKinds)
      /\ failures = <<>> /\ wave1 = <<>> /\ kept = <<>> /\ killed = 0 /\ batches = {}
      /\ writing = [wave1 |-> <<>>, kept |-> <<>>, stage |-> "idle"]
  BY DEF Loop!Init, Loop!Nothing, Loop!Kinds, LoopKinds
<1>2. Distinct(<<>>) /\ ToSet(<<>>) = {}
  BY DEF Distinct, ToSet
<1>3. LoopTypes
  BY <1>1, <1>2 DEF LoopTypes, NameList
<1>4. WritingRight /\ BatchesRight
  BY <1>1, <1>2 DEF WritingRight, BatchesRight, Apart
<1>5. Loop!GainsAreFixed
  BY <1>1, <1>2, LoopReads DEF Loop!GainsAreFixed
<1>6. QED BY <1>3, <1>4, <1>5 DEF LoopInv

\* While nothing is being written, a step that only changes what is broken, or
\* what the failures file holds, leaves the corpora alone.
LEMMA CorporaLeft ==
  ASSUME LoopInv, Loop!Idle, broken' \in SUBSET (Failing \X LoopKinds), failures' \in Seq(Entries),
         UNCHANGED <<wave1, kept, writing, killed, batches>>
  PROVE  LoopInv'
<1>1. LoopTypes' /\ WritingRight' /\ BatchesRight'
  BY DEF LoopInv, LoopTypes, NameList, Distinct, WritingRight, BatchesRight, Apart
<1>2. writing.wave1 = <<>> /\ writing.kept = <<>>
  BY DEF LoopInv, WritingRight, Loop!Idle
<1>3. Loop!GainsAreFixed'
  <2>1. ToSet(<<>>) = {}
    BY DEF ToSet
  <2>2. Loop!ToSet(writing'.wave1) = {} /\ Loop!ToSet(writing'.kept) = {}
    BY <1>2, <2>1, LoopReads
  <2>3. QED BY <2>2 DEF Loop!GainsAreFixed
<1>4. QED BY <1>1, <1>3 DEF LoopInv

LEMMA RunSweepKeeps == LoopInv /\ Loop!RunSweep => LoopInv'
<1> SUFFICES ASSUME LoopInv, Loop!RunSweep PROVE LoopInv'
  OBVIOUS
<1>1. failures' \in Seq(Entries)
  BY SweepWrites DEF LoopInv
<1>2. Loop!Idle /\ broken' = broken /\ UNCHANGED <<wave1, kept, writing, killed, batches>>
  BY DEF Loop!RunSweep
<1>3. broken \in SUBSET (Failing \X LoopKinds)
  BY DEF LoopInv, LoopTypes
<1>4. QED BY <1>1, <1>2, <1>3, CorporaLeft

LEMMA ReduceKeeps == LoopInv /\ Loop!Reduce => LoopInv'
<1> SUFFICES ASSUME LoopInv, Loop!Reduce PROVE LoopInv'
  OBVIOUS
<1>1. failures \in Seq(Entries) /\ broken \in SUBSET (Failing \X LoopKinds)
  BY DEF LoopInv, LoopTypes
<1>2. /\ Loop!Idle /\ broken' = broken /\ UNCHANGED <<wave1, kept, writing, killed, batches>>
      /\ failures' = [i \in 1..Len(failures) |-> [failures[i] EXCEPT !.minimized = TRUE]]
  BY DEF Loop!Reduce
<1>3. Len(failures) \in Nat /\ \A i \in 1..Len(failures) : failures[i] \in Entries
  BY <1>1, Members, ElementOfSeq
<1>4. \A i \in 1..Len(failures) : [failures[i] EXCEPT !.minimized = TRUE] \in Entries
  BY <1>3 DEF Entries
<1>5. failures' \in Seq(Entries)
  BY <1>2, <1>3, <1>4
<1>6. QED BY <1>1, <1>2, <1>5, CorporaLeft

LEMMA FixKeeps == LoopInv /\ Loop!Fix => LoopInv'
<1> SUFFICES ASSUME LoopInv, Loop!Fix PROVE LoopInv'
  OBVIOUS
<1>1. failures \in Seq(Entries) /\ broken \in SUBSET (Failing \X LoopKinds)
  BY DEF LoopInv, LoopTypes
<1>2. /\ Loop!Idle /\ failures' = failures /\ UNCHANGED <<wave1, kept, writing, killed, batches>>
      /\ \E one \in broken : \E made \in SUBSET ({one[1]} \X (LoopKinds \ {one[2]})) :
           broken' = (broken \ {one}) \cup made
  BY DEF Loop!Fix, Loop!Kinds, LoopKinds
<1>3. PICK one \in broken : \E made \in SUBSET ({one[1]} \X (LoopKinds \ {one[2]})) :
        broken' = (broken \ {one}) \cup made
  BY <1>2
<1>4. PICK made \in SUBSET ({one[1]} \X (LoopKinds \ {one[2]})) :
        broken' = (broken \ {one}) \cup made
  BY <1>3
<1>5. one[1] \in Failing
  BY <1>1
<1>6. made \in SUBSET (Failing \X LoopKinds)
  BY <1>5
<1>7. broken' \in SUBSET (Failing \X LoopKinds)
  BY <1>1, <1>4, <1>6
<1>8. QED BY <1>1, <1>2, <1>7, CorporaLeft

\* The names a promotion would add are new to it, and each is in one corpus.
LEMMA PickedIs ==
  ASSUME LoopTypes
  PROVE  /\ NameList(Loop!Picked) /\ NameList(Loop!ForWave1) /\ NameList(Loop!ForKept)
         /\ ToSet(Loop!ForWave1) = {one \in ToSet(Loop!Picked) : one.kind \in Semantic}
         /\ ToSet(Loop!ForKept) = {one \in ToSet(Loop!Picked) : one.kind \notin Semantic}
<1>1. failures \in Seq(Entries)
  BY DEF LoopTypes
<1>2. Loop!Reduced \in Seq(Entries)
  BY <1>1, ChosenIs DEF Loop!Reduced
<1>3. NameList(Loop!Picked)
  BY <1>2, NamedIs DEF Loop!Picked, NameList
<1> DEFINE P == Loop!Picked
           answers == {one \in ToSet(P) : one.kind \in Semantic}
           others == {one \in ToSet(P) : one.kind \notin Semantic}
<1>4. Loop!ForWave1 = Loop!Chosen(P, answers) /\ Loop!ForKept = Loop!Chosen(P, others)
  BY LoopReads DEF Loop!ForWave1, Loop!ForKept
<1>5. P \in Seq(Names) /\ Distinct(P)
  BY <1>3 DEF NameList
<1>6. answers \subseteq ToSet(P) /\ others \subseteq ToSet(P)
  OBVIOUS
<1>h. /\ answers = {one \in ToSet(Loop!Picked) : one.kind \in Semantic}
      /\ others = {one \in ToSet(Loop!Picked) : one.kind \notin Semantic}
  OBVIOUS
<1> HIDE DEF P, answers, others
<1>7. /\ Loop!Chosen(P, answers) \in Seq(Names) /\ Distinct(Loop!Chosen(P, answers))
      /\ ToSet(Loop!Chosen(P, answers)) = ToSet(P) \cap answers
  BY <1>5, ChosenIs
<1>8. /\ Loop!Chosen(P, others) \in Seq(Names) /\ Distinct(Loop!Chosen(P, others))
      /\ ToSet(Loop!Chosen(P, others)) = ToSet(P) \cap others
  BY <1>5, ChosenIs
<1>9. NameList(Loop!ForWave1) /\ NameList(Loop!ForKept)
  BY <1>4, <1>7, <1>8 DEF NameList
<1>10. ToSet(Loop!ForWave1) = answers /\ ToSet(Loop!ForKept) = others
  BY <1>4, <1>6, <1>7, <1>8
<1>11. QED BY <1>3, <1>9, <1>10, <1>h

LEMMA CheckKeeps == LoopInv /\ Loop!Check => LoopInv'
<1> SUFFICES ASSUME LoopInv, Loop!Check PROVE LoopInv'
  OBVIOUS
<1> DEFINE W == Loop!ForWave1
           K == Loop!ForKept
           P == Loop!Picked
<1>1. /\ LoopTypes /\ WritingRight /\ BatchesRight
      /\ broken' = broken /\ failures' = failures /\ wave1' = wave1 /\ kept' = kept
      /\ killed' = killed /\ writing' = [wave1 |-> W, kept |-> K, stage |-> "wave1"]
      /\ batches' = batches \cup {<<W, K>>} /\ writing.stage = "idle"
      /\ Apart(W, wave1) /\ Apart(K, kept)
      /\ \A one \in ToSet(P) : Loop!Confirmed(one)
  BY LoopReads DEF LoopInv, Loop!Check, Loop!Idle, Loop!Fresh, Apart
<1>2. /\ NameList(W) /\ NameList(K)
      /\ ToSet(W) = {one \in ToSet(P) : one.kind \in Semantic}
      /\ ToSet(K) = {one \in ToSet(P) : one.kind \notin Semantic}
  BY <1>1, PickedIs
<1> HIDE DEF W, K, P
<1>3. writing'.wave1 = W /\ writing'.kept = K /\ writing'.stage = "wave1"
  BY <1>1
<1>4. LoopTypes'
  BY <1>1, <1>2 DEF LoopTypes, NameList, Distinct
<1>5. WritingRight'
  BY <1>1, <1>2, <1>3 DEF WritingRight, NameList, Distinct, Apart
<1>6. BatchesRight'
  <2>1. SUFFICES ASSUME killed = 0, NEW batch \in batches'
        PROVE  ToSet(batch[1]) \subseteq ToSet(wave1) \cup ToSet(W)
               /\ ToSet(batch[2]) \subseteq ToSet(kept) \cup ToSet(K)
    BY <1>1, <1>3 DEF BatchesRight
  <2>2. CASE batch = <<W, K>>
    BY <2>2
  <2>3. CASE batch \in batches
    <3>1. writing.kept = <<>> /\ ToSet(<<>>) = {}
      BY <1>1 DEF WritingRight, ToSet
    <3>2. QED BY <2>1, <2>3, <3>1, <1>1 DEF BatchesRight
  <2>4. QED BY <1>1, <2>2, <2>3
<1>7. Loop!GainsAreFixed'
  <2>1. \A one \in ToSet(P) : Loop!Fixed(one.case) /\ (one.kind \in Semantic => one.case \notin Declined)
    BY <1>1 DEF Loop!Confirmed
  <2>2. \A c : Loop!Fixed(c) => Loop!Fixed(c)'
    BY <1>1 DEF Loop!Fixed
  <2>3. /\ \A one \in ToSet(W) : Loop!Fixed(one.case)' /\ one.case \notin Declined
        /\ \A one \in ToSet(K) : Loop!Fixed(one.case)'
    BY <1>2, <2>1, <2>2
  <2>4. QED BY <1>3, <2>3, LoopReads DEF Loop!GainsAreFixed, Loop!Fixed
<1>8. QED BY <1>4, <1>5, <1>6, <1>7 DEF LoopInv

\* What a corpus gains is in it from then on; it was checked before.
LEMMA WriteWave1Keeps == LoopInv /\ Loop!WriteWave1 => LoopInv'
<1> SUFFICES ASSUME LoopInv, Loop!WriteWave1 PROVE LoopInv'
  OBVIOUS
<1>1. /\ LoopTypes /\ WritingRight /\ BatchesRight /\ Loop!GainsAreFixed
      /\ broken' = broken /\ failures' = failures /\ kept' = kept /\ killed' = killed
      /\ batches' = batches /\ writing.stage = "wave1"
      /\ wave1' = wave1 \o writing.wave1 /\ writing' = [writing EXCEPT !.stage = "kept"]
  BY DEF LoopInv, Loop!WriteWave1
<1>2. /\ wave1 \in Seq(Names) /\ Distinct(wave1) /\ writing.wave1 \in Seq(Names)
      /\ Distinct(writing.wave1) /\ Apart(writing.wave1, wave1)
  BY <1>1 DEF LoopTypes, NameList, WritingRight
<1>3. wave1' \in Seq(Names) /\ Distinct(wave1') /\ ToSet(wave1') = ToSet(wave1) \cup ToSet(writing.wave1)
  BY <1>1, <1>2, Joined
<1>4. /\ writing'.wave1 = writing.wave1 /\ writing'.kept = writing.kept /\ writing'.stage = "kept"
      /\ writing' \in [wave1 : Seq(Names), kept : Seq(Names), stage : {"idle", "wave1", "kept"}]
  BY <1>1 DEF LoopTypes
<1>5. LoopTypes'
  BY <1>1, <1>3, <1>4 DEF LoopTypes, NameList, Distinct
<1>6. WritingRight'
  BY <1>1, <1>4 DEF WritingRight, Distinct, Apart
<1>7. BatchesRight'
  BY <1>1, <1>3, <1>4 DEF BatchesRight
<1>8. Loop!GainsAreFixed'
  BY <1>1, <1>4, LoopReads DEF Loop!GainsAreFixed, Loop!Fixed
<1>9. QED BY <1>5, <1>6, <1>7, <1>8 DEF LoopInv

LEMMA WriteKeptKeeps == LoopInv /\ Loop!WriteKept => LoopInv'
<1> SUFFICES ASSUME LoopInv, Loop!WriteKept PROVE LoopInv'
  OBVIOUS
<1>1. /\ LoopTypes /\ WritingRight /\ BatchesRight
      /\ broken' = broken /\ failures' = failures /\ wave1' = wave1 /\ killed' = killed
      /\ batches' = batches /\ writing.stage = "kept"
      /\ kept' = kept \o writing.kept
      /\ writing' = [wave1 |-> <<>>, kept |-> <<>>, stage |-> "idle"]
  BY DEF LoopInv, Loop!WriteKept, Loop!Nothing
<1>2. /\ kept \in Seq(Names) /\ Distinct(kept) /\ writing.kept \in Seq(Names)
      /\ Distinct(writing.kept) /\ Apart(writing.kept, kept)
  BY <1>1 DEF LoopTypes, NameList, WritingRight
<1>3. kept' \in Seq(Names) /\ Distinct(kept') /\ ToSet(kept') = ToSet(kept) \cup ToSet(writing.kept)
  BY <1>1, <1>2, Joined
<1>4. Distinct(<<>>) /\ ToSet(<<>>) = {}
  BY DEF Distinct, ToSet
<1>5. writing'.wave1 = <<>> /\ writing'.kept = <<>> /\ writing'.stage = "idle"
  BY <1>1
<1>6. LoopTypes'
  BY <1>1, <1>3 DEF LoopTypes, NameList, Distinct
<1>7. WritingRight'
  BY <1>4, <1>5 DEF WritingRight, Distinct, Apart
<1>8. BatchesRight'
  BY <1>1, <1>3, <1>4, <1>5 DEF BatchesRight
<1>9. Loop!GainsAreFixed'
  BY <1>4, <1>5, LoopReads DEF Loop!GainsAreFixed
<1>10. QED BY <1>6, <1>7, <1>8, <1>9 DEF LoopInv

LEMMA KillKeeps == LoopInv /\ Loop!Kill => LoopInv'
<1> SUFFICES ASSUME LoopInv, Loop!Kill PROVE LoopInv'
  OBVIOUS
<1>1. /\ LoopTypes /\ broken' = broken /\ failures' = failures /\ wave1' = wave1 /\ kept' = kept
      /\ killed' = killed + 1 /\ killed \in Nat
      /\ writing' = [wave1 |-> <<>>, kept |-> <<>>, stage |-> "idle"]
  BY DEF LoopInv, LoopTypes, Loop!Kill, Loop!Nothing
<1>2. Distinct(<<>>) /\ ToSet(<<>>) = {}
  BY DEF Distinct, ToSet
<1>3. writing'.wave1 = <<>> /\ writing'.kept = <<>> /\ writing'.stage = "idle" /\ killed' # 0
  BY <1>1
<1>4. LoopTypes'
  BY <1>1 DEF LoopTypes, NameList, Distinct
<1>5. WritingRight' /\ BatchesRight'
  BY <1>2, <1>3 DEF WritingRight, BatchesRight, Distinct, Apart
<1>6. Loop!GainsAreFixed'
  BY <1>2, <1>3, LoopReads DEF Loop!GainsAreFixed
<1>7. QED BY <1>4, <1>5, <1>6 DEF LoopInv

-----------------------------------------------------------------------------

LEMMA PromotionInvInit == Init => PromotionInv
<1> SUFFICES ASSUME Init, about = "loop" PROVE LoopInv
  BY DEF PromotionInv
<1>1. Loop!Init
  BY DEF Init
<1>2. QED BY <1>1, LoopInvInit

\* A step of the failure loop keeps its invariant; the other parts let it be.
LEMMA PromotionInvNext ==
  PromotionInv /\ [(CaseStep \/ ReduceStep \/ PoolStep \/ LoopStep) /\ UNCHANGED about]_allVars
    => PromotionInv'
<1> SUFFICES ASSUME PromotionInv,
                    [(CaseStep \/ ReduceStep \/ PoolStep \/ LoopStep) /\ UNCHANGED about]_allVars,
                    about' = "loop"
             PROVE  LoopInv'
  BY DEF PromotionInv
<1>1. about = "loop" /\ LoopInv
  BY DEF PromotionInv, allVars
<1>2. CASE UNCHANGED loopVars
  BY <1>1, <1>2 DEF loopVars, LoopInv, LoopTypes, NameList, Distinct, WritingRight, Apart,
                    BatchesRight, Loop!GainsAreFixed, Loop!Fixed
<1>3. CASE LoopStep
  BY <1>1, <1>3, RunSweepKeeps, ReduceKeeps, FixKeeps, CheckKeeps, WriteWave1Keeps, WriteKeptKeeps,
     KillKeeps DEF LoopStep, Loop!Next
<1>4. QED BY <1>1, <1>2, <1>3 DEF CaseStep, ReduceStep, PoolStep, allVars

\* PromotionHolds: no corpus ever holds a name twice, a promotion nobody kills
\* is wholly in the two corpora, and what they are about to gain is fixed.
THEOREM PromotionHolds == Spec => []PromotionSound
<1>1. PromotionInv => PromotionSound
  <2> SUFFICES ASSUME LoopInv PROVE Loop!NamesUnique /\ Loop!NoHalfPromotion /\ Loop!GainsAreFixed
    BY DEF PromotionInv, PromotionSound
  <2>1. Loop!NamesUnique
    BY LoopReads, DistinctCount DEF Loop!NamesUnique, LoopInv, LoopTypes, NameList
  <2>2. Loop!NoHalfPromotion
    <3>1. SUFFICES ASSUME writing.stage = "idle", killed = 0, NEW batch \in batches
                   PROVE  ToSet(batch[1]) \subseteq ToSet(wave1) /\ ToSet(batch[2]) \subseteq ToSet(kept)
      BY LoopReads DEF Loop!NoHalfPromotion, Loop!Idle
    <3>2. ToSet(writing.kept) = {}
      BY <3>1 DEF LoopInv, WritingRight, ToSet
    <3>3. QED BY <3>1, <3>2 DEF LoopInv, BatchesRight
  <2>3. QED BY <2>1, <2>2 DEF LoopInv
<1>2. QED BY <1>1, PromotionInvInit, PromotionInvNext, PTL DEF Spec

-----------------------------------------------------------------------------
(* The reduction of a failing case.  First what is left when a chunk of a  *)
(* sequence is taken out.                                                  *)

LEMMA ChunkIs ==
  ASSUME NEW S, NEW s \in Seq(S), NEW size \in Nat \ {0},
         NEW k \in 1..((Len(s) + size - 1) \div size)
  PROVE  /\ Reduction!Dropped(s, size, k) \in Seq(S)
         /\ Len(Reduction!Dropped(s, size, k)) < Len(s)
         /\ \A j \in 1..Len(Reduction!Dropped(s, size, k)) :
              \E i \in 1..Len(s) : Reduction!Dropped(s, size, k)[j] = s[i]
<1> DEFINE m == Len(s) + size - 1
           a == (k - 1) * size
           b == k * size
<1>1. Len(s) \in Nat /\ m \in Nat /\ k \in Int /\ k >= 1 /\ k <= m \div size
  OBVIOUS
<1>2. (m \div size) * size <= m /\ m \div size \in Nat
  BY <1>1
<1>3. b <= (m \div size) * size /\ a \in Nat /\ b \in Nat /\ b = a + size
  BY <1>1, <1>2, SMTT(30)
<1> DEFINE head == SubSeq(s, 1, a)
           tail == SubSeq(s, b + 1, Len(s))
           rest == head \o tail
<1>4. Reduction!Dropped(s, size, k) = rest
  BY DEF Reduction!Dropped
<1> HIDE DEF a, b, rest
<1>5. a < Len(s) /\ a \in Nat /\ b \in Nat /\ b = a + size /\ size >= 1
  BY <1>1, <1>2, <1>3
<1>6. /\ head \in Seq(S) /\ Len(head) = a
      /\ \A j \in 1..a : head[j] = s[j] /\ j \in 1..Len(s)
  BY <1>5
<1>7. /\ rest \in Seq(S) /\ Len(rest) < Len(s)
      /\ \A j \in 1..Len(rest) : \E i \in 1..Len(s) : rest[j] = s[i]
  <2>1. CASE b < Len(s)
    <3>1. /\ tail \in Seq(S) /\ Len(tail) = Len(s) - b
          /\ \A j \in 1..(Len(s) - b) : tail[j] = s[b + j] /\ b + j \in 1..Len(s)
      BY <1>5, <2>1
    <3> HIDE DEF head, tail
    <3>2. /\ Len(rest) = a + (Len(s) - b) /\ rest \in Seq(S)
          /\ \A j \in 1..(a + (Len(s) - b)) : rest[j] = IF j <= a THEN head[j] ELSE tail[j - a]
      BY <1>6, <3>1, ConcatProperties DEF rest
    <3>3. ASSUME NEW j \in 1..Len(rest) PROVE \E i \in 1..Len(s) : rest[j] = s[i]
      <4>1. j \in 1..(a + (Len(s) - b)) /\ rest[j] = IF j <= a THEN head[j] ELSE tail[j - a]
        BY <3>2
      <4>2. CASE j <= a
        <5>1. j \in 1..a
          BY <4>1, <4>2
        <5>2. QED BY <5>1, <4>1, <4>2, <1>6
      <4>3. CASE ~ j <= a
        <5>1. j - a \in 1..(Len(s) - b)
          BY <4>1, <4>3, <1>5, <2>1
        <5>2. QED BY <5>1, <4>1, <4>3, <3>1
      <4>4. QED BY <4>2, <4>3
    <3>4. QED BY <3>2, <3>3, <1>5, <2>1
  <2>2. CASE ~ b < Len(s)
    <3>1. tail = <<>>
      BY <1>5, <2>2
    <3> HIDE DEF head, tail
    <3>2. rest = head
      BY <1>6, <3>1 DEF rest
    <3>3. QED BY <1>5, <1>6, <3>2
  <2>3. QED BY <2>1, <2>2
<1>8. QED BY <1>4, <1>7

LEMMA OneOnly ==
  ASSUME NEW S, NEW s \in Seq(S), Len(s) = 1
  PROVE  Reduction!Dropped(s, 1, 1) = <<>>
BY DEF Reduction!Dropped

\* The finest round offers every element on its own.
LEMMA FinestRound ==
  ASSUME NEW n \in Nat, NEW g \in Nat, n >= 2, g >= n
  PROVE  /\ Reduction!Larger(1, n \div g) = 1
         /\ 1..((n + 1 - 1) \div 1) = 1..n
<1>1. n \div g \in Nat /\ (n \div g) * g <= n
  OBVIOUS
<1>2. n \div g <= 1
  BY <1>1, SMTT(30)
<1>3. (n + 1 - 1) \div 1 = n
  OBVIOUS
<1>4. QED BY <1>1, <1>2, <1>3 DEF Reduction!Larger

LEMMA RoundSize ==
  ASSUME NEW n \in Nat, NEW g \in Nat, g >= 2
  PROVE  Reduction!Larger(1, n \div g) \in Nat \ {0}
<1>1. n \div g \in Nat
  OBVIOUS
<1>2. QED BY <1>1 DEF Reduction!Larger
-----------------------------------------------------------------------------
(* The cases, and what a pass may make of one.                             *)

CaseTrials == [subject : Seq(Nat), match_options : SUBSET Reduction!MatchOptions, start : Nat]

\* A case whose context is sized for it, and whose offsets are in its subjects.
Inside(trial) == trial \in CaseTrials /\ trial.start <= Len(trial.subject)

Fit(c) ==
  /\ c = Reduction!Whole(c.pattern, c.options, c.newline, c.bsr, c.trials)
  /\ c.pattern \in Seq(Nat) /\ c.trials \in Seq(CaseTrials)
  /\ \A i \in 1..Len(c.trials) : Inside(c.trials[i])

LEMMA WholeHas ==
  ASSUME NEW p, NEW o, NEW n, NEW b, NEW t
  PROVE  /\ Reduction!Whole(p, o, n, b, t).pattern = p /\ Reduction!Whole(p, o, n, b, t).options = o
         /\ Reduction!Whole(p, o, n, b, t).newline = n /\ Reduction!Whole(p, o, n, b, t).bsr = b
         /\ Reduction!Whole(p, o, n, b, t).trials = t
BY DEF Reduction!Whole

LEMMA WholeFits ==
  ASSUME NEW p \in Seq(Nat), NEW o, NEW n, NEW b, NEW t \in Seq(CaseTrials),
         \A i \in 1..Len(t) : Inside(t[i])
  PROVE  Fit(Reduction!Whole(p, o, n, b, t))
<1> DEFINE c == Reduction!Whole(p, o, n, b, t)
<1>1. c.pattern = p /\ c.options = o /\ c.newline = n /\ c.bsr = b /\ c.trials = t
  BY WholeHas
<1> HIDE DEF c
<1>2. c = Reduction!Whole(c.pattern, c.options, c.newline, c.bsr, c.trials)
  BY <1>1 DEF c
<1>3. Fit(c)
  BY <1>1, <1>2 DEF Fit
<1>4. QED BY <1>3 DEF c

LEMMA PatternIs ==
  ASSUME NEW c, Fit(c), NEW q \in Seq(Nat)
  PROVE  /\ Fit([c EXCEPT !.pattern = q])
         /\ [c EXCEPT !.pattern = q] = Reduction!Whole(q, c.options, c.newline, c.bsr, c.trials)
<1> DEFINE p == c.pattern
           o == c.options
           n == c.newline
           b == c.bsr
           t == c.trials
<1>1. /\ c = Reduction!Whole(p, o, n, b, t) /\ p \in Seq(Nat) /\ t \in Seq(CaseTrials)
      /\ \A i \in 1..Len(t) : Inside(t[i])
  BY DEF Fit
<1> HIDE DEF p, o, n, b, t
<1>2. [c EXCEPT !.pattern = q] = Reduction!Whole(q, o, n, b, t)
  <2>1. [Reduction!Whole(p, o, n, b, t) EXCEPT !.pattern = q] = Reduction!Whole(q, o, n, b, t)
    BY DEF Reduction!Whole
  <2>2. QED BY <1>1, <2>1
<1>3. Fit(Reduction!Whole(q, o, n, b, t))
  BY <1>1, WholeFits
<1>4. QED BY <1>2, <1>3 DEF p, o, n, b, t

LEMMA OptionsIs ==
  ASSUME NEW c, Fit(c), NEW q
  PROVE  /\ Fit([c EXCEPT !.options = q])
         /\ [c EXCEPT !.options = q] = Reduction!Whole(c.pattern, q, c.newline, c.bsr, c.trials)
<1> DEFINE p == c.pattern
           o == c.options
           n == c.newline
           b == c.bsr
           t == c.trials
<1>1. /\ c = Reduction!Whole(p, o, n, b, t) /\ p \in Seq(Nat) /\ t \in Seq(CaseTrials)
      /\ \A i \in 1..Len(t) : Inside(t[i])
  BY DEF Fit
<1> HIDE DEF p, o, n, b, t
<1>2. [c EXCEPT !.options = q] = Reduction!Whole(p, q, n, b, t)
  <2>1. [Reduction!Whole(p, o, n, b, t) EXCEPT !.options = q] = Reduction!Whole(p, q, n, b, t)
    BY DEF Reduction!Whole
  <2>2. QED BY <1>1, <2>1
<1>3. Fit(Reduction!Whole(p, q, n, b, t))
  BY <1>1, WholeFits
<1>4. QED BY <1>2, <1>3 DEF p, o, n, b, t

LEMMA NewlineIs ==
  ASSUME NEW c, Fit(c), NEW q
  PROVE  /\ Fit([c EXCEPT !.newline = q])
         /\ [c EXCEPT !.newline = q] = Reduction!Whole(c.pattern, c.options, q, c.bsr, c.trials)
<1> DEFINE p == c.pattern
           o == c.options
           n == c.newline
           b == c.bsr
           t == c.trials
<1>1. /\ c = Reduction!Whole(p, o, n, b, t) /\ p \in Seq(Nat) /\ t \in Seq(CaseTrials)
      /\ \A i \in 1..Len(t) : Inside(t[i])
  BY DEF Fit
<1> HIDE DEF p, o, n, b, t
<1>2. [c EXCEPT !.newline = q] = Reduction!Whole(p, o, q, b, t)
  <2>1. [Reduction!Whole(p, o, n, b, t) EXCEPT !.newline = q] = Reduction!Whole(p, o, q, b, t)
    BY DEF Reduction!Whole
  <2>2. QED BY <1>1, <2>1
<1>3. Fit(Reduction!Whole(p, o, q, b, t))
  BY <1>1, WholeFits
<1>4. QED BY <1>2, <1>3 DEF p, o, n, b, t

LEMMA BsrIs ==
  ASSUME NEW c, Fit(c), NEW q
  PROVE  /\ Fit([c EXCEPT !.bsr = q])
         /\ [c EXCEPT !.bsr = q] = Reduction!Whole(c.pattern, c.options, c.newline, q, c.trials)
<1> DEFINE p == c.pattern
           o == c.options
           n == c.newline
           b == c.bsr
           t == c.trials
<1>1. /\ c = Reduction!Whole(p, o, n, b, t) /\ p \in Seq(Nat) /\ t \in Seq(CaseTrials)
      /\ \A i \in 1..Len(t) : Inside(t[i])
  BY DEF Fit
<1> HIDE DEF p, o, n, b, t
<1>2. [c EXCEPT !.bsr = q] = Reduction!Whole(p, o, n, q, t)
  <2>1. [Reduction!Whole(p, o, n, b, t) EXCEPT !.bsr = q] = Reduction!Whole(p, o, n, q, t)
    BY DEF Reduction!Whole
  <2>2. QED BY <1>1, <2>1
<1>3. Fit(Reduction!Whole(p, o, n, q, t))
  BY <1>1, WholeFits
<1>4. QED BY <1>2, <1>3 DEF p, o, n, b, t

LEMMA SizedIs ==
  ASSUME NEW c, Fit(c), NEW q \in Seq(CaseTrials),
         \A j \in 1..Len(q) : Inside(q[j])
  PROVE  /\ Fit(Reduction!Sized(c, q))
         /\ Reduction!Sized(c, q) = Reduction!Whole(c.pattern, c.options, c.newline, c.bsr, q)
<1> DEFINE p == c.pattern
           o == c.options
           n == c.newline
           b == c.bsr
           t == c.trials
<1>1. c = Reduction!Whole(p, o, n, b, t) /\ p \in Seq(Nat)
  BY DEF Fit
<1> HIDE DEF p, o, n, b, t
<1>2. Reduction!Sized(c, q) = Reduction!Whole(p, o, n, b, q)
  <2>1. [Reduction!Whole(p, o, n, b, t) EXCEPT !.trials = q, !.maxlen = Reduction!Longest(q)]
          = Reduction!Whole(p, o, n, b, q)
    <3> DEFINE m == Reduction!Longest(t)
               k == Reduction!Longest(q)
               old == [pattern |-> p, options |-> o, newline |-> n, bsr |-> b, trials |-> t, maxlen |-> m]
               mid == [pattern |-> p, options |-> o, newline |-> n, bsr |-> b, trials |-> q, maxlen |-> m]
               new == [pattern |-> p, options |-> o, newline |-> n, bsr |-> b, trials |-> q, maxlen |-> k]
    <3> HIDE DEF m, k
    <3>1. [old EXCEPT !.trials = q] = mid /\ [mid EXCEPT !.maxlen = k] = new
      OBVIOUS
    <3> HIDE DEF old, mid, new
    <3>2. [old EXCEPT !.trials = q, !.maxlen = k] = [[old EXCEPT !.trials = q] EXCEPT !.maxlen = k]
      OBVIOUS
    <3>3. [old EXCEPT !.trials = q, !.maxlen = k] = new
      BY <3>1, <3>2
    <3>4. QED BY <3>3 DEF Reduction!Whole, old, new, m, k
  <2>2. QED BY <1>1, <2>1 DEF Reduction!Sized
<1>3. Fit(Reduction!Whole(p, o, n, b, q))
  BY <1>1, WholeFits
<1>4. QED BY <1>2, <1>3 DEF p, o, n, b, t

LEMMA WithIs ==
  ASSUME NEW c, Fit(c), NEW i \in 1..Len(c.trials), NEW trial, Inside(trial)
  PROVE  /\ Fit(Reduction!With(c, i, trial))
         /\ Reduction!With(c, i, trial)
              = Reduction!Whole(c.pattern, c.options, c.newline, c.bsr, [c.trials EXCEPT ![i] = trial])
<1> DEFINE trials == [c.trials EXCEPT ![i] = trial]
<1>1. trials \in Seq(CaseTrials) /\ Len(trials) = Len(c.trials)
  BY DEF Fit, Inside
<1>2. \A j \in 1..Len(trials) : Inside(trials[j])
  BY <1>1 DEF Fit
<1>3. QED BY <1>1, <1>2, SizedIs DEF Reduction!With

LEMMA TrialIs ==
  ASSUME NEW one \in CaseTrials PROVE Len(one.subject) \in Nat /\ one.start \in Nat
<1>1. one.subject \in Seq(Nat) /\ one.start \in Nat
  BY DEF CaseTrials
<1>2. QED BY <1>1

LEMMA ShrunkIs ==
  ASSUME NEW a, NEW b, Fit(a), Fit(b), Reduction!Shrunk(a, b), Reduction!Shrunk(b, a)
  PROVE  a = b
<1>1. /\ Len(a.trials) \in Nat /\ Len(b.trials) \in Nat /\ Len(a.pattern) \in Nat /\ Len(b.pattern) \in Nat
      /\ a.trials \in Seq(CaseTrials) /\ b.trials \in Seq(CaseTrials)
  BY DEF Fit
<1>2. Len(a.trials) = Len(b.trials)
  BY <1>1 DEF Reduction!Shrunk
<1>3. ASSUME NEW i \in 1..Len(a.trials) PROVE a.trials[i] = b.trials[i]
  <2>1. a.trials[i] \in CaseTrials /\ b.trials[i] \in CaseTrials
    BY <1>1, <1>2
  <2>2. Reduction!TrialShrunk(a.trials[i], b.trials[i]) /\ Reduction!TrialShrunk(b.trials[i], a.trials[i])
    BY <1>1, <1>2 DEF Reduction!Shrunk
  <2>3. /\ a.trials[i].subject = b.trials[i].subject /\ a.trials[i].start = b.trials[i].start
        /\ a.trials[i].match_options = b.trials[i].match_options
    <3>1. Len(a.trials[i].subject) \in Nat /\ Len(b.trials[i].subject) \in Nat
          /\ a.trials[i].start \in Nat /\ b.trials[i].start \in Nat
      BY <2>1, TrialIs
    <3>2. QED BY <2>2, <3>1 DEF Reduction!TrialShrunk, Reduction!Fewer
  <2>4. \A x, y \in CaseTrials :
          x.subject = y.subject /\ x.start = y.start /\ x.match_options = y.match_options => x = y
    BY DEF CaseTrials
  <2>5. QED BY <2>1, <2>3, <2>4
<1>4. a.trials = b.trials
  BY <1>1, <1>2, <1>3, SeqEqual
<1>5. a.pattern = b.pattern
  BY <1>1 DEF Reduction!Shrunk, Reduction!Fewer
<1>6. a.options = b.options /\ a.newline = b.newline /\ a.bsr = b.bsr
  BY DEF Reduction!Shrunk
<1>7. QED BY <1>4, <1>5, <1>6 DEF Fit

LEMMA ShrunkSelf == ASSUME NEW a, Fit(a) PROVE Reduction!Shrunk(a, a)
<1>1. ASSUME NEW i \in 1..Len(a.trials) PROVE a.trials[i].start <= a.trials[i].start
  <2>1. Inside(a.trials[i])
    BY DEF Fit
  <2>2. QED BY <2>1 DEF Inside, CaseTrials
<1>2. QED BY <1>1 DEF Reduction!Shrunk, Reduction!TrialShrunk, Reduction!Fewer

LEMMA ShrunkOn ==
  ASSUME NEW a, NEW b, NEW c, Fit(a), Fit(b), Fit(c), Reduction!Shrunk(a, b), Reduction!Shrunk(b, c)
  PROVE  Reduction!Shrunk(a, c)
<1>1. /\ Len(a.trials) \in Nat /\ Len(b.trials) \in Nat /\ Len(c.trials) \in Nat
      /\ Len(a.pattern) \in Nat /\ Len(b.pattern) \in Nat /\ Len(c.pattern) \in Nat
      /\ a.trials \in Seq(CaseTrials) /\ b.trials \in Seq(CaseTrials) /\ c.trials \in Seq(CaseTrials)
  BY DEF Fit
<1>2. Reduction!Fewer(a.pattern, c.pattern)
  BY <1>1 DEF Reduction!Shrunk, Reduction!Fewer
<1>3. a.options \subseteq c.options /\ a.newline \in {c.newline, "LF"} /\ a.bsr \in {c.bsr, "UNICODE"}
  BY DEF Reduction!Shrunk
<1>4. CASE Len(a.trials) < Len(c.trials)
  BY <1>2, <1>3, <1>4 DEF Reduction!Shrunk
<1>5. CASE ~ Len(a.trials) < Len(c.trials)
  <2>1. Len(a.trials) = Len(b.trials) /\ Len(b.trials) = Len(c.trials)
    BY <1>1, <1>5 DEF Reduction!Shrunk
  <2>2. ASSUME NEW i \in 1..Len(a.trials) PROVE Reduction!TrialShrunk(a.trials[i], c.trials[i])
    <3>1. Reduction!TrialShrunk(a.trials[i], b.trials[i]) /\ Reduction!TrialShrunk(b.trials[i], c.trials[i])
      BY <1>1, <2>1 DEF Reduction!Shrunk
    <3>2. a.trials[i] \in CaseTrials /\ b.trials[i] \in CaseTrials /\ c.trials[i] \in CaseTrials
      BY <1>1, <2>1
    <3>3. /\ Len(a.trials[i].subject) \in Nat /\ Len(b.trials[i].subject) \in Nat /\ Len(c.trials[i].subject) \in Nat
          /\ a.trials[i].start \in Nat /\ b.trials[i].start \in Nat /\ c.trials[i].start \in Nat
      BY <3>2, TrialIs
    <3>4. Reduction!Fewer(a.trials[i].subject, c.trials[i].subject)
      <4>1. \A x, y, z : Len(x) \in Nat /\ Len(y) \in Nat /\ Len(z) \in Nat
                /\ Reduction!Fewer(x, y) /\ Reduction!Fewer(y, z) => Reduction!Fewer(x, z)
        BY DEF Reduction!Fewer
      <4>2. QED BY <3>1, <3>3, <4>1 DEF Reduction!TrialShrunk
    <3>5. a.trials[i].start <= c.trials[i].start
      BY <3>1, <3>3 DEF Reduction!TrialShrunk
    <3>6. QED BY <3>1, <3>4, <3>5 DEF Reduction!TrialShrunk
  <2>3. QED BY <1>2, <1>3, <2>1, <2>2 DEF Reduction!Shrunk
<1>6. QED BY <1>4, <1>5

-----------------------------------------------------------------------------
(* What each pass may offer.                                               *)

Sick(shapes, c) == Reduction!Shapes(c) \cap shapes # {}

LEMMA WithPass ==
  ASSUME NEW c, Fit(c), NEW i \in 1..Len(c.trials), NEW one, Inside(one),
         Reduction!TrialShrunk(one, c.trials[i])
  PROVE  Fit(Reduction!With(c, i, one)) /\ Reduction!Shrunk(Reduction!With(c, i, one), c)
         /\ Len(Reduction!With(c, i, one).trials) = Len(c.trials)
<1> DEFINE q == [c.trials EXCEPT ![i] = one]
           d == Reduction!With(c, i, one)
<1>1. Fit(d) /\ d = Reduction!Whole(c.pattern, c.options, c.newline, c.bsr, q)
  BY WithIs
<1>2. /\ d.pattern = c.pattern /\ d.options = c.options /\ d.newline = c.newline
      /\ d.bsr = c.bsr /\ d.trials = q
  BY <1>1, WholeHas
<1>3. c.trials \in Seq(CaseTrials) /\ q \in Seq(CaseTrials) /\ Len(q) = Len(c.trials)
  BY DEF Fit, Inside
<1>4. ASSUME NEW j \in 1..Len(q) PROVE Reduction!TrialShrunk(q[j], c.trials[j])
  <2>1. CASE j = i
    BY <1>3, <2>1
  <2>2. CASE j # i
    <3>1. q[j] = c.trials[j] /\ c.trials[j].start \in Nat
      BY <1>3, <2>2, TrialIs
    <3>2. QED BY <3>1 DEF Reduction!TrialShrunk, Reduction!Fewer
  <2>3. QED BY <2>1, <2>2
<1> HIDE DEF d, q
<1>5. Reduction!Shrunk(d, c)
  BY <1>2, <1>3, <1>4 DEF Reduction!Shrunk, Reduction!Fewer
<1>6. QED BY <1>1, <1>2, <1>3, <1>5 DEF d

LEMMA PatternPass ==
  ASSUME NEW c, Fit(c), NEW size \in Nat \ {0},
         NEW k \in 1..((Len(c.pattern) + size - 1) \div size)
  PROVE  LET d == [c EXCEPT !.pattern = Reduction!Dropped(c.pattern, size, k)]
         IN  Fit(d) /\ Reduction!Shrunk(d, c)
<1> DEFINE q == Reduction!Dropped(c.pattern, size, k)
           d == [c EXCEPT !.pattern = q]
<1>1. c.pattern \in Seq(Nat)
  BY DEF Fit
<1>2. q \in Seq(Nat) /\ Len(q) < Len(c.pattern)
  BY <1>1, ChunkIs
<1> HIDE DEF q
<1>3. Fit(d) /\ d = Reduction!Whole(q, c.options, c.newline, c.bsr, c.trials)
  BY <1>2, PatternIs
<1> HIDE DEF d
<1>4. /\ d.pattern = q /\ d.options = c.options /\ d.newline = c.newline
      /\ d.bsr = c.bsr /\ d.trials = c.trials
  BY <1>3, WholeHas
<1>5. Reduction!Shrunk(c, c)
  BY ShrunkSelf
<1>6. Reduction!Shrunk(d, c)
  BY <1>2, <1>4, <1>5 DEF Reduction!Shrunk, Reduction!Fewer
<1>7. QED BY <1>3, <1>6 DEF d, q

LEMMA OptionsPass ==
  ASSUME NEW c, Fit(c), NEW name
  PROVE  LET d == [c EXCEPT !.options = @ \ {name}]
         IN  Fit(d) /\ Reduction!Shrunk(d, c)
<1> DEFINE q == c.options \ {name}
           d == [c EXCEPT !.options = q]
<1>1. q \subseteq c.options
  OBVIOUS
<1> HIDE DEF q
<1>2. Fit(d) /\ d = Reduction!Whole(c.pattern, q, c.newline, c.bsr, c.trials)
  BY OptionsIs
<1> HIDE DEF d
<1>3. /\ d.pattern = c.pattern /\ d.options = q /\ d.newline = c.newline
      /\ d.bsr = c.bsr /\ d.trials = c.trials
  BY <1>2, WholeHas
<1>4. Reduction!Shrunk(c, c)
  BY ShrunkSelf
<1>5. Reduction!Shrunk(d, c)
  BY <1>1, <1>3, <1>4 DEF Reduction!Shrunk
<1>6. QED BY <1>2, <1>5 DEF d, q

LEMMA ConventionsPass ==
  ASSUME NEW c, Fit(c)
  PROVE  /\ Fit([c EXCEPT !.newline = "LF"]) /\ Reduction!Shrunk([c EXCEPT !.newline = "LF"], c)
         /\ Fit([c EXCEPT !.bsr = "UNICODE"]) /\ Reduction!Shrunk([c EXCEPT !.bsr = "UNICODE"], c)
         /\ LET d == [c EXCEPT !.newline = "LF", !.bsr = "UNICODE"]
            IN  Fit(d) /\ Reduction!Shrunk(d, c)
<1>1. ASSUME NEW e, Fit(e)
      PROVE  LET d == [e EXCEPT !.newline = "LF"] IN Fit(d) /\ Reduction!Shrunk(d, e)
  <2> DEFINE d == [e EXCEPT !.newline = "LF"]
  <2>1. Fit(d) /\ d = Reduction!Whole(e.pattern, e.options, "LF", e.bsr, e.trials)
    BY <1>1, NewlineIs
  <2> HIDE DEF d
  <2>2. /\ d.pattern = e.pattern /\ d.options = e.options /\ d.newline = "LF"
        /\ d.bsr = e.bsr /\ d.trials = e.trials
    BY <2>1, WholeHas
  <2>3. Reduction!Shrunk(e, e)
    BY <1>1, ShrunkSelf
  <2>4. Reduction!Shrunk(d, e)
    BY <2>2, <2>3 DEF Reduction!Shrunk
  <2>5. QED BY <2>1, <2>4 DEF d
<1>2. ASSUME NEW e, Fit(e)
      PROVE  LET d == [e EXCEPT !.bsr = "UNICODE"] IN Fit(d) /\ Reduction!Shrunk(d, e)
  <2> DEFINE d == [e EXCEPT !.bsr = "UNICODE"]
  <2>1. Fit(d) /\ d = Reduction!Whole(e.pattern, e.options, e.newline, "UNICODE", e.trials)
    BY <1>2, BsrIs
  <2> HIDE DEF d
  <2>2. /\ d.pattern = e.pattern /\ d.options = e.options /\ d.newline = e.newline
        /\ d.bsr = "UNICODE" /\ d.trials = e.trials
    BY <2>1, WholeHas
  <2>3. Reduction!Shrunk(e, e)
    BY <1>2, ShrunkSelf
  <2>4. Reduction!Shrunk(d, e)
    BY <2>2, <2>3 DEF Reduction!Shrunk
  <2>5. QED BY <2>1, <2>4 DEF d
<1> DEFINE e == [c EXCEPT !.newline = "LF"]
           d == [e EXCEPT !.bsr = "UNICODE"]
<1>3. Fit(e) /\ Reduction!Shrunk(e, c)
  BY <1>1
<1>4. Fit(d) /\ Reduction!Shrunk(d, e)
  <2> HIDE DEF e
  <2>1. QED BY <1>3, <1>2
<1>5. Reduction!Shrunk(d, c)
  <2> HIDE DEF d, e
  <2>1. QED BY <1>3, <1>4, ShrunkOn
<1>6. [c EXCEPT !.newline = "LF", !.bsr = "UNICODE"] = d
  OBVIOUS
<1>7. Fit([c EXCEPT !.newline = "LF", !.bsr = "UNICODE"])
      /\ Reduction!Shrunk([c EXCEPT !.newline = "LF", !.bsr = "UNICODE"], c)
  <2> HIDE DEF d
  <2>1. QED BY <1>4, <1>5, <1>6
<1>8. QED BY <1>1, <1>2, <1>7

LEMMA NoTrialsPass ==
  ASSUME NEW c, Fit(c)
  PROVE  LET d == Reduction!Sized(c, <<>>)
         IN  Fit(d) /\ d.trials = <<>> /\ (c.trials # <<>> => Reduction!Shrunk(d, c))
<1> DEFINE d == Reduction!Sized(c, <<>>)
<1>1. Fit(d) /\ d = Reduction!Whole(c.pattern, c.options, c.newline, c.bsr, <<>>)
  <2> DEFINE q == <<>>
  <2>1. q \in Seq(CaseTrials) /\ \A j \in 1..Len(q) : Inside(q[j])
    OBVIOUS
  <2> HIDE DEF q
  <2>2. /\ Fit(Reduction!Sized(c, q))
        /\ Reduction!Sized(c, q) = Reduction!Whole(c.pattern, c.options, c.newline, c.bsr, q)
    BY <2>1, SizedIs
  <2>3. QED BY <2>2 DEF q
<1> HIDE DEF d
<1>2. /\ d.pattern = c.pattern /\ d.options = c.options /\ d.newline = c.newline
      /\ d.bsr = c.bsr /\ d.trials = <<>>
  BY <1>1, WholeHas
<1>3. c.trials # <<>> => Len(<<>>) < Len(c.trials)
  BY DEF Fit
<1>4. c.trials # <<>> => Reduction!Shrunk(d, c)
  BY <1>2, <1>3 DEF Reduction!Shrunk, Reduction!Fewer
<1>5. QED BY <1>1, <1>2, <1>4 DEF d

LEMMA TrialsPass ==
  ASSUME NEW c, Fit(c), NEW size \in Nat \ {0},
         NEW k \in 1..((Len(c.trials) + size - 1) \div size)
  PROVE  LET d == Reduction!Sized(c, Reduction!Dropped(c.trials, size, k))
         IN  Fit(d) /\ Reduction!Shrunk(d, c)
<1> DEFINE q == Reduction!Dropped(c.trials, size, k)
           d == Reduction!Sized(c, q)
<1>1. c.trials \in Seq(CaseTrials)
  BY DEF Fit
<1>2. q \in Seq(CaseTrials) /\ Len(q) < Len(c.trials)
      /\ \A j \in 1..Len(q) : \E i \in 1..Len(c.trials) : q[j] = c.trials[i]
  <2> DEFINE t == c.trials
  <2>1. t \in Seq(CaseTrials) /\ k \in 1..((Len(t) + size - 1) \div size)
    BY <1>1
  <2> HIDE DEF t
  <2>2. /\ Reduction!Dropped(t, size, k) \in Seq(CaseTrials)
        /\ Len(Reduction!Dropped(t, size, k)) < Len(t)
        /\ \A j \in 1..Len(Reduction!Dropped(t, size, k)) :
              \E i \in 1..Len(t) : Reduction!Dropped(t, size, k)[j] = t[i]
    BY <2>1, ChunkIs
  <2>3. QED BY <2>2 DEF t
<1> HIDE DEF q
<1>3. \A j \in 1..Len(q) : Inside(q[j])
  BY <1>2 DEF Fit
<1>4. Fit(d) /\ d = Reduction!Whole(c.pattern, c.options, c.newline, c.bsr, q)
  BY <1>2, <1>3, SizedIs
<1> HIDE DEF d
<1>5. /\ d.pattern = c.pattern /\ d.options = c.options /\ d.newline = c.newline
      /\ d.bsr = c.bsr /\ d.trials = q
  BY <1>4, WholeHas
<1>6. Reduction!Shrunk(d, c)
  BY <1>2, <1>5 DEF Reduction!Shrunk, Reduction!Fewer
<1>7. QED BY <1>4, <1>6 DEF d, q

\* A subject is cut with its offset, and nothing of its trial grows.
LEMMA CutIs ==
  ASSUME NEW one, Inside(one), NEW s \in Seq(Nat), Reduction!Fewer(s, one.subject)
  PROVE  /\ Inside(Reduction!Cut(one, s))
         /\ Reduction!TrialShrunk(Reduction!Cut(one, s), one)
         /\ s = one.subject => Reduction!Cut(one, s) = one
<1> DEFINE m == one.match_options
           k == IF one.start < Len(s) THEN one.start ELSE Len(s)
           cut == [subject |-> s, match_options |-> m, start |-> k]
<1>1. /\ one \in CaseTrials /\ one.start \in Nat /\ m \in SUBSET Reduction!MatchOptions
      /\ Len(one.subject) \in Nat /\ one.start <= Len(one.subject)
  BY DEF Inside, CaseTrials
<1>2. one = [subject |-> one.subject, match_options |-> m, start |-> one.start]
  BY <1>1 DEF CaseTrials
<1>3. k \in Nat /\ k <= Len(s) /\ k <= one.start /\ (s = one.subject => k = one.start)
  BY <1>1
<1>4. Reduction!Cut(one, s) = cut
  <2> DEFINE x == one.subject
             y == one.start
  <2>1. one = [subject |-> x, match_options |-> m, start |-> y]
    BY <1>2
  <2>2. Reduction!Cut(one, s) = [one EXCEPT !.subject = s, !.start = k]
    BY DEF Reduction!Cut, Reduction!Lesser
  <2> HIDE DEF x, y, m, k
  <2>3. [one EXCEPT !.subject = s, !.start = k] = [[one EXCEPT !.subject = s] EXCEPT !.start = k]
    OBVIOUS
  <2>4. QED BY <2>1, <2>2, <2>3
<1>5. cut \in CaseTrials /\ cut.subject = s /\ cut.match_options = m /\ cut.start = k
  BY <1>1, <1>3 DEF CaseTrials
<1> HIDE DEF cut, k
<1>6. Inside(cut)
  BY <1>3, <1>5 DEF Inside
<1>7. Reduction!TrialShrunk(cut, one)
  BY <1>3, <1>5 DEF Reduction!TrialShrunk
<1>8. s = one.subject => cut = one
  BY <1>2, <1>3 DEF cut
<1>9. QED BY <1>4, <1>6, <1>7, <1>8

LEMMA SubjectPass ==
  ASSUME NEW c, Fit(c), NEW i \in 1..Len(c.trials), NEW size \in Nat \ {0},
         NEW k \in 1..((Len(c.trials[i].subject) + size - 1) \div size)
  PROVE  LET one == c.trials[i]
             d == Reduction!With(c, i, Reduction!Cut(one, Reduction!Dropped(one.subject, size, k)))
         IN  Fit(d) /\ Reduction!Shrunk(d, c) /\ Len(d.trials) = Len(c.trials)
<1> DEFINE one == c.trials[i]
           s == Reduction!Dropped(one.subject, size, k)
           cut == Reduction!Cut(one, s)
<1>1. Inside(one) /\ one.subject \in Seq(Nat)
  BY DEF Fit, Inside, CaseTrials
<1>2. s \in Seq(Nat) /\ Reduction!Fewer(s, one.subject)
  <2> HIDE DEF one
  <2>1. k \in 1..((Len(one.subject) + size - 1) \div size)
    BY DEF one
  <2>2. QED BY <1>1, <2>1, ChunkIs DEF Reduction!Fewer
<1>3. Inside(cut) /\ Reduction!TrialShrunk(cut, one)
  <2> HIDE DEF one, s
  <2>1. QED BY <1>1, <1>2, CutIs
<1> HIDE DEF s, cut
<1>4. QED
  <2>1. /\ Fit(Reduction!With(c, i, cut)) /\ Reduction!Shrunk(Reduction!With(c, i, cut), c)
        /\ Len(Reduction!With(c, i, cut).trials) = Len(c.trials)
    BY <1>3, WithPass
  <2>2. QED BY <2>1 DEF cut, s

LEMMA MatchOptionsPass ==
  ASSUME NEW c, Fit(c), NEW i \in 1..Len(c.trials), NEW name
  PROVE  LET one == c.trials[i]
             d == Reduction!With(c, i, [one EXCEPT !.match_options = @ \ {name}])
         IN  Fit(d) /\ Reduction!Shrunk(d, c) /\ Len(d.trials) = Len(c.trials)
<1> DEFINE one == c.trials[i]
           bare == [one EXCEPT !.match_options = @ \ {name}]
<1>1. Inside(one)
  BY DEF Fit
<1>2. Inside(bare) /\ Reduction!TrialShrunk(bare, one)
  <2> HIDE DEF one
  <2>1. one \in CaseTrials /\ one.start <= Len(one.subject) /\ one.start \in Nat
    BY <1>1 DEF Inside, CaseTrials
  <2>2. /\ bare \in CaseTrials /\ bare.subject = one.subject /\ bare.start = one.start
        /\ bare.match_options = one.match_options \ {name}
    BY <2>1 DEF CaseTrials
  <2> HIDE DEF bare
  <2>3. QED BY <2>1, <2>2 DEF Inside, Reduction!TrialShrunk, Reduction!Fewer
<1> HIDE DEF bare
<1>3. /\ Fit(Reduction!With(c, i, bare)) /\ Reduction!Shrunk(Reduction!With(c, i, bare), c)
      /\ Len(Reduction!With(c, i, bare).trials) = Len(c.trials)
  BY <1>2, WithPass
<1>4. QED BY <1>3 DEF bare

LEMMA StartPass ==
  ASSUME NEW c, Fit(c), NEW i \in 1..Len(c.trials)
  PROVE  LET d == Reduction!With(c, i, [c.trials[i] EXCEPT !.start = 0])
         IN  Fit(d) /\ Reduction!Shrunk(d, c) /\ Len(d.trials) = Len(c.trials)
<1> DEFINE one == c.trials[i]
           begun == [one EXCEPT !.start = 0]
<1>1. Inside(one)
  BY DEF Fit
<1>2. Inside(begun) /\ Reduction!TrialShrunk(begun, one)
  <2> HIDE DEF one
  <2>1. one \in CaseTrials /\ Len(one.subject) \in Nat /\ one.start \in Nat
    BY <1>1, TrialIs DEF Inside
  <2>2. /\ begun \in CaseTrials /\ begun.subject = one.subject /\ begun.start = 0
        /\ begun.match_options = one.match_options
    BY <2>1 DEF CaseTrials
  <2> HIDE DEF begun
  <2>3. QED BY <2>1, <2>2 DEF Inside, Reduction!TrialShrunk, Reduction!Fewer
<1> HIDE DEF begun
<1>3. /\ Fit(Reduction!With(c, i, begun)) /\ Reduction!Shrunk(Reduction!With(c, i, begun), c)
      /\ Len(Reduction!With(c, i, begun).trials) = Len(c.trials)
  BY <1>2, WithPass
<1>4. QED BY <1>3 DEF begun

\* Keeping everything is the case itself.
LEMMA KeptWhole ==
  ASSUME NEW c, Fit(c)
  PROVE  /\ [c EXCEPT !.pattern = c.pattern] = c
         /\ Reduction!Sized(c, c.trials) = c
         /\ \A i \in 1..Len(c.trials) :
              Reduction!With(c, i, Reduction!Cut(c.trials[i], c.trials[i].subject)) = c
<1>1. c = Reduction!Whole(c.pattern, c.options, c.newline, c.bsr, c.trials)
      /\ c.pattern \in Seq(Nat) /\ c.trials \in Seq(CaseTrials)
      /\ \A j \in 1..Len(c.trials) : Inside(c.trials[j])
  BY DEF Fit
<1>2. [c EXCEPT !.pattern = c.pattern] = c
  BY <1>1, PatternIs
<1>3. Reduction!Sized(c, c.trials) = c
  BY <1>1, SizedIs
<1>4. ASSUME NEW i \in 1..Len(c.trials)
      PROVE  Reduction!With(c, i, Reduction!Cut(c.trials[i], c.trials[i].subject)) = c
  <2> DEFINE one == c.trials[i]
  <2>1. Inside(one) /\ one.subject \in Seq(Nat) /\ Reduction!Fewer(one.subject, one.subject)
    BY DEF Fit, Inside, CaseTrials, Reduction!Fewer
  <2>2. Reduction!Cut(one, one.subject) = one
    <3> HIDE DEF one
    <3>1. QED BY <2>1, CutIs
  <2>3. [c.trials EXCEPT ![i] = one] = c.trials
    BY <1>1
  <2>4. Reduction!With(c, i, one) = Reduction!Sized(c, c.trials)
    BY <2>3 DEF Reduction!With
  <2>5. QED BY <1>3, <2>2, <2>4
<1>5. QED BY <1>2, <1>3, <1>4
-----------------------------------------------------------------------------
(* The invariant of a reduction.  When the case in hand is still the one   *)
(* the sweep began with, every pass gone by has offered what it offers and *)
(* was refused.                                                            *)

Refused(shapes, c, d) == d # c => ~ Sick(shapes, d)

AloneRefused(shapes, c) == c.trials # <<>> => Refused(shapes, c, Reduction!Sized(c, <<>>))

TrialsRefused(shapes, c) ==
  Len(c.trials) >= 2 => \A k \in 1..Len(c.trials) :
    Refused(shapes, c, Reduction!Sized(c, Reduction!Dropped(c.trials, 1, k)))

PatternRefused(shapes, c) ==
  Len(c.pattern) >= 2 => \A k \in 1..Len(c.pattern) :
    Refused(shapes, c, [c EXCEPT !.pattern = Reduction!Dropped(c.pattern, 1, k)])

OptionsRefused(shapes, c, coming) ==
  \A name \in c.options \ coming : Refused(shapes, c, [c EXCEPT !.options = @ \ {name}])

SubjectRefused(shapes, c, i) ==
  LET one == c.trials[i]
  IN  Len(one.subject) >= 2 => \A k \in 1..Len(one.subject) :
        Refused(shapes, c,
                Reduction!With(c, i, Reduction!Cut(one, Reduction!Dropped(one.subject, 1, k))))

MatchRefused(shapes, c, i, coming) ==
  LET one == c.trials[i]
  IN  \A name \in one.match_options \ coming :
        Refused(shapes, c, Reduction!With(c, i, [one EXCEPT !.match_options = @ \ {name}]))

StartRefused(shapes, c, i) ==
  Refused(shapes, c, Reduction!With(c, i, [c.trials[i] EXCEPT !.start = 0]))

TrialRefused(shapes, c, i) ==
  SubjectRefused(shapes, c, i) /\ MatchRefused(shapes, c, i, {}) /\ StartRefused(shapes, c, i)

ConventionsRefused(shapes, c) ==
  Refused(shapes, c, [c EXCEPT !.newline = "LF"]) /\ Refused(shapes, c, [c EXCEPT !.bsr = "UNICODE"])

Ended       == {"again", "done"}
PastTrial   == {"conventions"} \cup Ended
PastOptions == {"subject", "match options"} \cup PastTrial
PastPattern == {"options"} \cup PastOptions
PastTrials  == {"pattern"} \cup PastPattern
PastAlone   == {"trials"} \cup PastTrials

Tried(shapes, c, p, i, coming) ==
  /\ p \in PastAlone => AloneRefused(shapes, c)
  /\ p \in PastTrials => TrialsRefused(shapes, c)
  /\ p \in PastPattern => PatternRefused(shapes, c)
  /\ p = "options" => OptionsRefused(shapes, c, coming)
  /\ p \in PastOptions => OptionsRefused(shapes, c, {})
  /\ p \in {"subject", "match options"} =>
       \A j \in 1..Len(c.trials) : j < i => TrialRefused(shapes, c, j)
  /\ p = "match options" => SubjectRefused(shapes, c, i) /\ MatchRefused(shapes, c, i, coming)
  /\ p \in PastTrial => \A j \in 1..Len(c.trials) : TrialRefused(shapes, c, j)
  /\ p \in Ended => ConventionsRefused(shapes, c)

InPlace ==
  /\ pass \in {"no trials"} \cup PastAlone
  /\ reached \in Nat \ {0} /\ grain \in Nat /\ grain >= 2
  /\ pass = "match options" => reached <= Len(case.trials)
  /\ pass = "done" => case = before

Shrinking == Fit(case) /\ Fit(before) /\ Sick(failing, case) /\ Reduction!Shrunk(case, before)

ReduceInv ==
  InPlace /\ Shrinking /\ (case = before => Tried(failing, case, pass, reached, left))

LEMMA FailsIs == ASSUME NEW c PROVE Reduction!Fails(c) <=> Sick(failing, c)
BY DEF Reduction!Fails, Sick

\* A step that shrinks the case or keeps it need only account for the latter.
LEMMA ShrinkStep ==
  ASSUME ReduceInv, InPlace', failing' = failing, before' = before,
         Fit(case'), Sick(failing, case'), Reduction!Shrunk(case', case),
         case' = case /\ case = before => Tried(failing, case, pass', reached', left')
  PROVE  ReduceInv'
<1>1. Fit(case) /\ Fit(before) /\ Reduction!Shrunk(case, before)
  BY DEF ReduceInv, Shrinking
<1>2. Reduction!Shrunk(case', before)
  BY <1>1, ShrunkOn
<1>3. case' = before => case' = case
  <2>1. CASE case' = before
    <3>1. Reduction!Shrunk(case, case')
      BY <1>1, <2>1
    <3>2. QED BY <1>1, <3>1, ShrunkIs
  <2>2. QED BY <2>1
<1>4. Shrinking'
  <2>1. Sick(failing', case')
    OBVIOUS
  <2>2. Fit(before') /\ Reduction!Shrunk(case', before')
    BY <1>1, <1>2
  <2>3. QED BY <2>1, <2>2 DEF Shrinking
<1>5. case' = before' => Tried(failing', case', pass', reached', left')
  BY <1>3
<1>6. QED BY <1>4, <1>5 DEF ReduceInv

\* A round of delta debugging that is not the last.
LEMMA RoundStays ==
  ASSUME ReduceInv, failing' = failing, before' = before, pass' = pass, reached' = reached,
         left' = left, grain' \in Nat, grain' >= 2, pass \notin {"match options", "done"},
         Fit(case'), Sick(failing, case'), Reduction!Shrunk(case', case)
  PROVE  ReduceInv'
<1>1. InPlace /\ (case = before => Tried(failing, case, pass, reached, left))
  BY DEF ReduceInv
<1>2. InPlace'
  BY <1>1 DEF InPlace
<1>3. case' = case /\ case = before => Tried(failing, case, pass', reached', left')
  BY <1>1
<1>4. QED BY <1>2, <1>3, ShrinkStep

\* The sizes of a round, and the granularities that follow it.
LEMMA RoundIs ==
  ASSUME ReduceInv, NEW n \in Nat
  PROVE  /\ Reduction!Larger(1, n \div grain) \in Nat \ {0}
         /\ Reduction!Larger(2, grain - 1) \in Nat /\ Reduction!Larger(2, grain - 1) >= 2
         /\ n >= 2 => /\ Reduction!Lesser(n, 2 * grain) \in Nat
                      /\ Reduction!Lesser(n, 2 * grain) >= 2
         /\ n >= 2 /\ grain >= n =>
              /\ Reduction!Larger(1, n \div grain) = 1
              /\ 1..((n + Reduction!Larger(1, n \div grain) - 1)
                       \div Reduction!Larger(1, n \div grain)) = 1..n
<1>1. grain \in Nat /\ grain >= 2
  BY DEF ReduceInv, InPlace
<1>2. Reduction!Larger(1, n \div grain) \in Nat \ {0}
  BY <1>1, RoundSize
<1>3. n >= 2 /\ grain >= n => /\ Reduction!Larger(1, n \div grain) = 1
                              /\ 1..((n + 1 - 1) \div 1) = 1..n
  BY <1>1, FinestRound
<1>4. /\ Reduction!Larger(2, grain - 1) \in Nat /\ Reduction!Larger(2, grain - 1) >= 2
      /\ n >= 2 => Reduction!Lesser(n, 2 * grain) \in Nat /\ Reduction!Lesser(n, 2 * grain) >= 2
  BY <1>1 DEF Reduction!Larger, Reduction!Lesser
<1>5. QED BY <1>2, <1>3, <1>4

LEMMA FewerTrialsStep ==
  ASSUME ReduceInv, Reduction!FewerTrials
  PROVE  ReduceInv'
<1> DEFINE n == Len(case.trials)
           size == Reduction!Larger(1, n \div grain)
           chunks == 1..((n + size - 1) \div size)
           d(k) == Reduction!Sized(case, Reduction!Dropped(case.trials, size, k))
<1>1. /\ pass = "trials" /\ failing' = failing /\ before' = before /\ reached' = reached
      /\ \/ /\ \E k \in chunks : Reduction!Fails(d(k)) /\ case' = d(k)
            /\ grain' = Reduction!Larger(2, grain - 1) /\ pass' = pass /\ left' = left
         \/ /\ n >= 2 /\ grain' = Reduction!Lesser(n, 2 * grain)
            /\ case' = case /\ pass' = pass /\ left' = left
         \/ /\ n >= 2 => grain >= n /\ \A k \in chunks : ~ Reduction!Fails(d(k))
            /\ case' = Reduction!Sized(case, case.trials)
            /\ pass' = "pattern" /\ grain' = 2 /\ left' = {}
  BY DEF Reduction!FewerTrials, Reduction!Narrow
<1>2. /\ Fit(case) /\ Sick(failing, case) /\ Reduction!Shrunk(case, case) /\ n \in Nat
      /\ reached \in Nat \ {0} /\ (case = before => Tried(failing, case, pass, reached, left))
  <2>1. Fit(case) /\ Sick(failing, case)
    BY DEF ReduceInv, Shrinking
  <2>2. Reduction!Shrunk(case, case) /\ n \in Nat
    BY <2>1, ShrunkSelf DEF Fit
  <2>3. QED BY <2>1, <2>2 DEF ReduceInv, InPlace
<1>3. /\ size \in Nat \ {0}
      /\ n >= 2 /\ grain >= n => size = 1 /\ chunks = 1..n
  BY <1>2, RoundIs
<1>4. CASE /\ \E k \in chunks : Reduction!Fails(d(k)) /\ case' = d(k)
           /\ grain' = Reduction!Larger(2, grain - 1) /\ pass' = pass /\ left' = left
  <2>1. PICK k \in chunks : Reduction!Fails(d(k)) /\ case' = d(k)
    BY <1>4
  <2> HIDE DEF size
  <2>2. Fit(d(k)) /\ Reduction!Shrunk(d(k), case)
    BY <1>2, <1>3, TrialsPass
  <2>3. Sick(failing, d(k))
    BY <2>1, FailsIs
  <2> HIDE DEF d
  <2>4. Fit(case') /\ Sick(failing, case') /\ Reduction!Shrunk(case', case)
    BY <2>1, <2>2, <2>3
  <2>5. grain' \in Nat /\ grain' >= 2
    BY <1>2, <1>4, RoundIs
  <2>6. QED BY <1>1, <1>2, <1>4, <2>4, <2>5, RoundStays
<1>5. CASE /\ n >= 2 /\ grain' = Reduction!Lesser(n, 2 * grain)
           /\ case' = case /\ pass' = pass /\ left' = left
  <2>1. grain' \in Nat /\ grain' >= 2
    BY <1>2, <1>5, RoundIs
  <2>2. QED BY <1>1, <1>2, <1>5, <2>1, RoundStays
<1>6. CASE /\ n >= 2 => grain >= n /\ \A k \in chunks : ~ Reduction!Fails(d(k))
           /\ case' = Reduction!Sized(case, case.trials)
           /\ pass' = "pattern" /\ grain' = 2 /\ left' = {}
  <2>1. case' = case
    BY <1>2, <1>6, KeptWhole
  <2>2. n >= 2 => \A k \in 1..n :
          Refused(failing, case, Reduction!Sized(case, Reduction!Dropped(case.trials, 1, k)))
    <3>1. CASE n >= 2
      <4>1. size = 1 /\ chunks = 1..n
        BY <1>3, <1>6, <3>1
      <4>2. \A k \in 1..n :
              ~ Sick(failing, Reduction!Sized(case, Reduction!Dropped(case.trials, 1, k)))
        BY <1>6, <3>1, <4>1, FailsIs
      <4>3. QED BY <4>2 DEF Refused
    <3>2. QED BY <3>1
  <2>3. TrialsRefused(failing, case)
    BY <2>2 DEF TrialsRefused
  <2>4. case = before => Tried(failing, case, "pattern", reached, {})
    BY <1>1, <1>2, <2>3 DEF Tried, PastAlone, PastTrials, PastPattern, PastOptions, PastTrial, Ended
  <2>5. InPlace'
    BY <1>1, <1>2, <1>6 DEF InPlace, PastAlone, PastTrials
  <2>6. Fit(case') /\ Sick(failing, case') /\ Reduction!Shrunk(case', case)
    BY <1>2, <2>1
  <2>7. case' = case /\ case = before => Tried(failing, case, pass', reached', left')
    BY <1>1, <1>6, <2>4
  <2>8. QED BY <1>1, <2>5, <2>6, <2>7, ShrinkStep
<1>7. QED BY <1>1, <1>4, <1>5, <1>6
LEMMA ShorterPatternStep ==
  ASSUME ReduceInv, Reduction!ShorterPattern
  PROVE  ReduceInv'
<1> DEFINE n == Len(case.pattern)
           size == Reduction!Larger(1, n \div grain)
           chunks == 1..((n + size - 1) \div size)
           d(k) == [case EXCEPT !.pattern = Reduction!Dropped(case.pattern, size, k)]
<1>1. /\ pass = "pattern" /\ failing' = failing /\ before' = before /\ reached' = reached
      /\ \/ /\ \E k \in chunks : Reduction!Fails(d(k)) /\ case' = d(k)
            /\ grain' = Reduction!Larger(2, grain - 1) /\ pass' = pass /\ left' = left
         \/ /\ n >= 2 /\ grain' = Reduction!Lesser(n, 2 * grain)
            /\ case' = case /\ pass' = pass /\ left' = left
         \/ /\ n >= 2 => grain >= n /\ \A k \in chunks : ~ Reduction!Fails(d(k))
            /\ case' = [case EXCEPT !.pattern = case.pattern]
            /\ pass' = "options" /\ grain' = 2 /\ left' = case.options
  BY DEF Reduction!ShorterPattern, Reduction!Narrow
<1>2. /\ Fit(case) /\ Sick(failing, case) /\ Reduction!Shrunk(case, case) /\ n \in Nat
      /\ reached \in Nat \ {0} /\ (case = before => Tried(failing, case, pass, reached, left))
  <2>1. Fit(case) /\ Sick(failing, case)
    BY DEF ReduceInv, Shrinking
  <2>2. Reduction!Shrunk(case, case) /\ n \in Nat
    BY <2>1, ShrunkSelf DEF Fit
  <2>3. QED BY <2>1, <2>2 DEF ReduceInv, InPlace
<1>3. /\ size \in Nat \ {0}
      /\ n >= 2 /\ grain >= n => size = 1 /\ chunks = 1..n
  BY <1>2, RoundIs
<1>4. CASE /\ \E k \in chunks : Reduction!Fails(d(k)) /\ case' = d(k)
           /\ grain' = Reduction!Larger(2, grain - 1) /\ pass' = pass /\ left' = left
  <2>1. PICK k \in chunks : Reduction!Fails(d(k)) /\ case' = d(k)
    BY <1>4
  <2> HIDE DEF size
  <2>2. Fit(d(k)) /\ Reduction!Shrunk(d(k), case)
    BY <1>2, <1>3, PatternPass
  <2>3. Sick(failing, d(k))
    BY <2>1, FailsIs
  <2> HIDE DEF d
  <2>4. Fit(case') /\ Sick(failing, case') /\ Reduction!Shrunk(case', case)
    BY <2>1, <2>2, <2>3
  <2>5. grain' \in Nat /\ grain' >= 2
    BY <1>2, <1>4, RoundIs
  <2>6. QED BY <1>1, <1>2, <1>4, <2>4, <2>5, RoundStays
<1>5. CASE /\ n >= 2 /\ grain' = Reduction!Lesser(n, 2 * grain)
           /\ case' = case /\ pass' = pass /\ left' = left
  <2>1. grain' \in Nat /\ grain' >= 2
    BY <1>2, <1>5, RoundIs
  <2>2. QED BY <1>1, <1>2, <1>5, <2>1, RoundStays
<1>6. CASE /\ n >= 2 => grain >= n /\ \A k \in chunks : ~ Reduction!Fails(d(k))
           /\ case' = [case EXCEPT !.pattern = case.pattern]
           /\ pass' = "options" /\ grain' = 2 /\ left' = case.options
  <2>1. case' = case
    BY <1>2, <1>6, KeptWhole
  <2>2. n >= 2 => \A k \in 1..n :
          Refused(failing, case, [case EXCEPT !.pattern = Reduction!Dropped(case.pattern, 1, k)])
    <3>1. CASE n >= 2
      <4>1. size = 1 /\ chunks = 1..n
        BY <1>3, <1>6, <3>1
      <4>2. \A k \in 1..n :
              ~ Sick(failing, [case EXCEPT !.pattern = Reduction!Dropped(case.pattern, 1, k)])
        BY <1>6, <3>1, <4>1, FailsIs
      <4>3. QED BY <4>2 DEF Refused
    <3>2. QED BY <3>1
  <2>3. PatternRefused(failing, case)
    BY <2>2 DEF PatternRefused
  <2>4. case = before => Tried(failing, case, "options", reached, case.options)
    BY <1>1, <1>2, <2>3
       DEF Tried, OptionsRefused, PastAlone, PastTrials, PastPattern, PastOptions, PastTrial, Ended
  <2>5. InPlace'
    BY <1>1, <1>2, <1>6 DEF InPlace, PastAlone, PastTrials, PastPattern
  <2>6. Fit(case') /\ Sick(failing, case') /\ Reduction!Shrunk(case', case)
    BY <1>2, <2>1
  <2>7. case' = case /\ case = before => Tried(failing, case, pass', reached', left')
    BY <1>1, <1>6, <2>4
  <2>8. QED BY <1>1, <2>5, <2>6, <2>7, ShrinkStep
<1>7. QED BY <1>1, <1>4, <1>5, <1>6

LEMMA ShorterSubjectStep ==
  ASSUME ReduceInv, Reduction!ShorterSubject
  PROVE  ReduceInv'
<1> DEFINE one == case.trials[reached]
           n == Len(one.subject)
           size == Reduction!Larger(1, n \div grain)
           chunks == 1..((n + size - 1) \div size)
           d(k) == Reduction!With(case, reached, Reduction!Cut(one, Reduction!Dropped(one.subject, size, k)))
           fit == {k \in chunks : Reduction!Fails(d(k))}
           all == Reduction!With(case, reached, Reduction!Cut(one, one.subject))
<1>1. /\ pass = "subject" /\ reached <= Len(case.trials)
      /\ failing' = failing /\ before' = before /\ reached' = reached
  BY DEF Reduction!ShorterSubject
<1>0. \/ /\ \E k \in fit : (\A j \in fit : k =< j) /\ case' = d(k)
         /\ grain' = Reduction!Larger(2, grain - 1) /\ pass' = pass /\ left' = left
      \/ /\ n >= 2 /\ grain' = Reduction!Lesser(n, 2 * grain)
         /\ case' = case /\ pass' = pass /\ left' = left
      \/ /\ n < 2 \/ (fit = {} /\ grain >= n)
         /\ case' = all
         /\ pass' = "match options" /\ grain' = 2 /\ left' = one.match_options
  BY DEF Reduction!ShorterSubject, Reduction!Narrow, Reduction!One
<1>2. /\ Fit(case) /\ Sick(failing, case) /\ Reduction!Shrunk(case, case) /\ n \in Nat
      /\ reached \in Nat \ {0} /\ reached \in 1..Len(case.trials) /\ grain \in Nat
      /\ (case = before => Tried(failing, case, pass, reached, left))
  <2>1. Fit(case) /\ Sick(failing, case) /\ reached \in Nat \ {0} /\ Len(case.trials) \in Nat
      /\ grain \in Nat
    <3>1. Fit(case) /\ Sick(failing, case) /\ reached \in Nat \ {0} /\ grain \in Nat
      BY DEF ReduceInv, Shrinking, InPlace
    <3>2. QED BY <3>1 DEF Fit
  <2>2. reached \in 1..Len(case.trials)
    BY <1>1, <2>1
  <2>3. Reduction!Shrunk(case, case)
    BY <2>1, ShrunkSelf
  <2>4. n \in Nat
    <3>1. Inside(one)
      BY <2>1, <2>2 DEF Fit
    <3> HIDE DEF one
    <3>2. QED BY <3>1, TrialIs DEF Inside
  <2>5. QED BY <2>1, <2>2, <2>3, <2>4 DEF ReduceInv
<1>3. /\ size \in Nat \ {0}
      /\ n >= 2 /\ grain >= n => size = 1 /\ chunks = 1..n
  BY <1>2, RoundIs
<1>4. CASE /\ \E k \in fit : (\A j \in fit : k =< j) /\ case' = d(k)
           /\ grain' = Reduction!Larger(2, grain - 1) /\ pass' = pass /\ left' = left
  <2>1. PICK k \in chunks : Reduction!Fails(d(k)) /\ case' = d(k)
    BY <1>4
  <2> HIDE DEF size
  <2>2. Fit(d(k)) /\ Reduction!Shrunk(d(k), case)
    BY <1>2, <1>3, SubjectPass
  <2>3. Sick(failing, d(k))
    BY <2>1, FailsIs
  <2> HIDE DEF d
  <2>4. Fit(case') /\ Sick(failing, case') /\ Reduction!Shrunk(case', case)
    BY <2>1, <2>2, <2>3
  <2>5. grain' \in Nat /\ grain' >= 2
    BY <1>2, <1>4, RoundIs
  <2>6. QED BY <1>1, <1>2, <1>4, <2>4, <2>5, RoundStays
<1>5. CASE /\ n >= 2 /\ grain' = Reduction!Lesser(n, 2 * grain)
           /\ case' = case /\ pass' = pass /\ left' = left
  <2>1. grain' \in Nat /\ grain' >= 2
    BY <1>2, <1>5, RoundIs
  <2>2. QED BY <1>1, <1>2, <1>5, <2>1, RoundStays
<1>6. CASE /\ n < 2 \/ (fit = {} /\ grain >= n)
           /\ case' = all
           /\ pass' = "match options" /\ grain' = 2 /\ left' = one.match_options
  <2>1. case' = case
    BY <1>2, <1>6, KeptWhole
  <2>2. n >= 2 => \A k \in 1..n :
          Refused(failing, case, Reduction!With(case, reached, Reduction!Cut(one, Reduction!Dropped(one.subject, 1, k))))
    <3>1. CASE n >= 2
      <4>1. size = 1 /\ chunks = 1..n
        <5>1. grain >= n
          <6> HIDE DEF n, fit, all
          <6>1. n \in Nat /\ grain \in Nat
            BY <1>2
          <6>2. n < 2 \/ (fit = {} /\ grain >= n)
            BY <1>6
          <6>3. QED BY <6>1, <6>2, <3>1
        <5>2. QED BY <1>3, <3>1, <5>1
      <4>2. \A k \in 1..n :
              ~ Sick(failing, Reduction!With(case, reached, Reduction!Cut(one, Reduction!Dropped(one.subject, 1, k))))
        <5>1. fit = {}
          <6> HIDE DEF n, fit, all
          <6>1. n \in Nat /\ grain \in Nat
            BY <1>2
          <6>2. n < 2 \/ (fit = {} /\ grain >= n)
            BY <1>6
          <6>3. QED BY <6>1, <6>2, <3>1
        <5>2. \A k \in chunks : ~ Reduction!Fails(d(k))
          BY <5>1
        <5>3. \A k \in 1..n :
                ~ Reduction!Fails(Reduction!With(case, reached, Reduction!Cut(one, Reduction!Dropped(one.subject, 1, k))))
          BY <4>1, <5>2
        <5>4. QED BY <5>3, FailsIs
      <4>3. QED BY <4>2 DEF Refused
    <3>2. QED BY <3>1
  <2>3. SubjectRefused(failing, case, reached)
    BY <2>2 DEF SubjectRefused
  <2>4. case = before => Tried(failing, case, "match options", reached, one.match_options)
    BY <1>1, <1>2, <2>3
       DEF Tried, MatchRefused, PastAlone, PastTrials, PastPattern, PastOptions, PastTrial, Ended
  <2>5. InPlace'
    <3>1. reached' <= Len(case'.trials) /\ pass' = "match options" /\ grain' = 2 /\ reached' = reached
      BY <1>1, <1>6, <2>1
    <3>2. reached \in Nat \ {0}
      BY <1>2
    <3>3. pass' \in {"no trials"} \cup PastAlone
      BY <3>1 DEF PastAlone, PastTrials, PastPattern, PastOptions
    <3>4. reached' \in Nat \ {0} 
      BY <3>1, <3>2
    <3>5. grain' \in Nat /\ grain' >= 2
      <4>1. grain' = 2
        BY <1>6
      <4>2. QED BY <4>1
    <3>6. QED BY <3>1, <3>2, <3>3, <3>4, <3>5 DEF InPlace, PastAlone, PastTrials, PastPattern, PastOptions
  <2>6. Fit(case') /\ Sick(failing, case') /\ Reduction!Shrunk(case', case)
    BY <1>2, <2>1
  <2>7. case' = case /\ case = before => Tried(failing, case, pass', reached', left')
    BY <1>1, <1>6, <2>4
  <2>8. QED BY <1>1, <2>5, <2>6, <2>7, ShrinkStep
<1>7. QED BY <1>0, <1>4, <1>5, <1>6

\* What every step has to begin with.
LEMMA ReduceHas ==
  ASSUME ReduceInv
  PROVE  /\ Fit(case) /\ Sick(failing, case) /\ Reduction!Shrunk(case, case)
         /\ Len(case.trials) \in Nat /\ reached \in Nat \ {0} /\ grain \in Nat /\ grain >= 2
         /\ case = before => Tried(failing, case, pass, reached, left)
<1>1. /\ Fit(case) /\ Sick(failing, case) /\ reached \in Nat \ {0} /\ grain \in Nat /\ grain >= 2
      /\ case = before => Tried(failing, case, pass, reached, left)
  BY DEF ReduceInv, Shrinking, InPlace
<1>2. Len(case.trials) \in Nat
  BY <1>1 DEF Fit
<1>3. QED BY <1>1, <1>2, ShrunkSelf

LEMMA NoTrialsStep ==
  ASSUME ReduceInv, Reduction!NoTrials
  PROVE  ReduceInv'
<1> DEFINE d == Reduction!Sized(case, <<>>)
<1>1. /\ pass = "no trials" /\ failing' = failing /\ before' = before
      /\ reached' = reached /\ grain' = grain /\ left' = left
      /\ \/ case.trials # <<>> /\ Sick(failing, d) /\ case' = d /\ pass' = "pattern"
         \/ (case.trials # <<>> => ~ Sick(failing, d)) /\ case' = case /\ pass' = "trials"
  BY FailsIs DEF Reduction!NoTrials
<1>2. /\ Fit(case) /\ Sick(failing, case) /\ Reduction!Shrunk(case, case)
      /\ Len(case.trials) \in Nat /\ reached \in Nat \ {0} /\ grain \in Nat /\ grain >= 2
      /\ case = before => Tried(failing, case, pass, reached, left)
  BY ReduceHas
<1>3. InPlace'
  <2>1. pass' \in {"pattern", "trials"}
    BY <1>1
  <2>2. QED BY <1>1, <1>2, <2>1 DEF InPlace, PastAlone, PastTrials
<1>4. CASE case.trials # <<>> /\ Sick(failing, d) /\ case' = d /\ pass' = "pattern"
  <2>1. Fit(d) /\ d.trials = <<>> /\ Reduction!Shrunk(d, case)
    BY <1>2, <1>4, NoTrialsPass
  <2> HIDE DEF d
  <2>2. case' # case
    BY <1>4, <2>1
  <2>3. Fit(case') /\ Sick(failing, case') /\ Reduction!Shrunk(case', case)
    BY <1>4, <2>1
  <2>4. QED BY <1>1, <1>3, <2>2, <2>3, ShrinkStep
<1>5. CASE (case.trials # <<>> => ~ Sick(failing, d)) /\ case' = case /\ pass' = "trials"
  <2>1. Fit(case') /\ Sick(failing, case') /\ Reduction!Shrunk(case', case)
    BY <1>2, <1>5
  <2>2. AloneRefused(failing, case)
    BY <1>5 DEF AloneRefused, Refused
  <2>3. Tried(failing, case, "trials", reached, left)
    BY <2>2 DEF Tried, PastTrials, PastPattern, PastOptions, PastTrial, Ended
  <2>4. case' = case /\ case = before => Tried(failing, case, pass', reached', left')
    BY <1>1, <1>5, <2>3
  <2>5. QED BY <1>1, <1>3, <2>1, <2>4, ShrinkStep
<1>6. QED BY <1>1, <1>4, <1>5

LEMMA FewerOptionsStep ==
  ASSUME ReduceInv, Reduction!FewerOptions
  PROVE  ReduceInv'
<1>1. PICK name \in left : /\ Reduction!Offer([case EXCEPT !.options = @ \ {name}])
                           /\ left' = left \ {name}
  BY DEF Reduction!FewerOptions
<1>2. /\ pass = "options" /\ pass' = pass /\ failing' = failing /\ before' = before
      /\ reached' = reached /\ grain' = grain
  BY DEF Reduction!FewerOptions
<1>3. /\ Fit(case) /\ Sick(failing, case) /\ Reduction!Shrunk(case, case)
      /\ Len(case.trials) \in Nat /\ reached \in Nat \ {0} /\ grain \in Nat /\ grain >= 2
      /\ case = before => Tried(failing, case, pass, reached, left)
  BY ReduceHas
<1> DEFINE d == [case EXCEPT !.options = @ \ {name}]
<1>4. Fit(d) /\ Reduction!Shrunk(d, case)
  BY <1>3, OptionsPass
<1>5. (Sick(failing, d) /\ case' = d) \/ (~ Sick(failing, d) /\ case' = case)
  BY <1>1, FailsIs DEF Reduction!Offer
<1>6. Fit(case') /\ Sick(failing, case') /\ Reduction!Shrunk(case', case)
  <2> HIDE DEF d
  <2>1. QED BY <1>3, <1>4, <1>5
<1>7. InPlace'
  BY <1>2, <1>3 DEF InPlace, PastAlone, PastTrials, PastPattern
<1>8. case' = case => Refused(failing, case, d)
  <2> HIDE DEF d
  <2>1. QED BY <1>5 DEF Refused
<1>9. ASSUME case' = case, case = before PROVE Tried(failing, case, pass', reached', left')
  <2>1. Tried(failing, case, "options", reached, left)
    BY <1>2, <1>3, <1>9
  <2>2. OptionsRefused(failing, case, left \ {name})
    <3>1. OptionsRefused(failing, case, left)
      BY <2>1 DEF Tried
    <3>2. ASSUME NEW other \in case.options \ (left \ {name})
          PROVE  Refused(failing, case, [case EXCEPT !.options = @ \ {other}])
      <4>1. CASE other = name
        BY <1>8, <1>9, <4>1
      <4>2. CASE other # name
        BY <3>1, <4>2 DEF OptionsRefused
      <4>3. QED BY <4>1, <4>2
    <3>3. QED BY <3>2 DEF OptionsRefused
  <2>3. Tried(failing, case, "options", reached, left \ {name})
    BY <2>1, <2>2 DEF Tried, PastAlone, PastTrials, PastPattern, PastOptions, PastTrial, Ended
  <2>4. QED BY <1>1, <1>2, <2>3
<1>10. QED BY <1>2, <1>6, <1>7, <1>9, ShrinkStep

LEMMA OptionsDoneStep ==
  ASSUME ReduceInv, Reduction!OptionsDone
  PROVE  ReduceInv'
<1>1. /\ pass = "options" /\ pass' = "subject" /\ reached' = 1 /\ left = {} /\ case' = case
      /\ failing' = failing /\ before' = before /\ grain' = grain /\ left' = left
  BY DEF Reduction!OptionsDone
<1>2. /\ Fit(case) /\ Sick(failing, case) /\ Reduction!Shrunk(case, case)
      /\ Len(case.trials) \in Nat /\ reached \in Nat \ {0} /\ grain \in Nat /\ grain >= 2
      /\ case = before => Tried(failing, case, pass, reached, left)
  BY ReduceHas
<1>3. InPlace'
  BY <1>1, <1>2 DEF InPlace, PastAlone, PastTrials, PastPattern, PastOptions
<1>4. ASSUME case = before PROVE Tried(failing, case, "subject", 1, {})
  <2>1. Tried(failing, case, "options", reached, {})
    BY <1>1, <1>2, <1>4
  <2>2. QED BY <2>1 DEF Tried, PastAlone, PastTrials, PastPattern, PastOptions, PastTrial, Ended
<1>5. case' = case /\ case = before => Tried(failing, case, pass', reached', left')
  BY <1>1, <1>4
<1>6. Fit(case') /\ Sick(failing, case') /\ Reduction!Shrunk(case', case)
  BY <1>1, <1>2
<1>7. QED BY <1>1, <1>3, <1>5, <1>6, ShrinkStep

LEMMA FewerMatchOptionsStep ==
  ASSUME ReduceInv, Reduction!FewerMatchOptions
  PROVE  ReduceInv'
<1> DEFINE one == case.trials[reached]
           d(name) == Reduction!With(case, reached, [one EXCEPT !.match_options = @ \ {name}])
<1>1. PICK name \in left : Reduction!Offer(d(name)) /\ left' = left \ {name}
  BY DEF Reduction!FewerMatchOptions, Reduction!One
<1>2. /\ pass = "match options" /\ pass' = pass /\ failing' = failing /\ before' = before
      /\ reached' = reached /\ grain' = grain
  BY DEF Reduction!FewerMatchOptions
<1>3. /\ Fit(case) /\ Sick(failing, case) /\ Reduction!Shrunk(case, case)
      /\ Len(case.trials) \in Nat /\ reached \in Nat \ {0} /\ grain \in Nat /\ grain >= 2
      /\ case = before => Tried(failing, case, pass, reached, left)
  BY ReduceHas
<1>4. reached \in 1..Len(case.trials)
  <2>1. reached <= Len(case.trials)
    BY <1>2 DEF ReduceInv, InPlace
  <2>2. QED BY <1>3, <2>1
<1>5. Fit(d(name)) /\ Reduction!Shrunk(d(name), case) /\ Len(d(name).trials) = Len(case.trials)
  BY <1>3, <1>4, MatchOptionsPass
<1> DEFINE now == d(name)
<1>6. (Sick(failing, now) /\ case' = now) \/ (~ Sick(failing, now) /\ case' = case)
  BY <1>1, FailsIs DEF Reduction!Offer
<1>7. /\ Fit(case') /\ Sick(failing, case') /\ Reduction!Shrunk(case', case)
      /\ Len(case'.trials) = Len(case.trials)
  <2> HIDE DEF d
  <2>1. QED BY <1>3, <1>5, <1>6
<1>8. InPlace'
  <2>1. reached' <= Len(case'.trials)
    <3>1. reached <= Len(case.trials)
      BY <1>3, <1>4
    <3>2. reached' = reached /\ Len(case'.trials) = Len(case.trials)
      BY <1>2, <1>7
    <3>3. QED BY <3>1, <3>2
  <2>2. reached' \in Nat \ {0} /\ grain' \in Nat /\ grain' >= 2 /\ pass' = "match options"
    BY <1>2, <1>3
  <2>3. pass' \in {"no trials"} \cup PastAlone
    BY <2>2 DEF PastAlone, PastTrials, PastPattern, PastOptions
  <2>4. QED BY <2>1, <2>2, <2>3 DEF InPlace
<1>9. case' = case => Refused(failing, case, now)
  <2> HIDE DEF d
  <2>1. QED BY <1>6 DEF Refused
<1>10. ASSUME case' = case, case = before PROVE Tried(failing, case, pass', reached', left')
  <2>1. Tried(failing, case, "match options", reached, left)
    BY <1>2, <1>3, <1>10
  <2>2. MatchRefused(failing, case, reached, left \ {name})
    <3>1. MatchRefused(failing, case, reached, left)
      BY <2>1 DEF Tried
    <3>2. ASSUME NEW other \in one.match_options \ (left \ {name})
          PROVE  Refused(failing, case, d(other))
      <4>1. CASE other = name
        BY <1>9, <1>10, <4>1
      <4>2. CASE other # name
        BY <3>1, <4>2 DEF MatchRefused
      <4>3. QED BY <4>1, <4>2
    <3>3. QED BY <3>2 DEF MatchRefused
  <2>3. Tried(failing, case, "match options", reached, left \ {name})
    BY <2>1, <2>2 DEF Tried, PastAlone, PastTrials, PastPattern, PastOptions, PastTrial, Ended
  <2>4. QED BY <1>1, <1>2, <2>3
<1>11. QED BY <1>2, <1>7, <1>8, <1>10, ShrinkStep

LEMMA EarlierStartStep ==
  ASSUME ReduceInv, Reduction!EarlierStart
  PROVE  ReduceInv'
<1> DEFINE d == Reduction!With(case, reached, [case.trials[reached] EXCEPT !.start = 0])
<1>1. /\ pass = "match options" /\ pass' = "subject" /\ reached' = reached + 1 /\ left = {}
      /\ failing' = failing /\ before' = before /\ grain' = grain /\ left' = left
      /\ Reduction!Offer(d)
  BY DEF Reduction!EarlierStart, Reduction!One
<1>2. /\ Fit(case) /\ Sick(failing, case) /\ Reduction!Shrunk(case, case)
      /\ Len(case.trials) \in Nat /\ reached \in Nat \ {0} /\ grain \in Nat /\ grain >= 2
      /\ case = before => Tried(failing, case, pass, reached, left)
  BY ReduceHas
<1>3. reached \in 1..Len(case.trials)
  <2>1. reached <= Len(case.trials)
    BY <1>1 DEF ReduceInv, InPlace
  <2>2. QED BY <1>2, <2>1
<1>4. Fit(d) /\ Reduction!Shrunk(d, case)
  BY <1>2, <1>3, StartPass
<1>5. (Sick(failing, d) /\ case' = d) \/ (~ Sick(failing, d) /\ case' = case)
  BY <1>1, FailsIs DEF Reduction!Offer
<1>6. Fit(case') /\ Sick(failing, case') /\ Reduction!Shrunk(case', case)
  <2> HIDE DEF d
  <2>1. QED BY <1>2, <1>4, <1>5
<1>7. InPlace'
  <2>1. reached' \in Nat \ {0} /\ grain' \in Nat /\ grain' >= 2 /\ pass' = "subject"
    <3>1. reached' = reached + 1 /\ grain' = grain /\ pass' = "subject"
      BY <1>1
    <3>2. reached \in Nat /\ grain \in Nat /\ grain >= 2
      BY <1>2
    <3>3. QED BY <3>1, <3>2
  <2>2. QED BY <2>1 DEF InPlace, PastAlone, PastTrials, PastPattern, PastOptions
<1>8. ASSUME case' = case, case = before PROVE Tried(failing, case, pass', reached', left')
  <2>1. Tried(failing, case, "match options", reached, {})
    BY <1>1, <1>2, <1>8
  <2>2. Refused(failing, case, d)
    <3> HIDE DEF d
    <3>1. QED BY <1>5, <1>8 DEF Refused
  <2>3. TrialRefused(failing, case, reached)
    BY <2>1, <2>2 DEF Tried, TrialRefused, StartRefused
  <2>4. \A j \in 1..Len(case.trials) : j < reached + 1 => TrialRefused(failing, case, j)
    <3>1. ASSUME NEW j \in 1..Len(case.trials), j < reached + 1 PROVE TrialRefused(failing, case, j)
      <4>1. j = reached \/ j < reached
        BY <1>2, <3>1
      <4>2. QED BY <2>1, <2>3, <4>1 DEF Tried
    <3>2. QED BY <3>1
  <2>5. Tried(failing, case, "subject", reached + 1, {})
    BY <2>1, <2>4 DEF Tried, PastAlone, PastTrials, PastPattern, PastOptions, PastTrial, Ended
  <2>6. QED BY <1>1, <2>5
<1>9. QED BY <1>1, <1>6, <1>7, <1>8, ShrinkStep

LEMMA TrialsDoneStep ==
  ASSUME ReduceInv, Reduction!TrialsDone
  PROVE  ReduceInv'
<1>1. /\ pass = "subject" /\ reached > Len(case.trials) /\ pass' = "conventions" /\ case' = case
      /\ failing' = failing /\ before' = before /\ reached' = reached /\ grain' = grain
      /\ left' = left
  BY DEF Reduction!TrialsDone
<1>2. /\ Fit(case) /\ Sick(failing, case) /\ Reduction!Shrunk(case, case)
      /\ Len(case.trials) \in Nat /\ reached \in Nat \ {0} /\ grain \in Nat /\ grain >= 2
      /\ case = before => Tried(failing, case, pass, reached, left)
  BY ReduceHas
<1>3. InPlace'
  BY <1>1, <1>2 DEF InPlace, PastAlone, PastTrials, PastPattern, PastOptions, PastTrial
<1>4. ASSUME case = before PROVE Tried(failing, case, "conventions", reached, left)
  <2>1. Tried(failing, case, "subject", reached, left)
    BY <1>1, <1>2, <1>4
  <2>2. \A j \in 1..Len(case.trials) : TrialRefused(failing, case, j)
    <3>1. \A j \in 1..Len(case.trials) : j < reached
      BY <1>1, <1>2
    <3>2. QED BY <2>1, <3>1 DEF Tried
  <2>3. QED
    BY <2>1, <2>2 DEF Tried, PastAlone, PastTrials, PastPattern, PastOptions, PastTrial, Ended
<1>5. case' = case /\ case = before => Tried(failing, case, pass', reached', left')
  BY <1>1, <1>4
<1>6. Fit(case') /\ Sick(failing, case') /\ Reduction!Shrunk(case', case)
  BY <1>1, <1>2
<1>7. QED BY <1>1, <1>3, <1>5, <1>6, ShrinkStep

LEMMA ConventionsStep ==
  ASSUME ReduceInv, Reduction!Conventions
  PROVE  ReduceInv'
<1> DEFINE both == [case EXCEPT !.newline = "LF", !.bsr = "UNICODE"]
           lf == [case EXCEPT !.newline = "LF"]
           unicode == [case EXCEPT !.bsr = "UNICODE"]
           tries == <<both, lf, unicode>>
           fit == {k \in 1..3 : tries[k] # case /\ Reduction!Fails(tries[k])}
<1>1. /\ pass = "conventions" /\ pass' = "again" /\ failing' = failing /\ before' = before
      /\ reached' = reached /\ grain' = grain /\ left' = left
      /\ \/ fit = {} /\ case' = case
         \/ \E k \in fit : (\A j \in fit : k =< j) /\ case' = tries[k]
  BY DEF Reduction!Conventions
<1>2. /\ Fit(case) /\ Sick(failing, case) /\ Reduction!Shrunk(case, case)
      /\ Len(case.trials) \in Nat /\ reached \in Nat \ {0} /\ grain \in Nat /\ grain >= 2
      /\ case = before => Tried(failing, case, pass, reached, left)
  BY ReduceHas
<1>3. InPlace'
  BY <1>1, <1>2 DEF InPlace, PastAlone, PastTrials, PastPattern, PastOptions, PastTrial, Ended
<1>4. /\ Fit(both) /\ Reduction!Shrunk(both, case) /\ Fit(lf) /\ Reduction!Shrunk(lf, case)
      /\ Fit(unicode) /\ Reduction!Shrunk(unicode, case)
  BY <1>2, ConventionsPass
<1> HIDE DEF both, lf, unicode
<1>5. CASE fit = {} /\ case' = case
  <2>1. Fit(case') /\ Sick(failing, case') /\ Reduction!Shrunk(case', case)
    BY <1>2, <1>5
  <2>2. \A k \in 1..3 : tries[k] = case \/ ~ Sick(failing, tries[k])
    BY <1>5, FailsIs
  <2>3. tries[2] = lf /\ tries[3] = unicode
    OBVIOUS
  <2>4. Refused(failing, case, lf) /\ Refused(failing, case, unicode)
    BY <2>2, <2>3 DEF Refused
  <2>5. ConventionsRefused(failing, case)
    BY <2>4 DEF ConventionsRefused, lf, unicode
  <2>6. case = before => Tried(failing, case, "again", reached, left)
    BY <1>1, <1>2, <2>5
       DEF Tried, PastAlone, PastTrials, PastPattern, PastOptions, PastTrial, Ended
  <2>7. case' = case /\ case = before => Tried(failing, case, pass', reached', left')
    BY <1>1, <2>6
  <2>8. QED BY <1>1, <1>3, <2>1, <2>7, ShrinkStep
<1>6. CASE \E k \in fit : (\A j \in fit : k =< j) /\ case' = tries[k]
  <2>1. PICK k \in 1..3 : tries[k] # case /\ Reduction!Fails(tries[k]) /\ case' = tries[k]
    BY <1>6
  <2>2. tries[k] \in {both, lf, unicode}
    <3>1. tries[1] = both /\ tries[2] = lf /\ tries[3] = unicode /\ k \in {1, 2, 3}
      BY <2>1
    <3>2. QED BY <3>1
  <2> HIDE DEF tries
  <2>3. Fit(tries[k]) /\ Reduction!Shrunk(tries[k], case) /\ Sick(failing, tries[k])
    BY <1>4, <2>1, <2>2, FailsIs
  <2>4. Fit(case') /\ Sick(failing, case') /\ Reduction!Shrunk(case', case) /\ case' # case
    BY <2>1, <2>3
  <2>5. QED BY <1>1, <1>3, <2>4, ShrinkStep
<1>7. QED BY <1>1, <1>5, <1>6

\* The next sweep is compared with what this one has made of the case.
LEMMA AgainStep ==
  ASSUME ReduceInv, Reduction!Again
  PROVE  ReduceInv'
<1>1. /\ pass = "again" /\ pass' = (IF case = before THEN "done" ELSE "no trials")
      /\ before' = case /\ case' = case /\ failing' = failing
      /\ reached' = reached /\ grain' = grain /\ left' = left
  BY DEF Reduction!Again
<1>2. /\ Fit(case) /\ Sick(failing, case) /\ Reduction!Shrunk(case, case)
      /\ Len(case.trials) \in Nat /\ reached \in Nat \ {0} /\ grain \in Nat /\ grain >= 2
      /\ case = before => Tried(failing, case, pass, reached, left)
  BY ReduceHas
<1>3. Shrinking'
  BY <1>1, <1>2 DEF Shrinking
<1>4. CASE case = before
  <2>1. pass' = "done"
    BY <1>1, <1>4
  <2>2. InPlace'
    BY <1>1, <1>2, <2>1 DEF InPlace, PastAlone, PastTrials, PastPattern, PastOptions, PastTrial, Ended
  <2>3. Tried(failing, case, "again", reached, left)
    BY <1>1, <1>2, <1>4
  <2>4. Tried(failing, case, "done", reached, left)
    BY <2>3 DEF Tried, PastAlone, PastTrials, PastPattern, PastOptions, PastTrial, Ended
  <2>5. Tried(failing', case', pass', reached', left')
    BY <1>1, <2>1, <2>4
  <2>6. QED BY <1>3, <2>2, <2>5 DEF ReduceInv
<1>5. CASE case # before
  <2>1. pass' = "no trials"
    BY <1>1, <1>5
  <2>2. InPlace'
    BY <1>1, <1>2, <2>1 DEF InPlace
  <2>3. Tried(failing, case, "no trials", reached, left)
    BY DEF Tried, PastAlone, PastTrials, PastPattern, PastOptions, PastTrial, Ended
  <2>4. Tried(failing', case', pass', reached', left')
    BY <1>1, <2>1, <2>3
  <2>5. QED BY <1>3, <2>2, <2>4 DEF ReduceInv
<1>6. QED BY <1>4, <1>5

LEMMA ReductionStep == ASSUME ReduceInv, Reduction!Next PROVE ReduceInv'
BY NoTrialsStep, FewerTrialsStep, ShorterPatternStep, FewerOptionsStep, OptionsDoneStep,
   ShorterSubjectStep, FewerMatchOptionsStep, EarlierStartStep, TrialsDoneStep,
   ConventionsStep, AgainStep DEF Reduction!Next

LEMMA ReductionStays == ASSUME ReduceInv, UNCHANGED reduceVars PROVE ReduceInv'
<1>1. /\ case' = case /\ failing' = failing /\ before' = before /\ pass' = pass
      /\ reached' = reached /\ grain' = grain /\ left' = left
  BY DEF reduceVars
<1>2. InPlace' /\ Shrinking'
  <2>1. InPlace /\ Shrinking
    BY DEF ReduceInv
  <2>2. QED BY <1>1, <2>1 DEF InPlace, Shrinking
<1>3. case' = before' => Tried(failing', case', pass', reached', left')
  BY <1>1 DEF ReduceInv
<1>4. QED BY <1>2, <1>3 DEF ReduceInv
-----------------------------------------------------------------------------
(* What the invariant says of the case in hand.                            *)

LEMMA SizedStill == ASSUME ReduceInv PROVE Reduction!StillSized
<1>1. Fit(case)
  BY ReduceHas
<1>2. case.maxlen = Reduction!Longest(case.trials)
  <2> DEFINE p == case.pattern
             o == case.options
             n == case.newline
             b == case.bsr
             t == case.trials
  <2>1. case = Reduction!Whole(p, o, n, b, t)
    BY <1>1 DEF Fit
  <2> HIDE DEF p, o, n, b
  <2>2. Reduction!Whole(p, o, n, b, t).maxlen = Reduction!Longest(t)
    BY DEF Reduction!Whole
  <2>3. QED BY <2>1, <2>2
<1>3. ASSUME NEW t \in Reduction!ToSet(case.trials) PROVE t.start =< Len(t.subject)
  <2>1. case.trials \in Seq(CaseTrials) /\ \A i \in 1..Len(case.trials) : Inside(case.trials[i])
    BY <1>1 DEF Fit
  <2>2. PICK i \in 1..Len(case.trials) : t = case.trials[i]
    BY <2>1 DEF Reduction!ToSet
  <2>3. QED BY <2>1, <2>2 DEF Inside
<1>4. QED BY <1>2, <1>3 DEF Reduction!StillSized

LEMMA MinimalAtLast == ASSUME ReduceInv PROVE Reduction!LocallyMinimal
<1> DEFINE c == case
<1> SUFFICES ASSUME pass = "done", NEW d \in Reduction!Smaller(c) \ {c}
             PROVE  ~ Sick(failing, d)
  BY FailsIs DEF Reduction!LocallyMinimal
<1>1. Fit(c) /\ Tried(failing, c, "done", reached, left)
  <2>1. case = before
    BY DEF ReduceInv, InPlace
  <2>2. QED BY <2>1, ReduceHas
<1>2. /\ AloneRefused(failing, c) /\ TrialsRefused(failing, c) /\ PatternRefused(failing, c)
      /\ OptionsRefused(failing, c, {}) /\ ConventionsRefused(failing, c)
      /\ \A j \in 1..Len(c.trials) : TrialRefused(failing, c, j)
  BY <1>1 DEF Tried, PastAlone, PastTrials, PastPattern, PastOptions, PastTrial, Ended
<1> HIDE DEF c
<1> DEFINE P == {[c EXCEPT !.pattern = p] : p \in {Reduction!Dropped(c.pattern, 1, k) : k \in
                   IF Len(c.pattern) > 1 THEN 1..Len(c.pattern) ELSE {}}}
           T == {Reduction!Sized(c, Reduction!Dropped(c.trials, 1, k)) : k \in 1..Len(c.trials)}
           O == {[c EXCEPT !.options = @ \ {o}] : o \in c.options}
           C == {[c EXCEPT !.newline = "LF"], [c EXCEPT !.bsr = "UNICODE"]}
           one(i) == c.trials[i]
           Cuts(i) == {Reduction!Cut(one(i), Reduction!Dropped(one(i).subject, 1, k)) :
                         k \in IF Len(one(i).subject) > 1 THEN 1..Len(one(i).subject) ELSE {}}
           Bares(i) == {[one(i) EXCEPT !.match_options = @ \ {o}] : o \in one(i).match_options}
           W(i) == {Reduction!With(c, i, smaller) : smaller \in
                      {[one(i) EXCEPT !.start = 0]} \cup Cuts(i) \cup Bares(i)}
<1>3. Reduction!Smaller(c) = P \cup T \cup O \cup C \cup UNION {W(i) : i \in 1..Len(c.trials)}
  BY DEF Reduction!Smaller
<1> HIDE DEF P, T, O, C, W
<1>4. \/ d \in P \/ d \in T \/ d \in O \/ d \in C
      \/ \E i \in 1..Len(c.trials) : d \in W(i)
  BY <1>3
<1>5. d # c /\ (Refused(failing, c, d) => ~ Sick(failing, d))
  BY DEF Refused
<1>6. c.trials \in Seq(CaseTrials) /\ \A i \in 1..Len(c.trials) : Inside(one(i))
  BY <1>1 DEF Fit
<1>7. CASE d \in P
  <2>1. PICK k \in 1..Len(c.pattern) :
          Len(c.pattern) > 1 /\ d = [c EXCEPT !.pattern = Reduction!Dropped(c.pattern, 1, k)]
    BY <1>7 DEF P
  <2>2. Refused(failing, c, d)
    BY <1>2, <2>1 DEF PatternRefused
  <2>3. QED BY <1>5, <2>2
<1>8. CASE d \in T
  <2>1. PICK k \in 1..Len(c.trials) : d = Reduction!Sized(c, Reduction!Dropped(c.trials, 1, k))
    BY <1>8 DEF T
  <2>2. CASE Len(c.trials) >= 2
    BY <1>2, <1>5, <2>1, <2>2 DEF TrialsRefused
  <2>3. CASE ~ Len(c.trials) >= 2
    <3>1. Len(c.trials) = 1 /\ k = 1 /\ c.trials # <<>>
      <4>1. Len(c.trials) \in Nat
        BY <1>6
      <4>2. \A m \in Nat : \A j \in 1..m : ~ m >= 2 => m = 1 /\ j = 1
        OBVIOUS
      <4>3. k \in 1..Len(c.trials)
        OBVIOUS
      <4>4. Len(c.trials) = 1 /\ k = 1
        BY <2>3, <4>1, <4>2, <4>3
      <4>5. c.trials # <<>>
        <5>1. \A s \in Seq(CaseTrials) : s = <<>> <=> Len(s) = 0
          BY EmptySeq
        <5>2. QED BY <1>6, <4>4, <5>1
      <4>6. QED BY <4>4, <4>5
    <3>2. Reduction!Dropped(c.trials, 1, 1) = <<>>
      BY <1>6, <3>1, OneOnly
    <3>3. Refused(failing, c, d)
      BY <1>2, <2>1, <3>1, <3>2 DEF AloneRefused
    <3>4. QED BY <1>5, <3>3
  <2>4. QED BY <2>2, <2>3
<1>9. CASE d \in O
  <2>1. PICK o \in c.options : d = [c EXCEPT !.options = @ \ {o}]
    BY <1>9 DEF O
  <2>2. Refused(failing, c, d)
    BY <1>2, <2>1 DEF OptionsRefused
  <2>3. QED BY <1>5, <2>2
<1>10. CASE d \in C
  BY <1>2, <1>5, <1>10 DEF C, ConventionsRefused
<1>11. ASSUME NEW i \in 1..Len(c.trials), d \in W(i) PROVE ~ Sick(failing, d)
  <2>1. SubjectRefused(failing, c, i) /\ MatchRefused(failing, c, i, {}) /\ StartRefused(failing, c, i)
    BY <1>2 DEF TrialRefused
  <2>2. PICK smaller \in {[one(i) EXCEPT !.start = 0]} \cup Cuts(i) \cup Bares(i) :
           d = Reduction!With(c, i, smaller)
    BY <1>11 DEF W
  <2>3. CASE smaller = [one(i) EXCEPT !.start = 0]
    BY <1>5, <2>1, <2>2, <2>3 DEF StartRefused
  <2>4. CASE smaller \in Cuts(i)
    <3>1. PICK k \in 1..Len(one(i).subject) :
            /\ Len(one(i).subject) > 1
            /\ smaller = Reduction!Cut(one(i), Reduction!Dropped(one(i).subject, 1, k))
      BY <2>4
    <3>2. Refused(failing, c, d)
      BY <2>1, <2>2, <3>1 DEF SubjectRefused
    <3>3. QED BY <1>5, <3>2
  <2>5. CASE smaller \in Bares(i)
    <3>1. PICK o \in one(i).match_options : smaller = [one(i) EXCEPT !.match_options = @ \ {o}]
      BY <2>5
    <3>2. Refused(failing, c, d)
      BY <2>1, <2>2, <3>1 DEF MatchRefused
    <3>3. QED BY <1>5, <3>2
  <2>6. QED BY <2>2, <2>3, <2>4, <2>5
<1>12. QED BY <1>4, <1>7, <1>8, <1>9, <1>10, <1>11

ReductionInv == about = "reduction" => ReduceInv

LEMMA ReductionInvHas == ReductionInv => ReductionSound
<1> SUFFICES ASSUME ReduceInv
             PROVE  /\ Reduction!StillFails /\ Reduction!StillSized
                    /\ Reduction!SweepsShrink /\ Reduction!LocallyMinimal
  BY DEF ReductionInv, ReductionSound
<1>1. Reduction!StillFails
  BY FailsIs, ReduceHas DEF Reduction!StillFails
<1>2. Reduction!SweepsShrink
  BY DEF ReduceInv, Shrinking, Reduction!SweepsShrink
<1>3. QED BY <1>1, <1>2, SizedStill, MinimalAtLast

LEMMA ReductionInvNext == ReductionInv /\ [AnyStep]_allVars => ReductionInv'
<1> SUFFICES ASSUME ReductionInv, [AnyStep]_allVars, about' = "reduction" PROVE ReduceInv'
  BY DEF ReductionInv
<1>1. about = "reduction" /\ ReduceInv
  BY DEF ReductionInv, AnyStep, allVars
<1>2. CASE ReduceStep
  BY <1>1, <1>2, ReductionStep DEF ReduceStep
<1>3. CASE UNCHANGED reduceVars
  BY <1>1, <1>3, ReductionStays
<1>4. QED BY <1>1, <1>2, <1>3 DEF AnyStep, CaseStep, PoolStep, LoopStep, allVars

\* Any case that fails, in a class given by any predicate.
AnyReduction == about = "reduction" /\ Fit(case) /\ Reduction!Begin(case, failing)

LEMMA AnyReductionInv == AnyReduction => ReductionInv
<1> SUFFICES ASSUME AnyReduction PROVE ReduceInv
  BY DEF ReductionInv
<1>1. /\ Fit(case) /\ before = case /\ Sick(failing, case)
      /\ pass = "no trials" /\ reached = 1 /\ grain = 2
  BY FailsIs DEF AnyReduction, Reduction!Begin
<1>2. Shrinking
  BY <1>1, ShrunkSelf DEF Shrinking
<1>3. Tried(failing, case, pass, reached, left)
  BY <1>1 DEF Tried, PastAlone, PastTrials, PastPattern, PastOptions, PastTrial, Ended
<1>4. InPlace
  <2>1. pass \notin {"match options", "done"} /\ pass \in {"no trials"} \cup PastAlone
    BY <1>1
  <2>2. reached \in Nat \ {0} /\ grain \in Nat /\ grain >= 2
    <3>1. reached = 1 /\ grain = 2
      BY <1>1
    <3>2. QED BY <3>1
  <2>3. QED BY <2>1, <2>2 DEF InPlace
<1>5. QED BY <1>2, <1>3, <1>4 DEF ReduceInv

(***************************************************************************)
(* Whatever case is reduced and whatever makes it fail: it fails in the    *)
(* class it was given with at every moment, its context stays sized for    *)
(* it, no sweep makes it larger in any respect, and the case handed back   *)
(* fails no longer when any one thing is taken away from it.               *)
(***************************************************************************)
THEOREM ReducesRight ==
  AnyReduction /\ [][AnyStep]_allVars => []ReductionSound
<1>1. QED BY AnyReductionInv, ReductionInvNext, ReductionInvHas, PTL

LEMMA PopulationCase ==
  ASSUME NEW c, NEW p, NEW o, NEW n, NEW b, NEW t
  PROVE  Reduction!Population(c, p, o, n, b, t).case = c
BY DEF Reduction!Population

LEMMA PlainFits ==
  ASSUME NEW p \in Seq(Nat), NEW o, NEW n, NEW b
  PROVE  Fit(Reduction!Whole(p, o, n, b, <<>>))
<1> DEFINE q == <<>>
<1>1. q \in Seq(CaseTrials) /\ \A j \in 1..Len(q) : Inside(q[j])
  OBVIOUS
<1> HIDE DEF q
<1>2. Fit(Reduction!Whole(p, o, n, b, q))
  BY <1>1, WholeFits
<1>3. QED BY <1>2 DEF q

LEMMA PopulationsFit ==
  ASSUME NEW population \in {Reduction!JustPattern, Reduction!PatternAndOptions,
                             Reduction!JustConventions, Reduction!TwoTrials}
  PROVE  Fit(population.case)
<1>1. CASE population = Reduction!JustPattern
  <2>1. population.case = Reduction!Whole(Reduction!Bytes, {}, "LF", "UNICODE", <<>>)
    BY <1>1, PopulationCase DEF Reduction!JustPattern
  <2>2. Reduction!Bytes \in Seq(Nat)
    <3>1. Length \in Nat
      BY SweepAssumption
    <3>2. Reduction!Bytes \in [1..Length -> Nat]
      BY <3>1 DEF Reduction!Bytes
    <3>3. QED BY <3>1, <3>2, SeqDef
  <2>3. QED BY <2>1, <2>2, PlainFits
<1>2. CASE population = Reduction!PatternAndOptions
  <2>1. population.case = Reduction!Whole(<<1, 2>>, {"CASELESS"}, "CR", "UNICODE", <<>>)
    BY <1>2, PopulationCase DEF Reduction!PatternAndOptions
  <2>2. <<1, 2>> \in Seq(Nat)
    OBVIOUS
  <2>3. QED BY <2>1, <2>2, PlainFits
<1>3. CASE population = Reduction!JustConventions
  <2>1. population.case = Reduction!Whole(<<1>>, {"CASELESS"}, "CR", "ANYCRLF", <<>>)
    BY <1>3, PopulationCase DEF Reduction!JustConventions
  <2>2. <<1>> \in Seq(Nat)
    OBVIOUS
  <2>3. QED BY <2>1, <2>2, PlainFits
<1>4. CASE population = Reduction!TwoTrials
  <2> DEFINE one == Reduction!TrialOf(<<1, 2>>, {}, 2)
             two == Reduction!TrialOf(<<3>>, {"NOTBOL"}, 1)
             t == <<one, two>>
  <2>1. population.case = Reduction!Whole(<<1>>, {}, "LF", "UNICODE", t)
    BY <1>4, PopulationCase DEF Reduction!TwoTrials
  <2>2. Inside(one) /\ Inside(two)
    <3>1. ASSUME NEW s \in Seq(Nat), NEW m \in SUBSET Reduction!MatchOptions, NEW k \in Nat, k <= Len(s)
          PROVE  Inside(Reduction!TrialOf(s, m, k))
      BY <3>1 DEF Inside, CaseTrials, Reduction!TrialOf
    <3>2. <<1, 2>> \in Seq(Nat) /\ <<3>> \in Seq(Nat) /\ Len(<<1, 2>>) = 2 /\ Len(<<3>>) = 1
      OBVIOUS
    <3>3. {} \in SUBSET Reduction!MatchOptions /\ {"NOTBOL"} \in SUBSET Reduction!MatchOptions
      BY DEF Reduction!MatchOptions
    <3>5. 2 \in Nat /\ 1 \in Nat /\ 2 <= Len(<<1, 2>>) /\ 1 <= Len(<<3>>)
      BY <3>2
    <3> DEFINE p == <<1, 2>>
               q == <<3>>
               e == {}
               m == {"NOTBOL"}
    <3> HIDE DEF p, q, e, m
    <3>6. Inside(Reduction!TrialOf(p, e, 2)) /\ Inside(Reduction!TrialOf(q, m, 1))
      <4>1. p \in Seq(Nat) /\ q \in Seq(Nat) /\ e \in SUBSET Reduction!MatchOptions /\ m \in SUBSET Reduction!MatchOptions
            /\ 2 <= Len(p) /\ 1 <= Len(q)
        BY <3>2, <3>3, <3>5 DEF p, q, e, m
      <4>2. QED BY <3>1, <3>5, <4>1
    <3>7. QED BY <3>6 DEF p, q, e, m
  <2> HIDE DEF one, two
  <2>3. t \in Seq(CaseTrials) /\ Len(t) = 2 /\ t[1] = one /\ t[2] = two
    BY <2>2 DEF Inside
  <2> HIDE DEF t
  <2>4. \A i \in 1..Len(t) : Inside(t[i])
    <3>1. 1..Len(t) = {1, 2}
      BY <2>3
    <3>2. QED BY <2>2, <2>3, <3>1
  <2>5. <<1>> \in Seq(Nat)
    OBVIOUS
  <2>6. QED BY <2>1, <2>3, <2>4, <2>5, WholeFits
<1>5. QED BY <1>1, <1>2, <1>3, <1>4

LEMMA SweptReduction == Init => ReductionInv
<1> SUFFICES ASSUME Init, about = "reduction" PROVE ReductionInv
  BY DEF ReductionInv
<1>1. Reduction!Init
  BY DEF Init
<1>2. PICK population \in {Reduction!JustPattern, Reduction!PatternAndOptions,
                           Reduction!JustConventions, Reduction!TwoTrials} :
        \E family \in SUBSET population.shapes : Reduction!Begin(population.case, family)
  BY <1>1 DEF Reduction!Init
<1>3. Fit(population.case) /\ case = population.case /\ Reduction!Begin(case, failing)
  BY <1>2, PopulationsFit DEF Reduction!Begin
<1>4. AnyReduction
  BY <1>3 DEF AnyReduction
<1>5. QED BY <1>4, AnyReductionInv

(***************************************************************************)
(* The reductions of the sweep are sound.                                  *)
(***************************************************************************)
THEOREM ReductionHolds == Spec => []ReductionSound
<1>1. QED BY SweptReduction, ReductionInvNext, ReductionInvHas, PTL DEF Spec, AnyStep

-----------------------------------------------------------------------------
(* The report of a campaign.  Each case has a piece of a list, and the     *)
(* list is the pieces one after the other, in whatever order they came:    *)
(* the places of a list are those of the entries of its pieces.            *)

Places(pieces, S) == {p \in S \X Nat : p[2] \in 1..Len(pieces[p[1]])}

PlacedBy(list, pieces, S, pos) ==
  /\ pos \in Bijection(Places(pieces, S), 1..Len(list))
  /\ \A p \in Places(pieces, S) : list[pos[p]] = pieces[p[1]][p[2]]
  /\ \A p, q \in Places(pieces, S) :
       p[1] = q[1] => (p[2] <= q[2] <=> pos[p] <= pos[q])

MadeOf(list, pieces, S) == \E pos : PlacedBy(list, pieces, S, pos)

LEMMA MadeOfNone == ASSUME NEW pieces PROVE MadeOf(<<>>, pieces, {})
<1> DEFINE pos == [p \in {} |-> 0]
<1>1. Places(pieces, {}) = {} /\ 1..Len(<<>>) = {}
  BY DEF Places
<1>2. pos \in Bijection({}, {})
  BY DEF Bijection, Injection, Surjection, IsInjective
<1>3. PlacedBy(<<>>, pieces, {}, pos)
  BY <1>1, <1>2 DEF PlacedBy
<1>4. QED BY <1>3 DEF MadeOf

\* A piece more at the end.
LEMMA MadeOfMore ==
  ASSUME NEW T, NEW list \in Seq(T), NEW pieces, NEW S, NEW i, i \notin S,
         pieces[i] \in Seq(T), MadeOf(list, pieces, S)
  PROVE  MadeOf(list \o pieces[i], pieces, S \cup {i})
<1> DEFINE P == Places(pieces, S)
           Q == Places(pieces, S \cup {i})
           n == Len(list)
           m == Len(pieces[i])
           longer == list \o pieces[i]
<1>1. PICK pos : PlacedBy(list, pieces, S, pos)
  BY DEF MadeOf
<1>2. /\ n \in Nat /\ m \in Nat /\ Len(longer) = n + m
      /\ \A j \in 1..n : longer[j] = list[j]
      /\ \A j \in 1..m : longer[n + j] = pieces[i][j]
  <2>1. /\ n \in Nat /\ m \in Nat /\ Len(longer) = n + m
        /\ \A j \in 1..(n + m) : longer[j] = IF j <= n THEN list[j] ELSE pieces[i][j - n]
    BY ConcatProperties, LenProperties
  <2> HIDE DEF n, m, longer
  <2>2. \A j \in 1..m : n + j \in 1..(n + m) /\ ~ (n + j <= n) /\ (n + j) - n = j
    BY <2>1
  <2>3. QED BY <2>1, <2>2
<1>3. /\ pos \in [P -> 1..n]
      /\ \A p, q \in P : pos[p] = pos[q] => p = q
      /\ \A j \in 1..n : \E p \in P : pos[p] = j
      /\ \A p \in P : list[pos[p]] = pieces[p[1]][p[2]]
      /\ \A p, q \in P : p[1] = q[1] => (p[2] <= q[2] <=> pos[p] <= pos[q])
  BY <1>1 DEF PlacedBy, Bijection, Injection, Surjection, IsInjective
<1>4. /\ \A p \in P : p \in Q /\ p[1] # i /\ p[2] \in Nat
      /\ \A p \in Q : p[1] # i => p \in P
      /\ \A p \in Q : p[1] = i => p = <<i, p[2]>> /\ p[2] \in 1..m
      /\ \A j \in 1..m : <<i, j>> \in Q
  BY <1>2 DEF Places
<1> DEFINE new == [p \in Q |-> IF p[1] = i THEN n + p[2] ELSE pos[p]]
<1> HIDE DEF P, Q, n, m, longer
<1>5. \A p \in Q : new[p] = IF p[1] = i THEN n + p[2] ELSE pos[p]
  OBVIOUS
<1>6. new \in [Q -> 1..(n + m)]
  <2>1. ASSUME NEW p \in Q PROVE new[p] \in 1..(n + m)
    <3>1. CASE p[1] = i
      BY <3>1, <1>2, <1>4
    <3>2. CASE p[1] # i
      <4>1. pos[p] \in 1..n
        BY <3>2, <1>3, <1>4
      <4>2. QED BY <3>2, <4>1, <1>2
    <3>3. QED BY <3>1, <3>2
  <2>2. QED BY <2>1
<1> HIDE DEF new
<1>7. \A p, q \in Q : new[p] = new[q] => p = q
  <2> SUFFICES ASSUME NEW p \in Q, NEW q \in Q, new[p] = new[q] PROVE p = q
    OBVIOUS
  <2>1. CASE p[1] = i /\ q[1] = i
    BY <2>1, <1>2, <1>4, <1>5
  <2>2. CASE p[1] # i /\ q[1] # i
    BY <2>2, <1>3, <1>4, <1>5
  <2>3. CASE p[1] = i /\ q[1] # i
    <3>1. pos[q] \in 1..n /\ p[2] \in 1..m
      BY <2>3, <1>3, <1>4
    <3>2. QED BY <2>3, <3>1, <1>2, <1>5
  <2>4. CASE p[1] # i /\ q[1] = i
    <3>1. pos[p] \in 1..n /\ q[2] \in 1..m
      BY <2>4, <1>3, <1>4
    <3>2. QED BY <2>4, <3>1, <1>2, <1>5
  <2>5. QED BY <2>1, <2>2, <2>3, <2>4
<1>8. \A j \in 1..(n + m) : \E p \in Q : new[p] = j
  <2> SUFFICES ASSUME NEW j \in 1..(n + m) PROVE \E p \in Q : new[p] = j
    OBVIOUS
  <2>1. CASE j <= n
    <3>1. PICK p \in P : pos[p] = j
      BY <2>1, <1>2, <1>3
    <3>2. QED BY <3>1, <1>4, <1>5
  <2>2. CASE ~ (j <= n)
    <3>1. j - n \in 1..m /\ n + (j - n) = j
      BY <2>2, <1>2
    <3>2. <<i, j - n>> \in Q /\ new[<<i, j - n>>] = n + (j - n)
      BY <3>1, <1>4, <1>5
    <3>3. QED BY <3>1, <3>2
  <2>3. QED BY <2>1, <2>2
<1>9. \A p \in Q : longer[new[p]] = pieces[p[1]][p[2]]
  <2> SUFFICES ASSUME NEW p \in Q PROVE longer[new[p]] = pieces[p[1]][p[2]]
    OBVIOUS
  <2>1. CASE p[1] = i
    BY <2>1, <1>2, <1>4, <1>5
  <2>2. CASE p[1] # i
    <3>1. p \in P /\ new[p] = pos[p] /\ pos[p] \in 1..n
      BY <2>2, <1>3, <1>4, <1>5
    <3>2. QED BY <3>1, <1>2, <1>3
  <2>3. QED BY <2>1, <2>2
<1>10. \A p, q \in Q : p[1] = q[1] => (p[2] <= q[2] <=> new[p] <= new[q])
  <2> SUFFICES ASSUME NEW p \in Q, NEW q \in Q, p[1] = q[1]
               PROVE p[2] <= q[2] <=> new[p] <= new[q]
    OBVIOUS
  <2>1. CASE p[1] = i
    <3>1. /\ new[p] = n + p[2] /\ new[q] = n + q[2]
          /\ p[2] \in 1..m /\ q[2] \in 1..m
      BY <2>1, <1>4, <1>5
    <3>2. QED BY <3>1, <1>2
  <2>2. CASE p[1] # i
    BY <2>2, <1>3, <1>4, <1>5
  <2>3. QED BY <2>1, <2>2
<1>11. new \in Bijection(Q, 1..(n + m))
  BY <1>6, <1>7, <1>8 DEF Bijection, Injection, Surjection, IsInjective
<1>12. PlacedBy(longer, pieces, S \cup {i}, new)
  BY <1>2, <1>9, <1>10, <1>11 DEF PlacedBy, Q
<1>13. QED BY <1>12 DEF MadeOf, longer

\* The pieces' entries in an order of their places.
Down(P, order, q) == {p \in P : <<p, q>> \in order}

InOrder(pieces, P, order) ==
  [n \in 1..Cardinality(P) |->
     LET q == CHOOSE q \in P : Cardinality(Down(P, order, q)) = n
     IN  pieces[q[1]][q[2]]]

IsOrder(P, order) ==
  /\ \A p \in P : <<p, p>> \in order
  /\ \A p, q \in P : <<p, q>> \in order \/ <<q, p>> \in order
  /\ \A p, q \in P : <<p, q>> \in order /\ <<q, p>> \in order => p = q
  /\ \A p, q, r \in P : <<p, q>> \in order /\ <<q, r>> \in order => <<p, r>> \in order

\* In an order every place has a number of its own, and every number a place.
LEMMA OrderNumbers ==
  ASSUME NEW P, IsFiniteSet(P), NEW order, IsOrder(P, order)
  PROVE  /\ \A p, q \in P : Cardinality(Down(P, order, p)) = Cardinality(Down(P, order, q)) => p = q
         /\ \A n \in 1..Cardinality(P) : \E p \in P : Cardinality(Down(P, order, p)) = n
<1> DEFINE L == Cardinality(P)
           D(q) == Down(P, order, q)
           rank == [q \in P |-> Cardinality(D(q))]
<1>1. L \in Nat /\ IsFiniteSet(1..L) /\ Cardinality(1..L) = L
  <2>1. L \in Nat
    BY FS_CardinalityType
  <2> HIDE DEF L
  <2>2. 1 \in Int /\ L \in Int /\ (1 > L => L = 0) /\ L - 1 + 1 = L
    BY <2>1
  <2>3. IsFiniteSet(1..L) /\ Cardinality(1..L) = IF 1 > L THEN 0 ELSE L - 1 + 1
    BY <2>2, FS_Interval
  <2>4. QED BY <2>1, <2>2, <2>3
<1>2. ASSUME NEW q \in P
      PROVE  D(q) \in SUBSET P /\ IsFiniteSet(D(q)) /\ Cardinality(D(q)) \in 1..L /\ q \in D(q)
  <2>1. D(q) \in SUBSET P /\ q \in D(q)
    BY DEF Down, IsOrder
  <2>2. IsFiniteSet(D(q)) /\ Cardinality(D(q)) <= L /\ Cardinality(D(q)) \in Nat
    BY <2>1, FS_Subset, FS_CardinalityType
  <2>3. Cardinality(D(q)) # 0
    BY <2>1, <2>2, FS_EmptySet
  <2>4. QED BY <2>1, <2>2, <2>3, <1>1
<1>3. ASSUME NEW p \in P, NEW q \in P, <<p, q>> \in order, Cardinality(D(p)) = Cardinality(D(q))
      PROVE  p = q
  <2>1. D(p) \in SUBSET D(q)
    BY <1>3 DEF Down, IsOrder
  <2>2. D(p) = D(q)
    BY <2>1, <1>2, <1>3, FS_Subset
  <2>3. <<q, p>> \in order
    BY <2>2, <1>2 DEF Down
  <2>4. QED BY <2>3, <1>3 DEF IsOrder
<1>4. \A p, q \in P : Cardinality(D(p)) = Cardinality(D(q)) => p = q
  BY <1>3 DEF IsOrder
<1> HIDE DEF L
<1>5. rank \in Injection(P, 1..L)
  <2> HIDE DEF D
  <2>1. rank \in [P -> 1..L]
    BY <1>2
  <2>2. \A p, q \in P : rank[p] = rank[q] => p = q
    BY <1>4
  <2>3. QED BY <2>1, <2>2 DEF Injection, IsInjective
<1>6. rank \in Surjection(P, 1..L)
  <2> HIDE DEF rank
  <2>1. Cardinality(P) = Cardinality(1..L)
    BY <1>1 DEF L
  <2>2. QED BY <1>1, <1>5, <2>1, FS_Injection
<1>7. \A n \in 1..L : \E p \in P : Cardinality(D(p)) = n
  <2> HIDE DEF D
  <2>1. \A n \in 1..L : \E p \in P : rank[p] = n
    <3> HIDE DEF rank
    <3>1. QED BY <1>6 DEF Surjection
  <2>2. QED BY <2>1
<1>8. QED BY <1>4, <1>7 DEF L

\* A list with each entry at the number of places that are not after its own.
SortedBy(list, below) ==
  [n \in 1..Len(list) |-> list[CHOOSE k \in 1..Len(list) : Cardinality(below[k]) = n]]

\* A list sorted in an order of its places is its pieces in that order.
LEMMA SortedIs ==
  ASSUME NEW list, Len(list) \in Nat, NEW pieces, NEW S, NEW pos, PlacedBy(list, pieces, S, pos),
         NEW order, IsOrder(Places(pieces, S), order),
         NEW below \in [1..Len(list) -> SUBSET (1..Len(list))],
         \A p, q \in Places(pieces, S) : pos[p] \in below[pos[q]] <=> <<p, q>> \in order
  PROVE  SortedBy(list, below) = InOrder(pieces, Places(pieces, S), order)
<1> DEFINE P == Places(pieces, S)
           L == Len(list)
           D(q) == Down(P, order, q)
<1>1. L \in Nat /\ IsFiniteSet(1..L) /\ Cardinality(1..L) = L
  <2>1. L \in Nat
    OBVIOUS
  <2> HIDE DEF L
  <2>2. 1 \in Int /\ L \in Int /\ (1 > L => L = 0) /\ L - 1 + 1 = L
    BY <2>1
  <2>3. IsFiniteSet(1..L) /\ Cardinality(1..L) = IF 1 > L THEN 0 ELSE L - 1 + 1
    BY <2>2, FS_Interval
  <2>4. QED BY <2>1, <2>2, <2>3
<1>2. /\ pos \in Injection(P, 1..L) /\ pos \in Surjection(P, 1..L)
      /\ pos \in [P -> 1..L]
      /\ \A p, q \in P : pos[p] = pos[q] => p = q
      /\ \A j \in 1..L : \E p \in P : pos[p] = j
      /\ \A p \in P : list[pos[p]] = pieces[p[1]][p[2]]
  BY DEF PlacedBy, Bijection, Injection, Surjection, IsInjective
<1> HIDE DEF P, L
<1>3. IsFiniteSet(P)
  BY <1>1, <1>2, FS_Injection
<1>4. Cardinality(P) = L
  BY <1>1, <1>2, <1>3, FS_Surjection
<1>5. IsOrder(P, order) /\ below \in [1..L -> SUBSET (1..L)]
  BY DEF P, L
<1>6. ASSUME NEW q \in P PROVE Cardinality(below[pos[q]]) = Cardinality(D(q))
  <2> DEFINE B == below[pos[q]]
             f == [p \in D(q) |-> pos[p]]
  <2>1. D(q) \in SUBSET P /\ IsFiniteSet(D(q))
    BY <1>3, FS_Subset DEF Down
  <2>2. B \in SUBSET (1..L) /\ \A p \in P : pos[p] \in B <=> p \in D(q)
    BY <1>2, <1>5 DEF Down, P
  <2> HIDE DEF B, D
  <2>3. f \in [D(q) -> B]
    BY <2>1, <2>2
  <2>4. \A a, b \in D(q) : f[a] = f[b] => a = b
    BY <1>2, <2>1
  <2>5. \A j \in B : \E p \in D(q) : f[p] = j
    BY <1>2, <2>2
  <2> HIDE DEF f
  <2>6. f \in Bijection(D(q), B)
    BY <2>3, <2>4, <2>5 DEF Bijection, Injection, Surjection, IsInjective
  <2>7. ExistsBijection(D(q), B)
    BY <2>6 DEF ExistsBijection
  <2>8. QED BY <2>1, <2>7, FS_Bijection DEF B
<1>7. ASSUME NEW n \in 1..L
      PROVE  list[CHOOSE k \in 1..L : Cardinality(below[k]) = n]
               = LET q == CHOOSE q \in P : Cardinality(D(q)) = n IN pieces[q[1]][q[2]]
  <2> DEFINE q == CHOOSE q \in P : Cardinality(D(q)) = n
             k == CHOOSE k \in 1..L : Cardinality(below[k]) = n
  <2>1. /\ \A a, b \in P : Cardinality(D(a)) = Cardinality(D(b)) => a = b
        /\ \E a \in P : Cardinality(D(a)) = n
    BY <1>3, <1>4, <1>5, OrderNumbers
  <2> HIDE DEF D
  <2>2. q \in P /\ Cardinality(D(q)) = n
    BY <2>1
  <2> HIDE DEF q
  <2>3. pos[q] \in 1..L /\ Cardinality(below[pos[q]]) = n
    BY <2>2, <1>2, <1>6
  <2>4. k \in 1..L /\ Cardinality(below[k]) = n
    BY <2>3
  <2> HIDE DEF k
  <2>5. PICK a \in P : pos[a] = k
    BY <2>4, <1>2
  <2>6. a = q
    BY <2>1, <2>2, <2>4, <2>5, <1>6
  <2>7. list[k] = pieces[q[1]][q[2]]
    BY <2>2, <2>5, <2>6, <1>2
  <2>8. QED BY <2>7 DEF k, q
<1>8. [n \in 1..L |-> list[CHOOSE k \in 1..L : Cardinality(below[k]) = n]]
        = InOrder(pieces, P, order)
  <2> DEFINE F(n) == list[CHOOSE k \in 1..L : Cardinality(below[k]) = n]
             G(n) == LET q == CHOOSE q \in P : Cardinality(D(q)) = n IN pieces[q[1]][q[2]]
  <2>1. \A n \in 1..L : F(n) = G(n)
    BY <1>7
  <2>2. InOrder(pieces, P, order) = [n \in 1..L |-> G(n)]
    BY <1>4 DEF InOrder
  <2> HIDE DEF F, G
  <2>3. [n \in 1..L |-> F(n)] = [n \in 1..L |-> G(n)]
    BY <2>1
  <2>4. QED BY <2>2, <2>3 DEF F
<1>9. QED BY <1>8 DEF P, L, SortedBy

-----------------------------------------------------------------------------
(* What a case comes to, and the report of some cases.                     *)

Causes == {"bound", "context", "crash", "edge", "match"}

OutcomesRight ==
  \A i \in 1..Manifest :
    /\ outcome[i].record \in BOOLEAN
    /\ outcome[i].findings \in Seq([kind : Causes, trial : Int])
    /\ IsABag(outcome[i].coverage)

RecordsOf == [i \in 1..Manifest |-> IF outcome[i].record THEN <<i>> ELSE <<>>]

FindingsOf ==
  [i \in 1..Manifest |->
     [k \in 1..Len(outcome[i].findings) |-> Pool!Finding(i, outcome[i].findings[k])]]

\* One of these for each time a case of S covers e.
Copies(S, e) ==
  {p \in S \X Nat : e \in DOMAIN outcome[p[1]].coverage
                    /\ p[2] \in 1..outcome[p[1]].coverage[e]}

Covered(S) ==
  [e \in UNION {DOMAIN outcome[i].coverage : i \in S} |-> Cardinality(Copies(S, e))]

AnyFinding == [index : 1..Manifest, kind : Causes, trial : Int]

ReportOf(r, S) ==
  /\ r \in [records : Seq(1..Manifest), findings : Seq(AnyFinding), coverage : {Covered(S)}]
  /\ MadeOf(r.records, RecordsOf, S) /\ MadeOf(r.findings, FindingsOf, S)
  /\ \A e : IsFiniteSet(Copies(S, e))

\* A case more covers what it covers as often again.
LEMMA CoveredMore ==
  ASSUME OutcomesRight, NEW S \in SUBSET (1..Manifest), \A e : IsFiniteSet(Copies(S, e)),
         NEW i \in (1..Manifest) \ S
  PROVE  /\ Pool!(+)(Covered(S), outcome[i].coverage) = Covered(S \cup {i})
         /\ \A e : IsFiniteSet(Copies(S \cup {i}, e))
<1> DEFINE c == outcome[i].coverage
           Once(e) == {p \in {i} \X Nat : e \in DOMAIN c /\ p[2] \in 1..c[e]}
           Often(e) == IF e \in DOMAIN c THEN c[e] ELSE 0
           All(X) == UNION {DOMAIN outcome[j].coverage : j \in X}
<1>1. \A e \in DOMAIN c : c[e] \in Nat
  BY DEF OutcomesRight, IsABag
<1> HIDE DEF c
<1>2. ASSUME NEW e PROVE IsFiniteSet(Once(e)) /\ Cardinality(Once(e)) = Often(e)
  <2>1. CASE e \in DOMAIN c
    <3> DEFINE n == c[e]
               f == [k \in 1..n |-> <<i, k>>]
    <3>1. n \in Nat
      BY <1>1, <2>1
    <3> HIDE DEF n
    <3>2. 1 \in Int /\ n \in Int /\ (1 > n => n = 0) /\ n - 1 + 1 = n
      BY <3>1
    <3>3. IsFiniteSet(1..n) /\ Cardinality(1..n) = IF 1 > n THEN 0 ELSE n - 1 + 1
      BY <3>2, FS_Interval
    <3>4. \A p : p \in Once(e) <=> \E k \in 1..n : p = <<i, k>>
      BY <2>1, <3>1 DEF n
    <3> HIDE DEF Once
    <3>5. f \in Bijection(1..n, Once(e))
      BY <3>4 DEF Bijection, Injection, Surjection, IsInjective
    <3>6. ExistsBijection(1..n, Once(e))
      BY <3>5 DEF ExistsBijection
    <3>7. IsFiniteSet(Once(e)) /\ Cardinality(Once(e)) = Cardinality(1..n)
      BY <3>3, <3>6, FS_Bijection
    <3>8. QED BY <2>1, <3>2, <3>3, <3>7 DEF n
  <2>2. CASE e \notin DOMAIN c
    <3>1. Once(e) = {} /\ Often(e) = 0
      BY <2>2
    <3>2. QED BY <3>1, FS_EmptySet
  <2>3. QED BY <2>1, <2>2
<1>3. ASSUME NEW e
      PROVE  /\ IsFiniteSet(Copies(S \cup {i}, e))
             /\ Cardinality(Copies(S \cup {i}, e)) = Cardinality(Copies(S, e)) + Often(e)
  <2>1. Copies(S \cup {i}, e) = Copies(S, e) \cup Once(e) /\ Copies(S, e) \cap Once(e) = {}
    BY DEF Copies, c
  <2> HIDE DEF Once
  <2>2. /\ IsFiniteSet(Copies(S, e) \cup Once(e))
        /\ Cardinality(Copies(S, e) \cup Once(e))
             = Cardinality(Copies(S, e)) + Cardinality(Once(e)) - Cardinality(Copies(S, e) \cap Once(e))
    BY <1>2, FS_Union
  <2>3. Cardinality({}) = 0 /\ Cardinality(Copies(S, e)) \in Nat /\ Cardinality(Once(e)) \in Nat
    BY <1>2, FS_EmptySet, FS_CardinalityType
  <2>4. Cardinality(Copies(S, e) \cap Once(e)) = 0 /\ Cardinality(Once(e)) = Often(e)
    BY <1>2, <2>1, <2>3
  <2> HIDE DEF Often
  <2>5. Cardinality(Copies(S, e) \cup Once(e)) = Cardinality(Copies(S, e)) + Often(e)
    BY <2>2, <2>3, <2>4
  <2>6. QED BY <2>1, <2>2, <2>5
<1>4. DOMAIN Covered(S) = All(S) /\ All(S \cup {i}) = All(S) \cup DOMAIN c
  BY DEF Covered, c
<1>5. ASSUME NEW e \in All(S) \cup DOMAIN c
      PROVE  (IF e \in All(S) THEN Covered(S)[e] ELSE 0) + Often(e)
               = Cardinality(Copies(S \cup {i}, e))
  <2>1. CASE e \in All(S)
    <3>1. Covered(S)[e] = Cardinality(Copies(S, e))
      BY <2>1 DEF Covered
    <3> HIDE DEF Often, All
    <3>2. QED BY <1>3, <2>1, <3>1
  <2>2. CASE e \notin All(S)
    <3>1. Copies(S, e) = {}
      BY <2>2 DEF Copies
    <3>2. Cardinality(Copies(S, e)) = 0
      BY <3>1, FS_EmptySet
    <3> HIDE DEF Often, All
    <3>3. QED BY <1>3, <2>2, <3>2
  <2>3. QED BY <2>1, <2>2
<1>6. Pool!(+)(Covered(S), c)
        = [e \in All(S) \cup DOMAIN c |->
             (IF e \in All(S) THEN Covered(S)[e] ELSE 0) + Often(e)]
  <2> HIDE DEF All
  <2>1. QED BY <1>4 DEF Pool!(+)
<1>7. Covered(S \cup {i}) = [e \in All(S) \cup DOMAIN c |-> Cardinality(Copies(S \cup {i}, e))]
  BY <1>4 DEF Covered
<1> HIDE DEF All, Often, Once
<1>8. Pool!(+)(Covered(S), c) = Covered(S \cup {i})
  BY <1>5, <1>6, <1>7
<1>9. QED BY <1>3, <1>8 DEF c

\* The report of one case more.
LEMMA AddedIs ==
  ASSUME OutcomesRight, NEW S \in SUBSET (1..Manifest), NEW r, ReportOf(r, S),
         NEW i \in (1..Manifest) \ S
  PROVE  ReportOf(Pool!Added(r, i), S \cup {i})
<1> DEFINE more == Pool!Added(r, i)
<1>1. /\ r.records \in Seq(1..Manifest) /\ r.findings \in Seq(AnyFinding)
      /\ r.coverage = Covered(S) /\ \A e : IsFiniteSet(Copies(S, e))
      /\ MadeOf(r.records, RecordsOf, S) /\ MadeOf(r.findings, FindingsOf, S)
      /\ i \notin S
  BY DEF ReportOf
<1>2. RecordsOf[i] \in Seq(1..Manifest) /\ more.records = r.records \o RecordsOf[i]
  <2>1. RecordsOf[i] = IF outcome[i].record THEN <<i>> ELSE <<>>
    BY DEF RecordsOf
  <2>2. more.records = IF outcome[i].record THEN Append(r.records, i) ELSE r.records
    BY DEF Pool!Added
  <2>3. outcome[i].record \in BOOLEAN
    BY DEF OutcomesRight
  <2>4. Append(r.records, i) = r.records \o <<i>> /\ r.records \o <<>> = r.records
    BY <1>1, AppendIsConcat, ConcatEmptySeq
  <2>5. <<i>> \in Seq(1..Manifest) /\ <<>> \in Seq(1..Manifest)
    OBVIOUS
  <2>6. QED BY <2>1, <2>2, <2>3, <2>4, <2>5
<1>3. FindingsOf[i] \in Seq(AnyFinding) /\ more.findings = r.findings \o FindingsOf[i]
  <2>1. FindingsOf[i] = [k \in 1..Len(outcome[i].findings) |->
                           Pool!Finding(i, outcome[i].findings[k])]
    BY DEF FindingsOf
  <2>2. more.findings = r.findings \o FindingsOf[i]
    BY <2>1 DEF Pool!Added
  <2>3. /\ Len(outcome[i].findings) \in Nat
        /\ \A k \in 1..Len(outcome[i].findings) :
             outcome[i].findings[k] \in [kind : Causes, trial : Int]
    BY ElementOfSeq, LenProperties DEF OutcomesRight
  <2>4. \A k \in 1..Len(outcome[i].findings) :
          Pool!Finding(i, outcome[i].findings[k]) \in AnyFinding
    BY <2>3 DEF Pool!Finding, AnyFinding
  <2>5. QED BY <2>1, <2>2, <2>3, <2>4, IsASeq
<1>4. more.coverage = Covered(S \cup {i}) /\ \A e : IsFiniteSet(Copies(S \cup {i}, e))
  <2>1. more.coverage = Pool!(+)(r.coverage, outcome[i].coverage)
    BY DEF Pool!Added
  <2>2. QED BY <1>1, <2>1, CoveredMore DEF ReportOf
<1> HIDE DEF more
<1>5. MadeOf(more.records, RecordsOf, S \cup {i})
  <2>1. r.records \in Seq(1..Manifest) /\ RecordsOf[i] \in Seq(1..Manifest) /\ i \notin S /\ MadeOf(r.records, RecordsOf, S)
    BY <1>1, <1>2
  <2>2. MadeOf(r.records \o RecordsOf[i], RecordsOf, S \cup {i})
    BY <2>1, MadeOfMore, Zenon
  <2>3. QED BY <1>2, <2>2
<1>6. MadeOf(more.findings, FindingsOf, S \cup {i})
  <2>1. r.findings \in Seq(AnyFinding) /\ FindingsOf[i] \in Seq(AnyFinding) /\ i \notin S /\ MadeOf(r.findings, FindingsOf, S)
    BY <1>1, <1>3
  <2>2. MadeOf(r.findings \o FindingsOf[i], FindingsOf, S \cup {i})
    BY <2>1, MadeOfMore, Zenon
  <2>3. QED BY <1>3, <2>2
<1>7. more \in [records : Seq(1..Manifest), findings : Seq(AnyFinding),
                coverage : {Covered(S \cup {i})}]
  <2>1. more.records \in Seq(1..Manifest) /\ more.findings \in Seq(AnyFinding)
    BY <1>1, <1>2, <1>3, ConcatProperties
  <2>2. more = [records |-> more.records, findings |-> more.findings, coverage |-> more.coverage]
    BY DEF Pool!Added, more
  <2>3. QED BY <1>4, <2>1, <2>2
<1>8. ReportOf(more, S \cup {i})
  BY <1>4, <1>5, <1>6, <1>7, Zenon DEF ReportOf
<1>9. QED BY <1>8 DEF more

\* Cases are added one after the other.
LEMMA AddedSteps ==
  ASSUME NEW r, NEW cases, Len(cases) \in Nat
  PROVE  \E sum : /\ Pool!AddedAll(r, cases) = sum[Len(cases)]
                  /\ \A k \in 0..Len(cases) :
                       sum[k] = IF k = 0 THEN r ELSE Pool!Added(sum[k - 1], cases[k])
<1> DEFINE Step(x, k) == Pool!Added(x, cases[k])
           F(f, n) == f = [k \in 0..n |-> IF k = 0 THEN r ELSE Pool!Added(f[k - 1], cases[k])]
           Q == {n \in Nat : \E f : F(f, n)}
<1>1. 0 \in Q
  <2> DEFINE f == [k \in 0..0 |-> r]
  <2>1. F(f, 0)
    OBVIOUS
  <2>2. QED BY <2>1
<1>2. ASSUME NEW n \in Nat, n \in Q PROVE n + 1 \in Q
  <2>1. PICK f : F(f, n)
    BY <1>2
  <2> DEFINE g == [k \in 0..(n + 1) |-> IF k = n + 1 THEN Step(f[n], n + 1) ELSE f[k]]
             e == [k \in 0..(n + 1) |-> IF k = 0 THEN r ELSE Step(g[k - 1], k)]
  <2>2. \A k \in 0..n : f[k] = IF k = 0 THEN r ELSE Step(f[k - 1], k)
    BY <2>1
  <2> HIDE DEF Step
  <2>3. ASSUME NEW k \in 0..(n + 1) PROVE g[k] = e[k]
    <3>1. CASE k = n + 1
      <4>1. k - 1 \in 0..(n + 1) /\ k - 1 # n + 1 /\ k - 1 = n /\ k # 0
        BY <3>1
      <4>2. g[k] = Step(f[n], k) /\ g[k - 1] = f[n]
        BY <3>1, <4>1
      <4>3. e[k] = Step(g[k - 1], k)
        BY <4>1
      <4>4. QED BY <4>2, <4>3
    <3>2. CASE k # n + 1 /\ k # 0
      <4>1. k \in 0..n /\ k - 1 \in 0..(n + 1) /\ k - 1 # n + 1
        BY <3>2
      <4>2. g[k] = f[k] /\ g[k - 1] = f[k - 1]
        BY <3>2, <4>1
      <4>3. QED BY <2>2, <3>2, <4>1, <4>2
    <3>3. CASE k = 0
      <4>1. 0 \in 0..n /\ 0 # n + 1
        OBVIOUS
      <4>2. QED BY <2>2, <3>3, <4>1
    <3>4. QED BY <3>1, <3>2, <3>3
  <2>4. g = e
    BY <2>3
  <2>5. F(g, n + 1)
    BY <2>4 DEF Step
  <2> HIDE DEF g
  <2>6. n + 1 \in Nat /\ \E f0 : F(f0, n + 1)
    <3> HIDE DEF F
    <3>1. QED BY <2>5
  <2> HIDE DEF F
  <2>7. QED BY <2>6
<1>3. Nat \subseteq Q
  <2> HIDE DEF Q
  <2>1. QED BY <1>1, <1>2, CountingUp
<1>4. \E f : F(f, Len(cases))
  BY <1>3
<1> DEFINE sum == CHOOSE f : F(f, Len(cases))
<1>5. F(sum, Len(cases))
  BY <1>4
<1>6. Pool!AddedAll(r, cases) = sum[Len(cases)]
  BY DEF Pool!AddedAll
<1> HIDE DEF sum, Q
<1>7. \A k \in 0..Len(cases) :
        sum[k] = IF k = 0 THEN r ELSE Pool!Added(sum[k - 1], cases[k])
  BY <1>5
<1> HIDE DEF F
<1>8. QED BY <1>6, <1>7

\* The report of some cases more, none of them twice.
LEMMA AddedAllIs ==
  ASSUME OutcomesRight, NEW S \in SUBSET (1..Manifest), NEW r, ReportOf(r, S),
         NEW cases \in Seq(1..Manifest), Distinct(cases), ToSet(cases) \cap S = {}
  PROVE  ReportOf(Pool!AddedAll(r, cases), S \cup ToSet(cases))
<1> DEFINE N == Len(cases)
<1>1. /\ N \in Nat /\ \A k \in 1..N : cases[k] \in 1..Manifest
      /\ \A x : x \in ToSet(cases) <=> \E k \in 1..N : x = cases[k]
  BY Members, ElementOfSeq
<1>2. PICK sum : /\ Pool!AddedAll(r, cases) = sum[N]
                 /\ \A k \in 0..N : sum[k] = IF k = 0 THEN r ELSE Pool!Added(sum[k - 1], cases[k])
  BY <1>1, AddedSteps
<1>3. \A j, k \in 1..N : cases[j] = cases[k] => j = k
  BY DEF Distinct
<1> HIDE DEF N
<1> DEFINE Early(k) == S \cup {cases[j] : j \in 1..k}
           R == {k \in Nat : k <= N => ReportOf(sum[k], Early(k))}
<1>4. 0 \in R
  <2>1. Early(0) = S /\ sum[0] = r
    BY <1>1, <1>2
  <2>2. QED BY <2>1
<1>5. ASSUME NEW k \in Nat, k \in R PROVE k + 1 \in R
  <2> SUFFICES ASSUME k + 1 <= N PROVE ReportOf(sum[k + 1], Early(k + 1))
    OBVIOUS
  <2> DEFINE i == cases[k + 1]
  <2>1. k <= N /\ k + 1 \in 1..N /\ k + 1 \in 0..N /\ k + 1 # 0 /\ (k + 1) - 1 = k
    BY <1>1
  <2>2. ReportOf(sum[k], Early(k)) /\ sum[k + 1] = Pool!Added(sum[k], i)
    BY <1>2, <1>5, <2>1
  <2>3. \A j \in 1..k : j \in 1..N /\ j # k + 1
    BY <1>1, <2>1
  <2>4. Early(k) \in SUBSET (1..Manifest)
    BY <1>1, <2>3
  <2>5. i \in (1..Manifest) \ Early(k)
    BY <1>1, <1>3, <2>1, <2>3
  <2>6. Early(k) \cup {i} = Early(k + 1)
    <3>1. \A j : j \in 1..(k + 1) <=> j \in 1..k \/ j = k + 1
      BY <1>5
    <3>2. QED BY <3>1
  <2> HIDE DEF Early, i
  <2>7. ReportOf(Pool!Added(sum[k], i), Early(k) \cup {i})
    BY <2>2, <2>4, <2>5, AddedIs
  <2>8. QED BY <2>2, <2>6, <2>7
<1>6. Nat \subseteq R
  <2> HIDE DEF R
  <2>1. QED BY <1>4, <1>5, CountingUp
<1>7. ReportOf(sum[N], Early(N))
  <2> HIDE DEF Early
  <2>1. QED BY <1>1, <1>6
<1>8. Early(N) = S \cup ToSet(cases)
  BY <1>1
<1>9. QED BY <1>2, <1>7, <1>8

-----------------------------------------------------------------------------
(* Putting the report in order.                                            *)

RecordPlaces == Places(RecordsOf, 1..Manifest)
FindingPlaces == Places(FindingsOf, 1..Manifest)

FindingAt(p) == FindingsOf[p[1]][p[2]]

\* Two findings the sort does not tell apart stay in their case's order.
RecordOrder == {pq \in RecordPlaces \X RecordPlaces : pq[1][1] <= pq[2][1]}
FindingOrder ==
  {pq \in FindingPlaces \X FindingPlaces :
     \/ Pool!Before(FindingAt(pq[1]), FindingAt(pq[2]))
     \/ ~ Pool!Before(FindingAt(pq[2]), FindingAt(pq[1])) /\ pq[1][2] <= pq[2][2]}

TheReport ==
  [records  |-> InOrder(RecordsOf, RecordPlaces, RecordOrder),
   findings |-> InOrder(FindingsOf, FindingPlaces, FindingOrder),
   coverage |-> Covered(1..Manifest)]

LEMMA RecordsSorted ==
  ASSUME OutcomesRight, NEW list, Len(list) \in Nat, MadeOf(list, RecordsOf, 1..Manifest)
  PROVE  [n \in 1..Len(list) |->
            list[CHOOSE k \in 1..Len(list) :
                   Cardinality({j \in 1..Len(list) :
                       list[j] < list[k] \/ (~ (list[k] < list[j]) /\ j =< k)}) = n]]
           = InOrder(RecordsOf, RecordPlaces, RecordOrder)
<1> DEFINE P == RecordPlaces
           L == Len(list)
           Below(k) == {j \in 1..L : list[j] < list[k] \/ (~ (list[k] < list[j]) /\ j =< k)}
           below == [k \in 1..L |-> Below(k)]
<1>1. PICK pos : PlacedBy(list, RecordsOf, 1..Manifest, pos)
  BY DEF MadeOf
<1>2. ASSUME NEW p \in P
      PROVE  p[1] \in Nat /\ p = <<p[1], 1>> /\ RecordsOf[p[1]][p[2]] = p[1]
  <2>1. p[1] \in 1..Manifest /\ p = <<p[1], p[2]>> /\ p[2] \in 1..Len(RecordsOf[p[1]])
    BY DEF RecordPlaces, Places
  <2>2. RecordsOf[p[1]] = IF outcome[p[1]].record THEN <<p[1]>> ELSE <<>>
    BY <2>1 DEF RecordsOf
  <2>3. RecordsOf[p[1]] = <<p[1]>> /\ p[2] = 1
    BY <2>1, <2>2
  <2>4. QED BY <2>1, <2>3
<1>3. IsOrder(P, RecordOrder)
  <2>1. \A p, q \in P : <<p, q>> \in RecordOrder <=> p[1] <= q[1]
    BY DEF RecordOrder
  <2> HIDE DEF P
  <2>2. \A p, q \in P : p[1] <= q[1] /\ q[1] <= p[1] => p = q
    BY <1>2
  <2>3. \A p, q, r \in P : p[1] <= q[1] /\ q[1] <= r[1] => p[1] <= r[1]
    BY <1>2
  <2>4. \A p, q \in P : p[1] <= p[1] /\ (p[1] <= q[1] \/ q[1] <= p[1])
    BY <1>2
  <2>5. QED BY <2>1, <2>2, <2>3, <2>4 DEF IsOrder
<1>4. /\ \A p \in P : pos[p] \in 1..L /\ list[pos[p]] = p[1]
      /\ \A p, q \in P : p[1] = q[1] => p = q
  BY <1>1, <1>2 DEF PlacedBy, RecordPlaces, Bijection, Injection
<1>5. ASSUME NEW p \in P, NEW q \in P
      PROVE  pos[p] \in below[pos[q]] <=> <<p, q>> \in RecordOrder
  <2>1. <<p, q>> \in RecordOrder <=> p[1] <= q[1]
    BY DEF RecordOrder
  <2>2. pos[p] \in below[pos[q]]
          <=> p[1] < q[1] \/ (~ (q[1] < p[1]) /\ pos[p] =< pos[q])
    BY <1>4
  <2> HIDE DEF below, P, L
  <2>3. p[1] = q[1] => pos[p] =< pos[q]
    BY <1>4
  <2>4. p[1] \in Nat /\ q[1] \in Nat
    BY <1>2
  <2>5. QED BY <2>1, <2>2, <2>3, <2>4
<1>6. below \in [1..L -> SUBSET (1..L)]
  OBVIOUS
<1> HIDE DEF below
<1>7. [n \in 1..L |-> list[CHOOSE k \in 1..L : Cardinality(below[k]) = n]]
        = InOrder(RecordsOf, P, RecordOrder)
  <2> DEFINE R == Places(RecordsOf, 1..Manifest)
  <2>1. /\ PlacedBy(list, RecordsOf, 1..Manifest, pos) /\ IsOrder(R, RecordOrder)
        /\ \A p, q \in R : pos[p] \in below[pos[q]] <=> <<p, q>> \in RecordOrder
    BY <1>1, <1>3, <1>5 DEF RecordPlaces
  <2>2. SortedBy(list, below) = InOrder(RecordsOf, R, RecordOrder)
    BY <1>6, <2>1, SortedIs
  <2>3. QED BY <2>2 DEF RecordPlaces, SortedBy
<1>8. \A k \in 1..L : below[k] = Below(k)
  BY DEF below
<1> HIDE DEF Below
<1>9. \A n \in 1..L : (CHOOSE k \in 1..L : Cardinality(below[k]) = n)
                        = CHOOSE k \in 1..L : Cardinality(Below(k)) = n
  BY <1>8
<1>10. [n \in 1..L |-> list[CHOOSE k \in 1..L : Cardinality(Below(k)) = n]]
         = [n \in 1..L |-> list[CHOOSE k \in 1..L : Cardinality(below[k]) = n]]
  <2> DEFINE First(n) == CHOOSE k \in 1..L : Cardinality(Below(k)) = n
             Second(n) == CHOOSE k \in 1..L : Cardinality(below[k]) = n
  <2>1. \A n \in 1..L : First(n) = Second(n)
    BY <1>9
  <2> HIDE DEF First, Second
  <2>2. [n \in 1..L |-> list[First(n)]] = [n \in 1..L |-> list[Second(n)]]
    BY <2>1
  <2>3. QED BY <2>2 DEF First, Second
<1>11. QED BY <1>7, <1>10 DEF Below

\* What the sort looks at in a finding.
LEMMA FindingKeys ==
  ASSUME OutcomesRight, NEW p \in FindingPlaces
  PROVE  /\ p[1] \in Nat /\ p[2] \in Nat /\ p = <<p[1], p[2]>>
         /\ FindingAt(p).index = p[1]
         /\ Pool!Place(FindingAt(p).trial) \in Int /\ Pool!Rank(FindingAt(p).kind) \in Int
<1> DEFINE i == p[1]
           found == outcome[i].findings[p[2]]
<1>1. i \in 1..Manifest /\ p = <<p[1], p[2]>> /\ p[2] \in 1..Len(FindingsOf[i])
  BY DEF FindingPlaces, Places
<1>2. /\ FindingsOf[i] = [k \in 1..Len(outcome[i].findings) |->
                            Pool!Finding(i, outcome[i].findings[k])]
      /\ outcome[i].findings \in Seq([kind : Causes, trial : Int])
      /\ Len(outcome[i].findings) \in Nat
  BY <1>1, LenProperties DEF FindingsOf, OutcomesRight
<1>3. Len(FindingsOf[i]) = Len(outcome[i].findings)
  BY <1>2
<1>4. /\ FindingAt(p) = Pool!Finding(i, found)
      /\ found \in [kind : Causes, trial : Int]
  BY <1>1, <1>2, <1>3, ElementOfSeq DEF FindingAt
<1>5. /\ FindingAt(p).index = i /\ FindingAt(p).trial \in Int /\ FindingAt(p).kind \in Causes
  BY <1>4 DEF Pool!Finding
<1>6. \A trial \in Int : Pool!Place(trial) \in Int
  BY DEF Pool!Place
<1>7. \A kind \in Causes : Pool!Rank(kind) \in Int
  <2>1. \A kind \in Causes : \E k \in 1..5 : Pool!KindOrder[k] = kind
    BY DEF Causes, Pool!KindOrder
  <2>2. Len(Pool!KindOrder) = 5
    BY DEF Pool!KindOrder
  <2>3. QED BY <2>1, <2>2 DEF Pool!Rank
<1>8. QED BY <1>1, <1>2, <1>5, <1>6, <1>7

LEMMA FindingOrderIs == ASSUME OutcomesRight PROVE IsOrder(FindingPlaces, FindingOrder)
<1> DEFINE P == FindingPlaces
           T(p) == Pool!Place(FindingAt(p).trial)
           K(p) == Pool!Rank(FindingAt(p).kind)
           Less(p, q) == \/ p[1] < q[1]
                         \/ p[1] = q[1] /\ T(p) < T(q)
                         \/ p[1] = q[1] /\ T(p) = T(q) /\ K(p) < K(q)
           LE(p, q) == Less(p, q) \/ (~ Less(q, p) /\ p[2] <= q[2])
<1>1. \A p \in P : /\ p[1] \in Nat /\ p[2] \in Nat /\ p = <<p[1], p[2]>>
                   /\ T(p) \in Int /\ K(p) \in Int
  BY FindingKeys
<1>2. ASSUME NEW p \in P, NEW q \in P PROVE <<p, q>> \in FindingOrder <=> LE(p, q)
  <2>1. FindingAt(p).index = p[1] /\ FindingAt(q).index = q[1]
    BY FindingKeys
  <2>2. /\ Pool!Before(FindingAt(p), FindingAt(q)) <=> Less(p, q)
        /\ Pool!Before(FindingAt(q), FindingAt(p)) <=> Less(q, p)
    BY <2>1 DEF Pool!Before
  <2> HIDE DEF Less
  <2>3. QED BY <2>2 DEF FindingOrder
<1> HIDE DEF T, K, P
<1>3. \A p, q \in P : LE(p, p) /\ (LE(p, q) \/ LE(q, p))
  BY <1>1
<1>4. \A p, q \in P : LE(p, q) /\ LE(q, p) => p = q
  BY <1>1
<1>5. \A p, q, r \in P : LE(p, q) /\ LE(q, r) => LE(p, r)
  BY <1>1
<1> HIDE DEF LE
<1>6. IsOrder(P, FindingOrder)
  BY <1>2, <1>3, <1>4, <1>5 DEF IsOrder
<1>7. QED BY <1>6 DEF P

LEMMA FindingsSorted ==
  ASSUME OutcomesRight, NEW list, Len(list) \in Nat, MadeOf(list, FindingsOf, 1..Manifest)
  PROVE  [n \in 1..Len(list) |->
            list[CHOOSE k \in 1..Len(list) :
                   Cardinality({j \in 1..Len(list) :
                       \/ Pool!Before(list[j], list[k])
                       \/ ~ Pool!Before(list[k], list[j]) /\ j =< k}) = n]]
           = InOrder(FindingsOf, FindingPlaces, FindingOrder)
<1> DEFINE P == FindingPlaces
           L == Len(list)
           Below(k) == {j \in 1..L : \/ Pool!Before(list[j], list[k])
                                     \/ ~ Pool!Before(list[k], list[j]) /\ j =< k}
           below == [k \in 1..L |-> Below(k)]
<1>1. PICK pos : PlacedBy(list, FindingsOf, 1..Manifest, pos)
  BY DEF MadeOf
<1>2. /\ \A p \in P : pos[p] \in 1..L /\ list[pos[p]] = FindingAt(p)
      /\ \A p, q \in P : p[1] = q[1] => (p[2] <= q[2] <=> pos[p] <= pos[q])
  BY <1>1 DEF PlacedBy, FindingPlaces, FindingAt, Bijection, Injection
<1>3. ASSUME NEW p \in P, NEW q \in P
      PROVE  pos[p] \in below[pos[q]] <=> <<p, q>> \in FindingOrder
  <2> DEFINE A == Pool!Before(FindingAt(p), FindingAt(q))
             B == Pool!Before(FindingAt(q), FindingAt(p))
  <2>1. <<p, q>> \in FindingOrder <=> A \/ (~ B /\ p[2] <= q[2])
    BY DEF FindingOrder
  <2>2. pos[p] \in below[pos[q]] <=> A \/ (~ B /\ pos[p] =< pos[q])
    BY <1>2
  <2>3. ~ A /\ ~ B => p[1] = q[1]
    BY FindingKeys DEF Pool!Before
  <2> HIDE DEF A, B, below, P, L
  <2>4. p[1] = q[1] => (p[2] <= q[2] <=> pos[p] =< pos[q])
    BY <1>2
  <2>5. QED BY <2>1, <2>2, <2>3, <2>4
<1>4. below \in [1..L -> SUBSET (1..L)]
  OBVIOUS
<1> HIDE DEF below
<1>5. [n \in 1..L |-> list[CHOOSE k \in 1..L : Cardinality(below[k]) = n]]
        = InOrder(FindingsOf, P, FindingOrder)
  <2> DEFINE R == Places(FindingsOf, 1..Manifest)
  <2>1. /\ PlacedBy(list, FindingsOf, 1..Manifest, pos) /\ IsOrder(R, FindingOrder)
        /\ \A p, q \in R : pos[p] \in below[pos[q]] <=> <<p, q>> \in FindingOrder
    BY <1>1, <1>3, FindingOrderIs DEF FindingPlaces
  <2>2. SortedBy(list, below) = InOrder(FindingsOf, R, FindingOrder)
    BY <1>4, <2>1, SortedIs
  <2>3. QED BY <2>2 DEF FindingPlaces, SortedBy
<1>6. \A k \in 1..L : below[k] = Below(k)
  BY DEF below
<1> HIDE DEF Below
<1>7. \A n \in 1..L : (CHOOSE k \in 1..L : Cardinality(below[k]) = n)
                        = CHOOSE k \in 1..L : Cardinality(Below(k)) = n
  BY <1>6
<1>8. [n \in 1..L |-> list[CHOOSE k \in 1..L : Cardinality(Below(k)) = n]]
        = [n \in 1..L |-> list[CHOOSE k \in 1..L : Cardinality(below[k]) = n]]
  <2> DEFINE First(n) == CHOOSE k \in 1..L : Cardinality(Below(k)) = n
             Second(n) == CHOOSE k \in 1..L : Cardinality(below[k]) = n
  <2>1. \A n \in 1..L : First(n) = Second(n)
    BY <1>7
  <2> HIDE DEF First, Second
  <2>2. [n \in 1..L |-> list[First(n)]] = [n \in 1..L |-> list[Second(n)]]
    BY <2>1
  <2>3. QED BY <2>2 DEF First, Second
<1>9. QED BY <1>5, <1>8 DEF Below

\* In order, the report of every case is one and the same.
LEMMA OrderedIs ==
  ASSUME OutcomesRight, NEW r, ReportOf(r, 1..Manifest)
  PROVE  Pool!Ordered(r) = TheReport
<1> DEFINE records == r.records
           list == r.findings
<1>1. /\ Len(records) \in Nat /\ Len(list) \in Nat
      /\ MadeOf(records, RecordsOf, 1..Manifest) /\ MadeOf(list, FindingsOf, 1..Manifest)
      /\ r = [records |-> records, findings |-> list, coverage |-> Covered(1..Manifest)]
  BY LenProperties DEF ReportOf
<1>2. Pool!Sorted(list, Pool!Before) = TheReport.findings
  <2>1. TheReport.findings = InOrder(FindingsOf, FindingPlaces, FindingOrder)
    BY DEF TheReport
  <2>2. Pool!Sorted(list, Pool!Before)
          = [n \in 1..Len(list) |->
               list[CHOOSE k \in 1..Len(list) :
                   Cardinality({j \in 1..Len(list) :
                       \/ Pool!Before(list[j], list[k])
                       \/ ~ Pool!Before(list[k], list[j]) /\ j =< k}) = n]]
    BY DEF Pool!Sorted, Pool!Cardinality, Cardinality
  <2> HIDE DEF list
  <2>3. QED BY <1>1, <2>1, <2>2, FindingsSorted
<1>3. Pool!Ordered(r).records = TheReport.records
  <2>1. TheReport.records = InOrder(RecordsOf, RecordPlaces, RecordOrder)
    BY DEF TheReport
  <2>2. Pool!Ordered(r).records
          = [n \in 1..Len(records) |->
               records[CHOOSE k \in 1..Len(records) :
                   Cardinality({j \in 1..Len(records) :
                     records[j] < records[k] \/ (~ (records[k] < records[j]) /\ j =< k)}) = n]]
    BY <1>1 DEF Pool!Ordered, Pool!Sorted, Pool!Cardinality, Cardinality
  <2> HIDE DEF records
  <2>3. QED BY <1>1, <2>1, <2>2, RecordsSorted
<1>4. Pool!Ordered(r).findings = Pool!Sorted(list, Pool!Before)
  BY <1>1 DEF Pool!Ordered
<1>5. /\ DOMAIN Pool!Ordered(r) = DOMAIN r /\ Pool!Ordered(r).coverage = r.coverage
      /\ Pool!Ordered(r) = [k \in DOMAIN Pool!Ordered(r) |-> Pool!Ordered(r)[k]]
  BY <1>1 DEF Pool!Ordered
<1>6. QED BY <1>1, <1>2, <1>3, <1>4, <1>5 DEF TheReport

-----------------------------------------------------------------------------
(* The pool: each case is in one chunk, once, and each chunk is waiting,   *)
(* held by one worker, or in the report.                                   *)

ChunkCount == (Manifest + ChunkSize - 1) \div ChunkSize

LEMMA ChunksAre ==
  /\ ChunkCount \in Nat /\ Len(Pool!Chunks) = ChunkCount
  /\ \A k \in 1..ChunkCount :
       /\ Pool!Chunks[k] \in Seq(1..Manifest) /\ Distinct(Pool!Chunks[k])
       /\ \A j \in 1..ChunkCount :
            j # k => ToSet(Pool!Chunks[j]) \cap ToSet(Pool!Chunks[k]) = {}
  /\ \A i \in 1..Manifest : \E k \in 1..ChunkCount : i \in ToSet(Pool!Chunks[k])
<1> DEFINE M == Manifest
           c == ChunkSize
           N == ChunkCount
           Size(k) == Pool!Lesser(c, M - (k - 1) * c)
<1>1. M \in Nat \ {0} /\ c \in Nat \ {0}
  BY SweepAssumption
<1>2. N = (M + c - 1) \div c
  BY DEF ChunkCount
<1>3. Pool!Chunks = [k \in 1..N |-> [n \in 1..Size(k) |-> (k - 1) * c + n]]
  BY <1>2 DEF Pool!Chunks
<1> HIDE DEF M, c, N, Size
<1>4. N \in Nat /\ N * c <= M + c - 1 /\ M - 1 < N * c
  BY <1>1, <1>2
<1>5. ASSUME NEW k \in 1..N
      PROVE  (k - 1) * c \in Nat /\ (k - 1) * c < M /\ k * c = (k - 1) * c + c
  <2>1. k \in Nat /\ k - 1 \in Nat /\ k * c \in Nat /\ (k - 1) * c \in Nat
    BY <1>1, <1>4
  <2>2. k * c = (k - 1) * c + c
    BY <1>1, <2>1
  <2>3. k * c <= N * c
    BY <1>1, <1>4, <2>1
  <2>4. QED BY <1>1, <1>4, <2>1, <2>2, <2>3
<1>6. ASSUME NEW k \in 1..N
      PROVE  /\ Size(k) \in Nat /\ Size(k) <= c
             /\ \A n \in 1..c : (k - 1) * c + n <= M => n <= Size(k)
             /\ \A n \in 1..Size(k) : (k - 1) * c + n \in 1..M
  <2> DEFINE a == (k - 1) * c
  <2>1. a \in Nat /\ a < M
    BY <1>5
  <2>2. Size(k) = IF c < M - a THEN c ELSE M - a
    BY DEF Size, Pool!Lesser
  <2> HIDE DEF a
  <2>3. /\ Size(k) \in Nat /\ Size(k) <= c
        /\ \A n \in 1..c : a + n <= M => n <= Size(k)
        /\ \A n \in 1..Size(k) : a + n \in 1..M
    BY <1>1, <2>1, <2>2
  <2>4. QED BY <2>3 DEF a
<1>7. ASSUME NEW k \in 1..N
      PROVE  /\ Pool!Chunks[k] \in Seq(1..M) /\ Distinct(Pool!Chunks[k])
             /\ \A x : x \in ToSet(Pool!Chunks[k]) <=> \E n \in 1..Size(k) : x = (k - 1) * c + n
  <2> DEFINE a == (k - 1) * c
             s == Pool!Chunks[k]
             z == Size(k)
  <2>1. /\ a \in Nat /\ z \in Nat /\ \A n \in 1..z : a + n \in 1..M
        /\ s = [n \in 1..z |-> a + n]
    BY <1>3, <1>5, <1>6
  <2> HIDE DEF a, s, z
  <2>2. s \in Seq(1..M) /\ Len(s) = z /\ \A n \in 1..z : s[n] = a + n
    BY <2>1
  <2>3. Distinct(s)
    BY <2>1, <2>2 DEF Distinct
  <2>4. \A x : x \in ToSet(s) <=> \E n \in 1..z : x = a + n
    BY <2>2, Members
  <2>5. QED BY <2>2, <2>3, <2>4 DEF a, s, z
<1>8. ASSUME NEW j \in 1..N, NEW k \in 1..N, j < k
      PROVE  ToSet(Pool!Chunks[j]) \cap ToSet(Pool!Chunks[k]) = {}
  <2>1. j * c <= (k - 1) * c
    <3>1. j \in Nat /\ k - 1 \in Nat /\ j <= k - 1
      BY <1>4, <1>8
    <3>2. QED BY <1>1, <3>1
  <2>2. /\ (j - 1) * c \in Nat /\ (k - 1) * c \in Nat /\ j * c = (j - 1) * c + c
        /\ Size(j) \in Nat /\ Size(j) <= c /\ Size(k) \in Nat
    BY <1>5, <1>6
  <2>3. ASSUME NEW m \in 1..Size(j), NEW n \in 1..Size(k)
        PROVE  (j - 1) * c + m # (k - 1) * c + n
    BY <1>1, <2>1, <2>2
  <2>4. SUFFICES ASSUME NEW x, x \in ToSet(Pool!Chunks[j]), x \in ToSet(Pool!Chunks[k])
                 PROVE FALSE
    OBVIOUS
  <2>5. PICK m \in 1..Size(j) : x = (j - 1) * c + m
    BY <1>7, <2>4
  <2>6. PICK n \in 1..Size(k) : x = (k - 1) * c + n
    BY <1>7, <2>4
  <2>7. QED BY <2>3, <2>5, <2>6
<1>9. ASSUME NEW j \in 1..N, NEW k \in 1..N, j # k
      PROVE  ToSet(Pool!Chunks[j]) \cap ToSet(Pool!Chunks[k]) = {}
  <2>1. j < k \/ k < j
    BY <1>4, <1>9
  <2>2. QED BY <1>8, <2>1
<1>10. ASSUME NEW i \in 1..M PROVE \E k \in 1..N : i \in ToSet(Pool!Chunks[k])
  <2> DEFINE a == i - 1
             q == a \div c
             n == i - q * c
  <2>1. a \in Nat /\ a <= M - 1 /\ i = a + 1
    BY <1>1
  <2> HIDE DEF a
  <2>2. q \in Nat /\ q * c \in Nat /\ q * c <= a /\ a < q * c + c
    BY <1>1, <2>1
  <2> HIDE DEF q
  <2>3. q < N
    <3>1. CASE N <= q
      <4>1. N * c <= q * c
        BY <1>1, <1>4, <2>2, <3>1
      <4>2. N * c \in Nat
        BY <1>1, <1>4
      <4>3. QED BY <1>1, <1>4, <2>1, <2>2, <4>1, <4>2
    <3>2. QED BY <1>4, <2>2, <3>1
  <2>4. n \in 1..c /\ i = q * c + n /\ q + 1 \in 1..N /\ (q + 1) - 1 = q
    BY <1>1, <1>4, <2>1, <2>2, <2>3
  <2> HIDE DEF n
  <2>5. n \in 1..Size(q + 1)
    BY <1>6, <2>4
  <2>6. QED BY <1>7, <2>4, <2>5
<1>11. Len(Pool!Chunks) = N
  BY <1>3, <1>4
<1>12. QED BY <1>4, <1>7, <1>9, <1>10, <1>11 DEF M, N

ReportedChunks == {k \in 1..ChunkCount : k \notin todo /\ \A w \in Workers : holding[w] # k}
ReportedCases == UNION {ToSet(Pool!Chunks[k]) : k \in ReportedChunks}

PoolInv ==
  /\ OutcomesRight
  /\ todo \subseteq 1..ChunkCount /\ holding \in [Workers -> 0..ChunkCount]
  /\ \A w \in Workers : holding[w] \notin todo
  /\ \A v, w \in Workers : holding[v] = holding[w] /\ holding[v] # 0 => v = w
  /\ ordered \in BOOLEAN
  /\ ~ ordered => ReportOf(report, ReportedCases)
  /\ ordered => Pool!AllIn /\ report = TheReport

CampaignInv == about = "pool" => PoolInv

LEMMA NothingReported == ASSUME OutcomesRight PROVE ReportOf(Pool!Empty, {})
<1>1. MadeOf(<<>>, RecordsOf, {}) /\ MadeOf(<<>>, FindingsOf, {})
  BY MadeOfNone
<1>2. \A e : Copies({}, e) = {}
  BY DEF Copies
<1>3. \A e : IsFiniteSet(Copies({}, e))
  BY <1>2, FS_EmptySet
<1>4. Covered({}) = Pool!EmptyBag
  BY DEF Covered, Pool!EmptyBag, Pool!SetToBag
<1>5. Pool!Empty = [records |-> <<>>, findings |-> <<>>, coverage |-> Covered({})]
  BY <1>4 DEF Pool!Empty
<1>6. <<>> \in Seq(1..Manifest) /\ <<>> \in Seq(AnyFinding)
  OBVIOUS
<1>7. QED BY <1>1, <1>3, <1>5, <1>6 DEF ReportOf

LEMMA SequentialIs == ASSUME OutcomesRight PROVE Pool!Sequential = TheReport
<1> DEFINE all == [i \in 1..Manifest |-> i]
<1>1. Manifest \in Nat
  BY SweepAssumption
<1>2. all \in Seq(1..Manifest) /\ Len(all) = Manifest /\ \A i \in 1..Manifest : all[i] = i
  BY <1>1, IsASeq
<1> HIDE DEF all
<1>3. Distinct(all) /\ ToSet(all) = 1..Manifest
  <2>1. \A x : x \in ToSet(all) <=> \E i \in 1..Manifest : x = all[i]
    BY <1>2, Members
  <2>2. \A x : x \in ToSet(all) <=> x \in 1..Manifest
    BY <1>2, <2>1
  <2>3. Distinct(all)
    BY <1>2 DEF Distinct
  <2>4. QED BY <2>2, <2>3
<1>4. ReportOf(Pool!AddedAll(Pool!Empty, all), {} \cup ToSet(all))
  BY <1>2, <1>3, NothingReported, AddedAllIs
<1>5. {} \cup ToSet(all) = 1..Manifest
  BY <1>3
<1>6. Pool!Ordered(Pool!AddedAll(Pool!Empty, all)) = TheReport
  BY <1>4, <1>5, OrderedIs
<1>7. QED BY <1>6 DEF Pool!Sequential, all

\* With every chunk given back every case is in the report.
LEMMA AllReported == ASSUME PoolInv, Pool!AllIn PROVE ReportedCases = 1..Manifest
<1>1. ReportedChunks = 1..ChunkCount
  BY DEF ReportedChunks, Pool!AllIn
<1>2. \A k \in 1..ChunkCount : ToSet(Pool!Chunks[k]) \subseteq 1..Manifest
  BY ChunksAre, Members
<1>3. QED BY <1>1, <1>2, ChunksAre DEF ReportedCases

\* What the outcomes say does not change while they do not.
LEMMA SameOutcomes ==
  ASSUME outcome' = outcome
  PROVE  /\ OutcomesRight' <=> OutcomesRight
         /\ TheReport' = TheReport
         /\ ReportOf(report', ReportedCases') => ReportOf(report, ReportedCases)'
<1>1. OutcomesRight' <=> OutcomesRight
  BY DEF OutcomesRight
<1>2. RecordsOf' = RecordsOf /\ FindingsOf' = FindingsOf
  BY DEF RecordsOf, FindingsOf
<1>3. RecordPlaces' = RecordPlaces /\ FindingPlaces' = FindingPlaces
  BY <1>2 DEF RecordPlaces, FindingPlaces
<1>4. RecordOrder' = RecordOrder /\ FindingOrder' = FindingOrder
  BY <1>2, <1>3 DEF RecordOrder, FindingOrder, FindingAt
<1>5. TheReport' = TheReport
  BY <1>2, <1>3, <1>4 DEF TheReport, Covered, Copies
<1>6. ReportOf(report', ReportedCases') => ReportOf(report, ReportedCases)'
  <2>1. \A e : Copies(ReportedCases, e)' = Copies(ReportedCases', e)
    BY DEF Copies
  <2>2. Covered(ReportedCases)' = Covered(ReportedCases')
    BY DEF Covered, Copies
  <2>3. QED BY <1>2, <2>1, <2>2 DEF ReportOf, AnyFinding
<1>7. QED BY <1>1, <1>5, <1>6

LEMMA TakeKeeps == ASSUME PoolInv, NEW w \in Workers, Pool!Take(w) PROVE PoolInv'
<1>1. PICK k \in todo : /\ holding' = [holding EXCEPT ![w] = k]
                        /\ todo' = todo \ {k}
  BY DEF Pool!Take
<1>2. holding[w] = 0 /\ outcome' = outcome /\ report' = report /\ ordered' = ordered
  BY DEF Pool!Take
<1>3. /\ OutcomesRight /\ todo \subseteq 1..ChunkCount /\ holding \in [Workers -> 0..ChunkCount]
      /\ \A v \in Workers : holding[v] \notin todo
      /\ \A u, v \in Workers : holding[u] = holding[v] /\ holding[u] # 0 => u = v
      /\ ordered \in BOOLEAN /\ ~ ordered
      /\ ReportOf(report, ReportedCases)
  BY <1>1 DEF PoolInv, Pool!AllIn
<1>4. k \in 1..ChunkCount /\ ChunkCount \in Nat /\ k # 0
  BY <1>3, ChunksAre
<1>5. \A v \in Workers : holding'[v] = IF v = w THEN k ELSE holding[v]
  BY <1>1, <1>3
<1>6. /\ todo' \subseteq 1..ChunkCount /\ holding' \in [Workers -> 0..ChunkCount]
      /\ \A v \in Workers : holding'[v] \notin todo'
      /\ \A u, v \in Workers : holding'[u] = holding'[v] /\ holding'[u] # 0 => u = v
  <2>1. holding' \in [Workers -> 0..ChunkCount]
    BY <1>1, <1>3, <1>4
  <2>2. QED BY <1>1, <1>3, <1>5, <2>1
<1>7. ReportedChunks' = ReportedChunks
  <2>1. ASSUME NEW j \in 1..ChunkCount
        PROVE  (j \notin todo' /\ \A v \in Workers : holding'[v] # j)
                 <=> (j \notin todo /\ \A v \in Workers : holding[v] # j)
    BY <1>1, <1>2, <1>4, <1>5
  <2>2. ChunkCount' = ChunkCount
    BY DEF ChunkCount
  <2>3. QED BY <2>1, <2>2 DEF ReportedChunks
<1>8. ReportedCases' = ReportedCases
  BY <1>7 DEF ReportedCases
<1>9. OutcomesRight' /\ ReportOf(report, ReportedCases)'
  BY <1>2, <1>3, <1>8, SameOutcomes
<1>10. QED BY <1>2, <1>3, <1>6, <1>9 DEF PoolInv, ChunkCount

LEMMA GiveKeeps == ASSUME PoolInv, NEW w \in Workers, Pool!Give(w) PROVE PoolInv'
<1> DEFINE k == holding[w]
           chunk == Pool!Chunks[k]
<1>1. /\ k # 0 /\ holding' = [holding EXCEPT ![w] = 0]
      /\ report' = Pool!AddedAll(report, chunk)
      /\ outcome' = outcome /\ todo' = todo /\ ordered' = ordered
  BY DEF Pool!Give
<1>2. /\ OutcomesRight /\ todo \subseteq 1..ChunkCount /\ holding \in [Workers -> 0..ChunkCount]
      /\ \A v \in Workers : holding[v] \notin todo
      /\ \A u, v \in Workers : holding[u] = holding[v] /\ holding[u] # 0 => u = v
      /\ ordered \in BOOLEAN /\ ~ ordered
      /\ ReportOf(report, ReportedCases)
  BY <1>1 DEF PoolInv, Pool!AllIn
<1>3. k \in 1..ChunkCount /\ ChunkCount \in Nat /\ k \notin todo
  BY <1>1, <1>2, ChunksAre
<1>4. \A v \in Workers : holding'[v] = IF v = w THEN 0 ELSE holding[v]
  BY <1>1, <1>2
<1>5. /\ holding' \in [Workers -> 0..ChunkCount]
      /\ \A v \in Workers : holding'[v] \notin todo'
      /\ \A u, v \in Workers : holding'[u] = holding'[v] /\ holding'[u] # 0 => u = v
  <2>1. holding' \in [Workers -> 0..ChunkCount]
    BY <1>1, <1>2, <1>3
  <2>2. 0 \notin todo
    BY <1>2, <1>3
  <2>3. QED BY <1>1, <1>2, <1>4, <2>1, <2>2
<1>6. ReportedChunks' = ReportedChunks \cup {k} /\ k \notin ReportedChunks
  <2>1. ASSUME NEW j \in 1..ChunkCount
        PROVE  (j \notin todo' /\ \A v \in Workers : holding'[v] # j)
                 <=> (j \notin todo /\ \A v \in Workers : holding[v] # j) \/ j = k
    BY <1>1, <1>2, <1>3, <1>4
  <2>2. ChunkCount' = ChunkCount
    BY DEF ChunkCount
  <2>3. QED BY <1>3, <2>1, <2>2 DEF ReportedChunks
<1>7. ReportedCases' = ReportedCases \cup ToSet(chunk)
  BY <1>6 DEF ReportedCases
<1>8. /\ chunk \in Seq(1..Manifest) /\ Distinct(chunk)
      /\ ReportedCases \in SUBSET (1..Manifest) /\ ToSet(chunk) \cap ReportedCases = {}
  <2>1. \A j \in ReportedChunks : j \in 1..ChunkCount /\ j # k
    BY <1>6 DEF ReportedChunks
  <2>2. \A j \in 1..ChunkCount : ToSet(Pool!Chunks[j]) \subseteq 1..Manifest
    BY ChunksAre, Members
  <2>3. QED BY <1>3, <2>1, <2>2, ChunksAre DEF ReportedCases
<1> HIDE DEF chunk, k
<1>9. ReportOf(report', ReportedCases')
  BY <1>1, <1>2, <1>7, <1>8, AddedAllIs
<1>10. OutcomesRight' /\ ReportOf(report, ReportedCases)'
  BY <1>1, <1>2, <1>9, SameOutcomes
<1>11. QED BY <1>1, <1>2, <1>5, <1>10 DEF PoolInv, ChunkCount

LEMMA OrderKeeps == ASSUME PoolInv, Pool!Order PROVE PoolInv'
<1>1. /\ Pool!AllIn /\ ~ ordered /\ ordered' = TRUE /\ report' = Pool!Ordered(report)
      /\ outcome' = outcome /\ todo' = todo /\ holding' = holding
  BY DEF Pool!Order
<1>2. report' = TheReport
  BY <1>1, AllReported, OrderedIs DEF PoolInv
<1>3. Pool!AllIn' /\ OutcomesRight' /\ TheReport' = TheReport
  BY <1>1, SameOutcomes DEF PoolInv, Pool!AllIn
<1>4. QED BY <1>1, <1>2, <1>3 DEF PoolInv, ChunkCount

LEMMA PoolStays == ASSUME PoolInv, UNCHANGED poolVars PROVE PoolInv'
<1>1. /\ outcome' = outcome /\ todo' = todo /\ holding' = holding
      /\ report' = report /\ ordered' = ordered
  BY DEF poolVars
<1>2. ReportedCases' = ReportedCases /\ (Pool!AllIn' <=> Pool!AllIn)
  BY <1>1 DEF ReportedCases, ReportedChunks, ChunkCount, Pool!AllIn
<1>3. /\ OutcomesRight' /\ TheReport' = TheReport
      /\ ReportOf(report, ReportedCases) => ReportOf(report, ReportedCases)'
  BY <1>1, <1>2, SameOutcomes DEF PoolInv
<1>4. QED BY <1>1, <1>2, <1>3 DEF PoolInv, ChunkCount

LEMMA CampaignInvNext == CampaignInv /\ [AnyStep]_allVars => CampaignInv'
<1> SUFFICES ASSUME PoolInv, about = "pool", [AnyStep]_allVars PROVE PoolInv'
  BY DEF CampaignInv, AnyStep, allVars
<1>1. CASE AnyStep
  <2>1. Pool!Next
    BY <1>1 DEF AnyStep, CaseStep, ReduceStep, PoolStep, LoopStep
  <2>2. CASE Pool!Order
    BY <2>2, OrderKeeps
  <2>3. CASE \E w \in Workers : Pool!Take(w) \/ Pool!Give(w)
    BY <2>3, TakeKeeps, GiveKeeps
  <2>4. QED BY <2>1, <2>2, <2>3 DEF Pool!Next
<1>2. CASE UNCHANGED allVars
  BY <1>2, PoolStays DEF allVars
<1>3. QED BY <1>1, <1>2

\* A campaign over a manifest of any outcomes.
AnyCampaign == about = "pool" /\ OutcomesRight /\ Pool!Begin

LEMMA AnyCampaignInv == AnyCampaign => CampaignInv
<1> SUFFICES ASSUME AnyCampaign PROVE PoolInv
  BY DEF CampaignInv
<1>1. /\ OutcomesRight /\ todo = 1..Len(Pool!Chunks) /\ holding = [w \in Workers |-> 0]
      /\ report = Pool!Empty /\ ordered = FALSE
  BY DEF AnyCampaign, Pool!Begin
<1>2. todo = 1..ChunkCount /\ ChunkCount \in Nat
  BY <1>1, ChunksAre
<1>3. ReportedCases = {}
  BY <1>2 DEF ReportedCases, ReportedChunks
<1>4. ReportOf(report, ReportedCases)
  BY <1>1, <1>3, NothingReported
<1>5. holding \in [Workers -> 0..ChunkCount] /\ \A w \in Workers : holding[w] = 0
  BY <1>1, <1>2
<1>6. /\ \A w \in Workers : holding[w] \notin todo
      /\ \A v, w \in Workers : holding[v] = holding[w] /\ holding[v] # 0 => v = w
      /\ todo \subseteq 1..ChunkCount
  BY <1>2, <1>5
<1>7. ordered \in BOOLEAN /\ ~ ordered
  BY <1>1
<1>8. QED BY <1>1, <1>4, <1>5, <1>6, <1>7 DEF PoolInv

LEMMA CampaignInvHas == CampaignInv => SameReport
BY SequentialIs DEF CampaignInv, PoolInv, SameReport, Pool!SameReport

(***************************************************************************)
(* Whatever the cases of a manifest come to, however many workers share    *)
(* them in chunks of whatever size, and in whatever order the chunks come  *)
(* back: the ordered report is the one a single process makes.             *)
(***************************************************************************)
THEOREM ReportsAlike == AnyCampaign /\ [][AnyStep]_allVars => []SameReport
<1>1. QED BY AnyCampaignInv, CampaignInvNext, CampaignInvHas, PTL

LEMMA SomeOutcomesRight == Pool!Init => OutcomesRight
<1>1. ASSUME NEW o \in Pool!SomeOutcomes
      PROVE  /\ o.record \in BOOLEAN
             /\ o.findings \in Seq([kind : Causes, trial : Int])
             /\ IsABag(o.coverage)
  <2>1. IsABag(Pool!EmptyBag) /\ IsABag(Pool!SetToBag({"match"}))
    BY DEF IsABag, Pool!EmptyBag, Pool!SetToBag
  <2>2. \A kind \in Causes, trial \in Int : Pool!Found(kind, trial) \in [kind : Causes, trial : Int]
    BY DEF Pool!Found
  <2>3. Pool!NoTrial \in Int /\ {"match", "edge", "context", "bound", "crash"} \subseteq Causes
    BY DEF Pool!NoTrial, Causes
  <2>4. CASE o = Pool!Clean
    BY <2>1, <2>4 DEF Pool!Clean
  <2>5. CASE o = Pool!Crashed
    BY <2>1, <2>2, <2>3, <2>5 DEF Pool!Crashed
  <2>6. CASE o = Pool!Flawed
    BY <2>1, <2>2, <2>3, <2>6 DEF Pool!Flawed
  <2>7. QED BY <2>4, <2>5, <2>6 DEF Pool!SomeOutcomes
<1>2. QED BY <1>1 DEF OutcomesRight, Pool!Init

LEMMA SweptCampaign == Init => CampaignInv
<1>1. ASSUME Init, about = "pool" PROVE AnyCampaign
  BY <1>1, SomeOutcomesRight DEF Init, AnyCampaign, Pool!Init
<1>2. QED BY <1>1, AnyCampaignInv DEF CampaignInv

(***************************************************************************)
(* A campaign's report does not depend on its workers.                     *)
(***************************************************************************)
THEOREM SameReportHolds == Spec => []SameReport
<1>1. QED BY SweptCampaign, CampaignInvNext, CampaignInvHas, PTL DEF Spec, AnyStep
=============================================================================
