--------------------------- MODULE TirGraphProofs ---------------------------
(***************************************************************************)
(* The walk of tir/validate.py, for every graph of declarations: however   *)
(* they name each other, each is walked once, a refusal has a cycle or a   *)
(* chain too long to show for it, and what is accepted has no cycle.       *)
(***************************************************************************)
EXTENDS TirGraph, SequenceTheorems, TLAPS

-----------------------------------------------------------------------------
(* The inductive invariant.                                                *)

Succ(n) == ToSet(graph[n])

TypeOK ==
  /\ graph \in [1..Nodes -> Seq(1..Nodes)]
  /\ root \in 0..Nodes
  /\ path \in Seq(1..Nodes)
  /\ stack \in Seq(Seq(1..Nodes))
  /\ settled \in SUBSET (1..Nodes)
  /\ walks \in [1..Nodes -> Nat]
  /\ verdict \in {"walking", "accepted", "V-021", "V-044"}

\* The path is a chain of declarations, none of them twice and none settled.
PathRight ==
  /\ Len(path) <= MAX_DEPTH
  /\ \A i, j \in 1..Len(path) : path[i] = path[j] => i = j
  /\ \A i \in 1..Len(path) : path[i] \notin settled
  /\ \A i \in 1..(Len(path) - 1) : path[i + 1] \in Succ(path[i])

\* What is left of the successors of a node of the path, and where the others are.
StackRight ==
  /\ Len(stack) = Len(path)
  /\ \A i \in 1..Len(path) :
       /\ ToSet(stack[i]) \subseteq Succ(path[i])
       /\ \A n \in Succ(path[i]) : \/ n \in settled
                                   \/ n \in ToSet(stack[i])
                                   \/ i < Len(path) /\ n = path[i + 1]

\* Nowhere among these declarations can one go on for ever.
Founded(D) == \A C \in SUBSET D : C # {} => \E n \in C : Succ(n) \cap C = {}

SettledRight ==
  /\ \A n \in settled : Succ(n) \subseteq settled
  /\ Founded(settled)

\* The declarations before the root are settled, and so is it once its path is done.
RootRight ==
  /\ path = <<>> => 1..root \subseteq settled
  /\ path # <<>> => path[1] = root /\ 1..(root - 1) \subseteq settled

WalksCounted ==
  \A n \in 1..Nodes : walks[n] = IF n \in settled \/ n \in ToSet(path) THEN 1 ELSE 0

WalkInv ==
  /\ TypeOK
  /\ Walking => PathRight /\ StackRight /\ SettledRight /\ RootRight /\ WalksCounted
  /\ WalkRight

-----------------------------------------------------------------------------
(* Sequences, seen as the sets of their entries.                           *)

\* The head of a sequence, and its tail, are what it holds.
LEMMA HeadAndTail ==
  ASSUME NEW S, NEW s \in Seq(S), s # <<>>
  PROVE  /\ Head(s) \in S /\ Tail(s) \in Seq(S)
         /\ ToSet(s) = {Head(s)} \cup ToSet(Tail(s))
         /\ ToSet(Tail(s)) \subseteq ToSet(s)
<1>1. /\ Head(s) \in S /\ Tail(s) \in Seq(S) /\ Len(s) \in Nat \ {0}
      /\ Head(s) = s[1] /\ Len(Tail(s)) = Len(s) - 1
      /\ \A i \in 1..Len(Tail(s)) : Tail(s)[i] = s[i + 1]
  BY HeadTailProperties, EmptySeq
<1>2. DOMAIN s = 1..Len(s) /\ DOMAIN Tail(s) = 1..(Len(s) - 1)
  BY <1>1
<1>3. ASSUME NEW x \in ToSet(s) PROVE x \in {Head(s)} \cup ToSet(Tail(s))
  <2>1. PICK i \in 1..Len(s) : x = s[i]
    BY <1>2 DEF ToSet
  <2>2. CASE i = 1 BY <2>1, <2>2, <1>1
  <2>3. CASE i # 1
    <3>1. i - 1 \in 1..(Len(s) - 1) /\ Tail(s)[i - 1] = s[i]
      BY <2>1, <2>3, <1>1
    <3>2. QED BY <3>1, <2>1, <1>2 DEF ToSet
  <2>4. QED BY <2>2, <2>3
<1>4. ASSUME NEW x \in ToSet(Tail(s)) PROVE x \in ToSet(s)
  <2>1. PICK i \in 1..(Len(s) - 1) : x = Tail(s)[i]
    BY <1>2 DEF ToSet
  <2>2. i + 1 \in 1..Len(s) /\ x = s[i + 1]
    BY <2>1, <1>1
  <2>3. QED BY <2>2, <1>2 DEF ToSet
<1>5. Head(s) \in ToSet(s)
  BY <1>1, <1>2 DEF ToSet
<1>6. QED BY <1>1, <1>3, <1>4, <1>5

\* A sequence without its last entry.
LEMMA FrontAndLast ==
  ASSUME NEW S, NEW s \in Seq(S), s # <<>>
  PROVE  /\ Len(s) \in Nat \ {0} /\ Front(s) \in Seq(S) /\ Len(Front(s)) = Len(s) - 1
         /\ \A i \in 1..(Len(s) - 1) : Front(s)[i] = s[i]
         /\ Last(s) = s[Len(s)] /\ Last(s) \in S
<1>1. Len(s) \in Nat \ {0}
  BY EmptySeq
<1>2. \A i \in 1..Len(s) : s[i] \in S
  BY ElementOfSeq
<1> DEFINE n == Len(s) - 1
           t == SubSeq(s, 1, n)
<1>3. n \in Nat /\ n \in Int /\ \A i \in 1..n : s[i] \in S
  BY <1>1, <1>2
<1>h. n = Len(s) - 1 OBVIOUS
<1> HIDE DEF n
<1>4. /\ t \in Seq(S)
      /\ Len(t) = IF 1 <= n THEN n - 1 + 1 ELSE 0
      /\ \A i \in 1..(n - 1 + 1) : t[i] = s[1 + i - 1]
  BY <1>3, SubSeqProperties
<1>5. Len(t) = n /\ \A i \in 1..n : t[i] = s[i]
  BY <1>3, <1>4
<1>6. QED BY <1>1, <1>2, <1>h, <1>4, <1>5 DEF Front, Last

\* The entries of a sequence are its members.
LEMMA Members ==
  ASSUME NEW S, NEW s \in Seq(S)
  PROVE  /\ ToSet(s) \in SUBSET S /\ Len(s) \in Nat
         /\ \A x : x \in ToSet(s) <=> \E i \in 1..Len(s) : x = s[i]
BY ElementOfSeq, LenProperties DEF ToSet

\* What an entry added at the end changes.
LEMMA Appended ==
  ASSUME NEW S, NEW s \in Seq(S), NEW e \in S
  PROVE  /\ Append(s, e) \in Seq(S) /\ Len(Append(s, e)) = Len(s) + 1
         /\ \A i \in 1..Len(s) : Append(s, e)[i] = s[i]
         /\ Append(s, e)[Len(s) + 1] = e
         /\ ToSet(Append(s, e)) = ToSet(s) \cup {e}
<1>1. /\ Append(s, e) \in Seq(S) /\ Len(Append(s, e)) = Len(s) + 1
      /\ \A i \in 1..Len(s) : Append(s, e)[i] = s[i]
      /\ Append(s, e)[Len(s) + 1] = e
  BY AppendProperties
<1> DEFINE t == Append(s, e)
<1> HIDE DEF t
<1>2. /\ t \in Seq(S) /\ Len(t) = Len(s) + 1 /\ Len(s) \in Nat
      /\ \A i \in 1..Len(s) : t[i] = s[i]
      /\ t[Len(s) + 1] = e
  BY <1>1, LenProperties DEF t
<1>3. DOMAIN s = 1..Len(s) /\ DOMAIN t = 1..(Len(s) + 1)
  BY <1>2, LenProperties
<1>4. ASSUME NEW x \in ToSet(t) PROVE x \in ToSet(s) \cup {e}
  <2>1. PICK i \in 1..(Len(s) + 1) : x = t[i]
    BY <1>3 DEF ToSet
  <2>2. i = Len(s) + 1 \/ i \in 1..Len(s)
    BY <1>2
  <2>3. QED BY <2>1, <2>2, <1>2, <1>3 DEF ToSet
<1>5. ASSUME NEW x \in ToSet(s) PROVE x \in ToSet(t)
  <2>1. PICK i \in 1..Len(s) : x = s[i]
    BY <1>3 DEF ToSet
  <2>2. i \in 1..(Len(s) + 1) /\ x = t[i]
    BY <2>1, <1>2
  <2>3. QED BY <2>2, <1>3 DEF ToSet
<1>6. e \in ToSet(t)
  <2>1. Len(s) + 1 \in 1..(Len(s) + 1)
    BY <1>2
  <2>2. QED BY <2>1, <1>2, <1>3 DEF ToSet
<1>7. QED BY <1>1, <1>4, <1>5, <1>6 DEF t

-----------------------------------------------------------------------------
(* The walk.                                                               *)

\* A declaration all of whose successors are settled can be settled with them.
LEMMA FoundedGrows ==
  ASSUME NEW D, NEW x, x \notin D, Founded(D), Succ(x) \subseteq D,
         \A n \in D : Succ(n) \subseteq D
  PROVE  Founded(D \cup {x})
<1> SUFFICES ASSUME NEW C \in SUBSET (D \cup {x}), C # {}
             PROVE  \E n \in C : Succ(n) \cap C = {}
  BY DEF Founded
<1>1. CASE C \ {x} = {}
  <2>1. C = {x}
    BY <1>1
  <2>2. QED BY <2>1
<1>2. CASE C \ {x} # {}
  <2>1. C \ {x} \in SUBSET D
    OBVIOUS
  <2>2. PICK n \in C \ {x} : Succ(n) \cap (C \ {x}) = {}
    BY <1>2, <2>1 DEF Founded
  <2>3. x \notin Succ(n)
    BY <2>2
  <2>4. QED BY <2>2, <2>3
<1>3. QED BY <1>1, <1>2

LEMMA WalkInvInit == Init => WalkInv
<1> SUFFICES ASSUME Init PROVE WalkInv
  OBVIOUS
<1> USE DEF Init
<1>1. graph \in [1..Nodes -> Seq(1..Nodes)]
  <2>1. ASSUME NEW k \in 0..Degree PROVE [1..k -> 1..Nodes] \subseteq Seq(1..Nodes)
    <3>1. k \in Nat
      BY NodesAssumption DEF NodesAssumption
    <3>2. SUFFICES ASSUME NEW f \in [1..k -> 1..Nodes] PROVE f \in Seq(1..Nodes)
      OBVIOUS
    <3>3. f = [i \in 1..k |-> f[i]] /\ \A i \in 1..k : f[i] \in 1..Nodes
      OBVIOUS
    <3>4. QED BY <3>1, <3>3
  <2>2. Successors \subseteq Seq(1..Nodes)
    BY <2>1 DEF Successors
  <2>3. QED BY <2>2
<1>2. TypeOK
  BY <1>1, NodesAssumption DEF TypeOK, NodesAssumption
<1>3. PathRight /\ StackRight
  BY NodesAssumption DEF PathRight, StackRight, NodesAssumption
<1>4. SettledRight /\ RootRight
  BY DEF SettledRight, Founded, RootRight
<1>5. WalksCounted
  BY DEF WalksCounted, ToSet
<1>6. WalkRight
  BY DEF WalkRight, WalkedOnce, RefusedFairly
<1>7. QED BY <1>2, <1>3, <1>4, <1>5, <1>6 DEF WalkInv

\* A walk that goes on owes only what it has counted.
LEMMA StillWalking ==
  ASSUME TypeOK', verdict' = "walking", PathRight', StackRight', SettledRight',
         RootRight', WalksCounted'
  PROVE  WalkInv'
<1>1. WalkedOnce'
  BY DEF WalksCounted, WalkedOnce, TypeOK
<1>2. RefusedFairly'
  BY DEF RefusedFairly
<1>3. QED BY <1>1, <1>2 DEF WalkInv, WalkRight

LEMMA StartedKeeps == WalkInv /\ Started => WalkInv'
<1> SUFFICES ASSUME WalkInv, Started PROVE WalkInv'
  OBVIOUS
<1>1. /\ TypeOK /\ PathRight /\ StackRight /\ SettledRight /\ RootRight /\ WalksCounted
      /\ path = <<>> /\ root < Nodes /\ root' = root + 1 /\ verdict' = "walking"
      /\ graph' = graph /\ settled' = settled
  BY DEF WalkInv, Started, Walking
<1>2. SettledRight'
  BY <1>1 DEF SettledRight, Founded, Succ
<1>3. root' \in 1..Nodes /\ stack = <<>> /\ Nodes \in Nat \ {0}
  <2>1. Len(stack) = 0 /\ stack \in Seq(Seq(1..Nodes))
    BY <1>1 DEF StackRight, TypeOK
  <2>2. QED BY <2>1, <1>1, NodesAssumption, EmptySeq DEF TypeOK, NodesAssumption
<1>4. CASE Settled(root')
  <2>1. path' = path /\ stack' = stack /\ walks' = walks
    BY <1>4 DEF Started
  <2>2. TypeOK' /\ PathRight' /\ StackRight' /\ WalksCounted'
    BY <2>1, <1>1, <1>3 DEF TypeOK, PathRight, StackRight, WalksCounted, Succ
  <2>3. RootRight'
    BY <2>1, <1>1, <1>3, <1>4 DEF RootRight, Settled, TypeOK
  <2>4. QED BY <1>1, <1>2, <2>2, <2>3, StillWalking
<1>5. CASE ~Settled(root')
  <2>1. /\ path' = <<root'>> /\ stack' = <<graph[root']>>
        /\ walks' = [walks EXCEPT ![root'] = @ + 1] /\ root' \notin settled
    BY <1>5 DEF Started, Settled
  <2>2. /\ Len(path') = 1 /\ path'[1] = root' /\ Len(stack') = 1 /\ stack'[1] = graph[root']
        /\ path' \in Seq(1..Nodes) /\ stack' \in Seq(Seq(1..Nodes)) /\ path' # <<>>
    BY <2>1, <1>1, <1>3 DEF TypeOK
  <2>3. TypeOK'
    BY <2>1, <2>2, <1>1, <1>3 DEF TypeOK
  <2>4. PathRight'
    BY <2>1, <2>2, <1>1, NodesAssumption DEF PathRight, NodesAssumption
  <2>5. StackRight'
    BY <2>2, <1>1 DEF StackRight, Succ
  <2>6. RootRight'
    BY <2>2, <1>1, <1>3 DEF RootRight, TypeOK
  <2>7. WalksCounted'
    <3>1. ToSet(path') = {root'} /\ ToSet(path) = {}
      BY <2>1, <1>1 DEF ToSet
    <3>2. QED BY <3>1, <2>1, <1>1, <1>3 DEF WalksCounted, TypeOK
  <2>8. QED BY <1>1, <1>2, <2>3, <2>4, <2>5, <2>6, <2>7, StillWalking
<1>6. QED BY <1>4, <1>5

LEMMA RetreatKeeps == WalkInv /\ Retreat => WalkInv'
<1> SUFFICES ASSUME WalkInv, Retreat PROVE WalkInv'
  OBVIOUS
<1> DEFINE L == Len(path)
           x == Last(path)
<1>1. /\ TypeOK /\ PathRight /\ StackRight /\ SettledRight /\ RootRight /\ WalksCounted
      /\ path # <<>> /\ Last(stack) = <<>> /\ verdict' = "walking"
      /\ settled' = settled \cup {x} /\ path' = Front(path) /\ stack' = Front(stack)
      /\ graph' = graph /\ root' = root /\ walks' = walks
  BY DEF WalkInv, Retreat, Walking
<1>2. /\ L \in Nat \ {0} /\ path' \in Seq(1..Nodes) /\ Len(path') = L - 1
      /\ \A i \in 1..(L - 1) : path'[i] = path[i]
      /\ x = path[L] /\ x \in 1..Nodes
  BY <1>1, FrontAndLast DEF TypeOK
<1>3. /\ stack' \in Seq(Seq(1..Nodes)) /\ Len(stack') = L - 1 /\ Len(stack) = L
      /\ \A i \in 1..(L - 1) : stack'[i] = stack[i]
      /\ stack[L] = <<>>
  <2>1. Len(stack) = L /\ stack \in Seq(Seq(1..Nodes)) /\ stack # <<>>
    BY <1>1, <1>2 DEF StackRight, TypeOK
  <2>2. QED BY <2>1, <1>1, FrontAndLast
<1> HIDE DEF L, x
<1>4. x \notin settled /\ Succ(x) \subseteq settled
  <2>1. L \in 1..L /\ ToSet(stack[L]) = {} /\ Len(path) = L
    BY <1>2, <1>3 DEF ToSet, L
  <2>2. \A n \in Succ(path[L]) : n \in settled \/ n \in ToSet(stack[L]) \/ L < L
    BY <1>1, <2>1 DEF StackRight
  <2>3. QED BY <2>1, <2>2, <1>1, <1>2 DEF PathRight
<1>5. TypeOK'
  BY <1>1, <1>2, <1>3 DEF TypeOK
<1>6. PathRight'
  <2>1. Len(path) = L /\ L - 1 <= L /\ 1..(L - 1) \subseteq 1..L /\ L \in 1..L /\ MAX_DEPTH \in Nat
    BY <1>2, NodesAssumption DEF L, NodesAssumption
  <2>2. \A i \in 1..(L - 1) : path'[i] = path[i] /\ path[i] \notin settled /\ path[i] # x
    BY <1>1, <1>2, <2>1 DEF PathRight
  <2>3. Len(path') <= MAX_DEPTH
    BY <1>1, <1>2, <2>1 DEF PathRight
  <2>4. \A i, j \in 1..(L - 1) : path'[i] = path'[j] => i = j
    BY <1>1, <2>1, <2>2 DEF PathRight
  <2>5. \A i \in 1..(L - 1 - 1) : path'[i + 1] \in Succ(path'[i])
    <3>1. SUFFICES ASSUME NEW i \in 1..(L - 1 - 1) PROVE path'[i + 1] \in Succ(path'[i])
      OBVIOUS
    <3>2. i \in 1..(L - 1) /\ i + 1 \in 1..(L - 1)
      BY <1>2
    <3>3. QED BY <3>2, <1>1, <2>1, <2>2 DEF PathRight
  <2>6. QED BY <2>2, <2>3, <2>4, <2>5, <1>1, <1>2 DEF PathRight, Succ
<1>7. StackRight'
  <2>1. Len(stack') = Len(path')
    BY <1>2, <1>3
  <2>2. ASSUME NEW i \in 1..(L - 1)
        PROVE  /\ ToSet(stack'[i]) \subseteq ToSet(graph[path'[i]])
               /\ \A n \in ToSet(graph[path'[i]]) :
                    n \in settled' \/ n \in ToSet(stack'[i]) \/ (i < L - 1 /\ n = path'[i + 1])
    <3>1. i \in 1..L /\ Len(path) = L /\ path'[i] = path[i] /\ stack'[i] = stack[i]
      BY <2>2, <1>2, <1>3 DEF L
    <3>2. /\ ToSet(stack[i]) \subseteq ToSet(graph[path[i]])
          /\ \A n \in ToSet(graph[path[i]]) :
                    n \in settled \/ n \in ToSet(stack[i]) \/ (i < L /\ n = path[i + 1])
      BY <3>1, <1>1 DEF StackRight, Succ
    <3>3. CASE i = L - 1
      BY <3>1, <3>2, <3>3, <1>1, <1>2
    <3>4. CASE i # L - 1
      <4>1. i < L - 1 /\ path'[i + 1] = path[i + 1]
        BY <3>4, <2>2, <1>2
      <4>2. QED BY <3>1, <3>2, <4>1, <1>1
    <3>5. QED BY <3>3, <3>4
  <2>3. /\ Len(path') = L - 1
        /\ \A i \in 1..(L - 1) :
             /\ ToSet(stack'[i]) \subseteq ToSet(graph'[path'[i]])
             /\ \A n \in ToSet(graph'[path'[i]]) :
                  n \in settled' \/ n \in ToSet(stack'[i]) \/ (i < L - 1 /\ n = path'[i + 1])
    BY <2>2, <1>1, <1>2
  <2>4. QED BY ONLY <2>1, <2>3 DEF StackRight, Succ
<1>8. SettledRight'
  <2>1. Founded(settled \cup {x})
    BY <1>1, <1>4, FoundedGrows DEF SettledRight
  <2>2. Founded(settled)' /\ \A n \in settled' : Succ(n) \subseteq settled'
    BY <2>1, <1>1, <1>4 DEF Founded, SettledRight, Succ
  <2>3. QED BY <2>2, <1>1 DEF SettledRight, Succ
<1>9. RootRight'
  <2>1. path[1] = root /\ 1..(root - 1) \subseteq settled
    BY <1>1 DEF RootRight
  <2>2. CASE L = 1
    <3>1. path' = <<>> /\ root = x
      BY <1>2, <2>1, <2>2, EmptySeq
    <3>2. QED BY <3>1, <2>1, <1>1, <1>2 DEF RootRight, TypeOK
  <2>3. CASE L # 1
    <3>1. path'[1] = path[1] /\ path' # <<>>
      BY <1>2, <2>3
    <3>2. QED BY <3>1, <2>1, <1>1 DEF RootRight
  <2>4. QED BY <2>2, <2>3
<1>10. WalksCounted'
  <2>1. ASSUME NEW n \in 1..Nodes
        PROVE  (n \in settled' \/ n \in ToSet(path')) <=> (n \in settled \/ n \in ToSet(path))
    <3>1. n \in ToSet(path') <=> \E i \in 1..(L - 1) : n = path'[i]
      BY <1>2, Members
    <3>2. n \in ToSet(path) <=> \E i \in 1..L : n = path[i]
      BY <1>1, Members DEF TypeOK, L
    <3>3. (\E i \in 1..L : n = path[i]) <=> (n = x \/ \E i \in 1..(L - 1) : n = path'[i])
      BY <1>2
    <3>4. QED BY <3>1, <3>2, <3>3, <1>1
  <2>2. QED BY <2>1, <1>1 DEF WalksCounted
<1>11. QED BY <1>1, <1>5, <1>6, <1>7, <1>8, <1>9, <1>10, StillWalking

LEMMA AdvanceKeeps == WalkInv /\ Advance => WalkInv'
<1> SUFFICES ASSUME WalkInv, Advance PROVE WalkInv'
  OBVIOUS
<1> DEFINE L == Len(path)
           rest == [stack EXCEPT ![Len(stack)] = Tail(@)]
           reached == Head(Last(stack))
<1>1. /\ TypeOK /\ PathRight /\ StackRight /\ SettledRight /\ RootRight /\ WalksCounted
      /\ path # <<>> /\ Last(stack) # <<>> /\ verdict = "walking"
      /\ graph' = graph /\ root' = root /\ settled' = settled
  BY DEF WalkInv, Advance, Walking
<1>2. /\ L \in Nat \ {0} /\ Len(stack) = L /\ L \in 1..L /\ Len(path) = L
      /\ stack[L] \in Seq(1..Nodes) /\ stack[L] # <<>> /\ Last(stack) = stack[L]
      /\ \A i \in 1..L : path[i] \in 1..Nodes
      /\ path \in Seq(1..Nodes) /\ stack \in Seq(Seq(1..Nodes))
  <2>1. /\ path \in Seq(1..Nodes) /\ stack \in Seq(Seq(1..Nodes)) /\ Len(stack) = L
        /\ L \in Nat \ {0} /\ Last(stack) = stack[Len(stack)]
    BY <1>1, EmptySeq DEF TypeOK, StackRight, Last
  <2>2. \A i \in 1..L : path[i] \in 1..Nodes
    BY <2>1, ElementOfSeq
  <2>3. L \in 1..L /\ L \in 1..Len(stack)
    BY <2>1
  <2>4. stack[L] \in Seq(1..Nodes)
    BY <2>1, <2>3, ElementOfSeq
  <2>5. QED BY <2>1, <2>2, <2>3, <2>4, <1>1
<1>3. /\ reached \in 1..Nodes /\ Tail(stack[L]) \in Seq(1..Nodes)
      /\ ToSet(stack[L]) = {reached} \cup ToSet(Tail(stack[L]))
  BY <1>2, HeadAndTail
<1>4. /\ reached \in Succ(path[L])
      /\ ToSet(stack[L]) \subseteq Succ(path[L])
      /\ \A n \in Succ(path[L]) : n \in settled \/ n \in ToSet(stack[L])
  <2>1. L \in 1..Len(path) /\ ~(L < Len(path)) /\ reached \in ToSet(stack[L])
    BY <1>2, <1>3
  <2> HIDE DEF L, reached
  <2>2. QED BY <1>1, <2>1 DEF StackRight
<1>5. \A n \in 1..Nodes : n \in ToSet(path) <=> \E i \in 1..L : n = path[i]
  BY <1>2, Members
<1>6. /\ rest \in Seq(Seq(1..Nodes)) /\ Len(rest) = L
      /\ rest[L] = Tail(stack[L])
      /\ \A i \in 1..(L - 1) : rest[i] = stack[i]
  BY <1>2, <1>3, ExceptSeq
<1>7. SettledRight'
  BY <1>1 DEF SettledRight, Founded, Succ
<1>8. /\ reached \in ToSet(path) => /\ verdict' = "V-021" /\ path' = path
                                    /\ stack' = stack /\ walks' = walks
      /\ reached \notin ToSet(path) /\ Settled(reached) =>
           stack' = rest /\ path' = path /\ walks' = walks /\ verdict' = verdict
      /\ reached \notin ToSet(path) /\ ~Settled(reached) =>
           /\ path' = Append(path, reached)
           /\ walks' = [walks EXCEPT ![reached] = @ + 1]
           /\ Len(path') > MAX_DEPTH => verdict' = "V-044" /\ stack' = stack
           /\ ~(Len(path') > MAX_DEPTH) => stack' = Append(rest, graph[reached]) /\ verdict' = verdict
  <2>1. CASE reached \in ToSet(path)
    <3>1. ~Settled(reached)
      BY <2>1, <1>1, <1>3, <1>5 DEF PathRight, Settled
    <3>2. verdict' = "V-021" /\ UNCHANGED <<path, stack, walks>>
      BY <2>1, <3>1 DEF Advance
    <3>3. QED BY <2>1, <3>2
  <2>2. CASE reached \notin ToSet(path) /\ Settled(reached)
    BY <2>2 DEF Advance
  <2>3. CASE reached \notin ToSet(path) /\ ~Settled(reached)
    <3>1. /\ path' = Append(path, reached)
          /\ walks' = [walks EXCEPT ![reached] = @ + 1]
          /\ IF Len(path') > MAX_DEPTH THEN verdict' = "V-044" /\ UNCHANGED stack
             ELSE stack' = Append(rest, graph[reached]) /\ UNCHANGED verdict
      BY <2>3 DEF Advance
    <3>2. QED BY <2>3, <3>1
  <2>4. QED BY <2>1, <2>2, <2>3
<1> HIDE DEF L, rest, reached
<1>9. CASE reached \in ToSet(path)
  <2>1. verdict' = "V-021" /\ path' = path /\ stack' = stack /\ walks' = walks
    BY <1>8, <1>9
  <2>2. PICK i \in 1..L : reached = path[i]
    BY <1>3, <1>5, <1>9
  <2> DEFINE C == {path[j] : j \in i..L}
  <2>3. C \in SUBSET (1..Nodes) /\ C # {}
    BY <1>2
  <2>4. ASSUME NEW n \in C PROVE ToSet(graph[n]) \cap C # {}
    <3>1. PICK j \in i..L : n = path[j]
      OBVIOUS
    <3>2. CASE j = L
      BY <3>1, <3>2, <2>2, <1>2, <1>4 DEF Succ
    <3>3. CASE j # L
      <4>1. j \in 1..(Len(path) - 1) /\ j + 1 \in i..L
        BY <3>3, <1>2
      <4>2. path[j + 1] \in Succ(path[j]) /\ path[j + 1] \in C
        BY <4>1, <1>1 DEF PathRight
      <4>3. QED BY <3>1, <4>2 DEF Succ
    <3>4. QED BY <3>2, <3>3
  <2>5. Cyclic'
    BY <2>3, <2>4, <1>1 DEF Cyclic
  <2>6. TypeOK' /\ WalkedOnce'
    <3>1. TypeOK'
      BY <2>1, <1>1 DEF TypeOK
    <3>2. \A n \in 1..Nodes : walks[n] <= 1
      BY <1>1 DEF WalksCounted
    <3>3. QED BY <2>1, <3>1, <3>2 DEF WalkedOnce
  <2>7. QED BY <2>1, <2>5, <2>6 DEF WalkInv, WalkRight, RefusedFairly, Walking
<1>10. CASE reached \notin ToSet(path) /\ Settled(reached)
  <2>1. stack' = rest /\ path' = path /\ walks' = walks /\ verdict' = "walking" /\ reached \in settled
    BY <1>8, <1>10, <1>1 DEF Settled
  <2>2. TypeOK' /\ PathRight' /\ RootRight' /\ WalksCounted'
    BY <2>1, <1>1, <1>6 DEF TypeOK, PathRight, RootRight, WalksCounted, Succ
  <2>3. ASSUME NEW i \in 1..L
        PROVE  /\ ToSet(rest[i]) \subseteq Succ(path[i])
               /\ \A n \in Succ(path[i]) : n \in settled \/ n \in ToSet(rest[i])
                                             \/ (i < L /\ n = path[i + 1])
    <3>1. CASE i = L
      BY <3>1, <2>1, <1>3, <1>4, <1>6
    <3>2. CASE i # L
      <4>1. rest[i] = stack[i]
        BY <3>2, <1>6, <1>2
      <4>2. QED BY <4>1, <1>1, <1>2 DEF StackRight
    <3>3. QED BY <3>1, <3>2
  <2>4. StackRight'
    BY <2>1, <2>3, <1>1, <1>2, <1>6 DEF StackRight, Succ
  <2>5. QED BY <2>1, <2>2, <2>4, <1>1, <1>7, StillWalking
<1>11. CASE reached \notin ToSet(path) /\ ~Settled(reached)
  <2>1. /\ path' = Append(path, reached) /\ walks' = [walks EXCEPT ![reached] = @ + 1]
        /\ reached \notin settled
    BY <1>8, <1>11 DEF Settled
  <2>2. /\ path' \in Seq(1..Nodes) /\ Len(path') = L + 1 /\ path'[L + 1] = reached
        /\ \A i \in 1..L : path'[i] = path[i]
        /\ ToSet(path') = ToSet(path) \cup {reached}
    <3>1. path \in Seq(1..Nodes) /\ reached \in 1..Nodes /\ Len(path) = L
      BY <1>2, <1>3
    <3> DEFINE s == path
               e == reached
               D == 1..Nodes
    <3> HIDE DEF s, e, D
    <3>2. s \in Seq(D) /\ e \in D /\ path' = Append(s, e)
      BY <2>1, <3>1 DEF s, e, D
    <3>3. /\ Append(s, e) \in Seq(D) /\ Len(Append(s, e)) = Len(s) + 1
          /\ \A i \in 1..Len(s) : Append(s, e)[i] = s[i]
          /\ Append(s, e)[Len(s) + 1] = e
          /\ ToSet(Append(s, e)) = ToSet(s) \cup {e}
      BY <3>2, Appended
    <3>4. QED BY <3>1, <3>2, <3>3 DEF s, e, D
  <2>3. WalksCounted' /\ WalkedOnce' /\ walks' \in [1..Nodes -> Nat]
    <3>1. walks[reached] = 0 /\ walks \in [1..Nodes -> Nat]
      BY <1>1, <1>3, <1>11, <2>1 DEF WalksCounted, TypeOK
    <3>2. walks' = [walks EXCEPT ![reached] = 1]
      BY <3>1, <2>1
    <3>3. \A n \in 1..Nodes : walks'[n] = IF n \in settled \/ n \in ToSet(path') THEN 1 ELSE 0
      BY <3>1, <3>2, <2>2, <1>1, <1>3 DEF WalksCounted
    <3>4. QED BY <3>1, <3>2, <3>3, <1>1, <1>3 DEF WalksCounted, WalkedOnce
  <2>4. \A i \in 1..L : path'[i + 1] \in ToSet(graph[path'[i]])
    <3>1. SUFFICES ASSUME NEW i \in 1..L PROVE path'[i + 1] \in ToSet(graph[path'[i]])
      OBVIOUS
    <3>2. CASE i = L
      BY <3>2, <2>2, <1>2, <1>4 DEF Succ
    <3>3. CASE i # L
      <4>1. i \in 1..(Len(path) - 1) /\ i + 1 \in 1..L
        BY <3>3, <1>2
      <4>2. QED BY <4>1, <2>2, <1>1 DEF PathRight, Succ
    <3>4. QED BY <3>2, <3>3
  <2>5. \A i, j \in 1..(L + 1) : path'[i] = path'[j] => i = j
    <3>1. \A i, j \in 1..L : path'[i] = path'[j] => i = j
      BY <2>2, <1>1, <1>2 DEF PathRight
    <3>2. \A i \in 1..L : path'[i] # path'[L + 1]
      BY <2>2, <1>3, <1>5, <1>11
    <3>3. \A i \in 1..(L + 1) : i \in 1..L \/ i = L + 1
      BY <1>2
    <3>4. QED BY <3>1, <3>2, <3>3
  <2>6. CASE Len(path') > MAX_DEPTH
    <3>1. verdict' = "V-044" /\ stack' = stack
      BY <2>6, <1>8, <1>11
    <3>2. L = MAX_DEPTH /\ MAX_DEPTH \in Nat \ {0}
      BY <2>6, <2>2, <1>1, <1>2, NodesAssumption DEF PathRight, NodesAssumption
    <3> DEFINE p == [i \in 0..MAX_DEPTH |-> path'[i + 1]]
    <3>3. \A i \in 0..MAX_DEPTH : i + 1 \in 1..(L + 1) /\ p[i] = path'[i + 1]
      BY <3>2
    <3>4. p \in [0..MAX_DEPTH -> 1..Nodes]
      <4>1. \A i \in 1..(L + 1) : path'[i] \in 1..Nodes
        BY <2>2, ElementOfSeq
      <4>2. QED BY <3>3, <4>1
    <3>5. \A i, j \in 0..MAX_DEPTH : p[i] = p[j] => i = j
      <4>1. SUFFICES ASSUME NEW i \in 0..MAX_DEPTH, NEW j \in 0..MAX_DEPTH, p[i] = p[j] PROVE i = j
        OBVIOUS
      <4>2. i + 1 = j + 1
        BY <4>1, <3>3, <2>5
      <4>3. QED BY <4>2
    <3>6. \A i \in 1..MAX_DEPTH : p[i] \in ToSet(graph[p[i - 1]])
      <4>1. SUFFICES ASSUME NEW i \in 1..MAX_DEPTH PROVE p[i] \in ToSet(graph[p[i - 1]])
        OBVIOUS
      <4>2. i \in 0..MAX_DEPTH /\ i - 1 \in 0..MAX_DEPTH /\ i \in 1..L /\ (i - 1) + 1 = i
        BY <3>2
      <4>3. p[i] = path'[i + 1] /\ p[i - 1] = path'[i]
        BY <4>2, <3>3
      <4>4. QED BY <4>2, <4>3, <2>4
    <3> HIDE DEF p
    <3>7. DeeperThan(MAX_DEPTH)'
      BY <3>4, <3>5, <3>6, <1>1 DEF DeeperThan, Linked
    <3>8. TypeOK'
      BY <3>1, <2>2, <2>3, <1>1 DEF TypeOK
    <3>9. QED BY <3>1, <3>7, <3>8, <2>3 DEF WalkInv, WalkRight, RefusedFairly, Walking
  <2>7. CASE ~(Len(path') > MAX_DEPTH)
    <3>1. stack' = Append(rest, graph[reached]) /\ verdict' = "walking"
      BY <2>7, <1>8, <1>11, <1>1
    <3>2. graph[reached] \in Seq(1..Nodes)
      BY <1>1, <1>3 DEF TypeOK
    <3>3. /\ stack' \in Seq(Seq(1..Nodes)) /\ Len(stack') = L + 1 /\ stack'[L + 1] = graph[reached]
          /\ \A i \in 1..L : stack'[i] = rest[i]
      BY <3>1, <3>2, <1>6, Appended
    <3>4. TypeOK'
      BY <3>1, <3>3, <2>2, <2>3, <1>1 DEF TypeOK
    <3>5. PathRight'
      <4>1. Len(path') <= MAX_DEPTH
        BY <2>7, <2>2, <1>2, NodesAssumption DEF NodesAssumption
      <4>2. \A i \in 1..(L + 1) : path'[i] \notin settled'
        <5>1. \A i \in 1..(L + 1) : i \in 1..L \/ i = L + 1
          BY <1>2
        <5>2. QED BY <5>1, <2>1, <2>2, <1>1, <1>2 DEF PathRight
      <4>3. (L + 1) - 1 = L
        BY <1>2
      <4>4. QED BY <4>1, <4>2, <4>3, <2>2, <2>4, <2>5, <1>1 DEF PathRight, Succ
    <3>6. ASSUME NEW i \in 1..(L + 1)
          PROVE  /\ ToSet(stack'[i]) \subseteq ToSet(graph[path'[i]])
                 /\ \A n \in ToSet(graph[path'[i]]) :
                      n \in settled \/ n \in ToSet(stack'[i]) \/ (i < L + 1 /\ n = path'[i + 1])
      <4>1. CASE i = L + 1
        BY <4>1, <3>3, <2>2
      <4>2. CASE i = L
        <5>1. stack'[i] = Tail(stack[L]) /\ path'[i] = path[L] /\ path'[i + 1] = reached /\ i < L + 1
          BY <4>2, <3>3, <2>2, <1>2, <1>6
        <5>2. QED BY <5>1, <1>3, <1>4 DEF Succ
      <4>3. CASE i # L /\ i # L + 1
        <5>1. /\ i \in 1..L /\ i < L + 1 /\ i < L /\ i + 1 \in 1..L
              /\ stack'[i] = stack[i] /\ path'[i] = path[i] /\ path'[i + 1] = path[i + 1]
          <6>1. /\ i \in 1..L /\ i < L + 1 /\ i < L /\ i + 1 \in 1..L /\ i \in 1..(L - 1)
            BY <4>3, <1>2
          <6>2. QED BY <6>1, <3>3, <2>2, <1>6
        <5>2. QED BY <5>1, <1>1, <1>2 DEF StackRight, Succ
      <4>4. QED BY <4>1, <4>2, <4>3
    <3>7. StackRight'
      BY <3>3, <3>6, <2>2, <1>1 DEF StackRight, Succ
    <3>8. RootRight'
      <4>1. path'[1] = path[1] /\ path' # <<>>
        BY <2>2, <1>2
      <4>2. QED BY <4>1, <1>1 DEF RootRight
    <3>9. QED BY <3>1, <3>4, <3>5, <3>7, <3>8, <2>3, <1>7, StillWalking
  <2>8. QED BY <2>6, <2>7
<1>12. QED BY <1>9, <1>10, <1>11

LEMMA AcceptKeeps == WalkInv /\ Accept => WalkInv'
<1> SUFFICES ASSUME WalkInv, Accept PROVE WalkInv'
  OBVIOUS
<1>1. /\ TypeOK /\ SettledRight /\ RootRight /\ WalkedOnce /\ path = <<>> /\ root = Nodes
      /\ verdict' = "accepted" /\ graph' = graph /\ root' = root /\ path' = path
      /\ stack' = stack /\ settled' = settled /\ walks' = walks
  BY DEF WalkInv, Accept, Walking, WalkRight
<1>2. settled = 1..Nodes
  BY <1>1 DEF RootRight, TypeOK
<1>3. ~Cyclic
  BY <1>1, <1>2 DEF Cyclic, SettledRight, Founded, Succ
<1>4. ~Cyclic' /\ WalkedOnce' /\ TypeOK'
  BY <1>1, <1>3 DEF Cyclic, WalkedOnce, TypeOK
<1>5. QED BY <1>1, <1>4 DEF WalkInv, WalkRight, RefusedFairly, Walking

\* A step of the walk keeps the invariant, and so does no step at all.
LEMMA WalkInvNext == WalkInv /\ [Next]_vars => WalkInv'
<1> SUFFICES ASSUME WalkInv, [Next]_vars PROVE WalkInv'
  OBVIOUS
<1>1. CASE UNCHANGED vars
  BY <1>1 DEF vars, WalkInv, TypeOK, Walking, PathRight, StackRight, SettledRight, Founded, Succ,
              RootRight, WalksCounted, WalkRight, WalkedOnce, RefusedFairly, Cyclic, DeeperThan, Linked
<1>2. CASE Next
  BY <1>2, StartedKeeps, RetreatKeeps, AdvanceKeeps, AcceptKeeps DEF Next
<1>3. QED BY <1>1, <1>2

\* WalkHolds: the validator walks each declaration once and refuses fairly,
\* whatever the declarations, however many, and whatever the depth allowed.
THEOREM WalkHolds == Spec => []WalkRight
<1>1. WalkInv => WalkRight
  BY DEF WalkInv
<1>2. QED BY <1>1, WalkInvInit, WalkInvNext, PTL DEF Spec

\* RecursionEnds: among accepted declarations no chain goes on for ever, so what
\* recurses on them (is_linear, sizeof, a function's calls) comes to an end.
THEOREM RecursionEnds ==
  Spec => [](verdict = "accepted" => ~\E f \in [Nat -> 1..Nodes] :
                                        \A i \in Nat : f[i + 1] \in ToSet(graph[f[i]]))
<1> DEFINE Endless == \E f \in [Nat -> 1..Nodes] : \A i \in Nat : f[i + 1] \in ToSet(graph[f[i]])
<1>1. WalkRight /\ verdict = "accepted" => ~Endless
  <2> SUFFICES ASSUME WalkRight, verdict = "accepted", Endless PROVE FALSE
    OBVIOUS
  <2>1. PICK f \in [Nat -> 1..Nodes] : \A i \in Nat : f[i + 1] \in ToSet(graph[f[i]])
    OBVIOUS
  <2> DEFINE C == {f[i] : i \in Nat}
  <2>2. C \in SUBSET (1..Nodes) /\ f[0] \in C
    OBVIOUS
  <2>3. ASSUME NEW n \in C PROVE ToSet(graph[n]) \cap C # {}
    <3>1. PICK i \in Nat : n = f[i]
      OBVIOUS
    <3>2. i + 1 \in Nat /\ f[i + 1] \in ToSet(graph[n]) /\ f[i + 1] \in C
      BY <2>1, <3>1
    <3>3. QED BY <3>2
  <2> HIDE DEF C
  <2>4. Cyclic
    BY <2>2, <2>3 DEF Cyclic
  <2>5. QED BY <2>4 DEF WalkRight, RefusedFairly
<1>2. WalkRight => (verdict = "accepted" => ~Endless)
  BY <1>1
<1> HIDE DEF Endless
<1>3. Spec => [](verdict = "accepted" => ~Endless)
  BY <1>2, WalkHolds, PTL
<1>4. QED BY <1>3 DEF Endless

=============================================================================
